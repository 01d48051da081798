---------------------------- MODULE OutboxProofs ----------------------------
(***************************************************************************)
(* Theorems about Outbox for any number of rows, instances, retries and    *)
(* faults.  The heart of the inductive invariant is that the advisory lock *)
(* names the one transaction that can still commit (LockInv), so the rows  *)
(* of its batch keep the committed status they were selected with          *)
(* (BatchInv) until it commits or is rolled back.                          *)
(*                                                                         *)
(* Two more facts carry the refinement of Delivery: what is in sent[i] has *)
(* a copy at the broker, provided BasicPublish returns only after the      *)
(* broker has the message (SentReachedBroker is then inductive; without it *)
(* a row can be marked sent that the broker never saw), and a batch never  *)
(* holds a row that was not enqueued, also after its transaction is gone   *)
(* (TodoInv).  For the duplicates the copies still to come from such       *)
(* batches are counted beside those the broker has (CopyInv).              *)
(***************************************************************************)
EXTENDS Outbox, FiniteSetTheorems, TLAPS

\* The lock is held exactly by the instance whose transaction is live.
LockInv == \A i \in Instances : phase[i] = "scan" <=> lock = i

\* A batch holds eligible rows, each of them unpublished, sent or failed.
BatchInv ==
  \A i \in Instances :
    /\ phase[i] # "scan" => sent[i] = {} /\ failed[i] = {}
    /\ phase[i] = "scan" =>
         \A r \in todo[i] \cup sent[i] \cup failed[i] :
           status[r] \in {Pending, Failed} /\ retry[r] < kMaxRetry
    /\ sent[i] \cap failed[i] = {}
    /\ todo[i] \cap (sent[i] \cup failed[i]) = {}

\* DeadExactlyAtLimit with Eligible written out.
RetryInv ==
  \A r \in Rows :
    /\ status[r] = Dead <=> retry[r] = kMaxRetry
    /\ status[r] = Failed => retry[r] > 0

IInv == TypeOK /\ LockInv /\ BatchInv /\ RetryInv

\* A row is never given up early: the policy's boundary.
LEMMA PolicyFacts ==
  ASSUME NEW before \in Nat, before < kMaxRetry
  PROVE  /\ nextStatusOnFailure(before) \in {Failed, Dead}
         /\ nextStatusOnFailure(before) = Dead <=> before + 1 = kMaxRetry
BY ParametersAssumption DEF nextStatusOnFailure, Failed, Dead

LEMMA InitIInv == Init => IInv
BY ParametersAssumption
DEF Init, IInv, TypeOK, LockInv, BatchInv, RetryInv, Absent, Pending, Sent, Failed, Dead

LEMMA EnqueueIInv ==
  ASSUME IInv, NEW r \in Rows, Enqueue(r)
  PROVE  IInv'
<1> USE ParametersAssumption DEF IInv, Enqueue
<1>1. TypeOK'
  BY DEF TypeOK
<1>2. LockInv'
  BY DEF LockInv
<1>3. BatchInv'
  BY DEF BatchInv, TypeOK, Absent, Pending, Failed
<1>4. RetryInv'
  BY DEF RetryInv, TypeOK, Absent, Pending, Failed, Dead
<1> QED BY <1>1, <1>2, <1>3, <1>4

LEMMA TickIInv ==
  ASSUME IInv, NEW i \in Instances, Tick(i)
  PROVE  IInv'
<1> USE ParametersAssumption DEF IInv
<1> PICK b \in Batches : todo' = [todo EXCEPT ![i] = b]
  BY DEF Tick
<1>1. b \subseteq Rows /\ \A r \in b : status[r] \in {Pending, Failed} /\ retry[r] < kMaxRetry
  BY DEF Batches, Eligible, TypeOK, RetryInv, Pending, Failed, Dead
<1>2. TypeOK'
  BY <1>1 DEF Tick, TypeOK
<1>3. LockInv'
  BY DEF Tick, LockInv, TypeOK
<1>4. BatchInv'
  BY <1>1 DEF Tick, BatchInv, TypeOK
<1>5. RetryInv'
  BY DEF Tick, RetryInv
<1> QED BY <1>2, <1>3, <1>4, <1>5

LEMMA PublishRowIInv ==
  ASSUME IInv, NEW i \in Instances, NEW r \in Rows, PublishRow(i, r)
  PROVE  IInv'
<1> USE ParametersAssumption DEF IInv
<1> PICK outcome \in PublishOutcomes :
      /\ Publish(r, outcome)
      /\ sent' = [sent EXCEPT ![i] = IF outcome[2] THEN @ \cup {r} ELSE @]
      /\ failed' = [failed EXCEPT ![i] = IF outcome[2] THEN @ ELSE @ \cup {r}]
  BY DEF PublishRow
<1>1. /\ phase[i] = "scan" /\ r \in todo[i]
      /\ todo' = [todo EXCEPT ![i] = @ \ {r}]
      /\ UNCHANGED <<status, retry, lock, phase, faults>>
  BY DEF PublishRow, Current
<1>2. copies' \in [Rows -> Nat]
  <2>1. copies[r] + (IF outcome[1] THEN 1 ELSE 0) \in Nat
    BY DEF TypeOK
  <2> QED BY <2>1 DEF Publish, TypeOK
<1>3. TypeOK'
  BY <1>1, <1>2 DEF TypeOK
<1>4. LockInv'
  BY <1>1 DEF LockInv
<1>5. BatchInv'
  <2>1. CASE outcome[2]
    BY <1>1, <2>1 DEF BatchInv, TypeOK
  <2>2. CASE ~outcome[2]
    BY <1>1, <2>2 DEF BatchInv, TypeOK
  <2> QED BY <2>1, <2>2
<1>6. RetryInv'
  BY <1>1 DEF RetryInv
<1> QED BY <1>3, <1>4, <1>5, <1>6

LEMMA ReleaseFacts ==
  ASSUME IInv, NEW i \in Instances, Release(i)
  PROVE  /\ lock' \in Instances \cup {None}
         /\ \A j \in Instances : lock' = j <=> lock = j /\ j # i
         /\ sent' \in [Instances -> SUBSET Rows] /\ failed' \in [Instances -> SUBSET Rows]
         /\ sent'[i] = {} /\ failed'[i] = {}
         /\ \A j \in Instances \ {i} : sent'[j] = sent[j] /\ failed'[j] = failed[j]
BY ParametersAssumption DEF Release, IInv, TypeOK

LEMMA CommitIInv ==
  ASSUME IInv, NEW i \in Instances, Commit(i)
  PROVE  IInv'
<1> USE ParametersAssumption DEF IInv
<1>1. /\ phase[i] = "scan" /\ todo[i] = {} /\ Release(i)
      /\ phase' = [phase EXCEPT ![i] = "idle"]
      /\ UNCHANGED <<copies, todo, faults>>
  BY DEF Commit
<1>2. \A r \in sent[i] \cup failed[i] :
        /\ r \in Rows
        /\ status[r] \in {Pending, Failed} /\ retry[r] < kMaxRetry
  BY <1>1 DEF BatchInv, TypeOK
<1>3. \A r \in Rows :
        /\ status'[r] \in {Absent, Pending, Sent, Failed, Dead}
        /\ retry'[r] \in 0 .. kMaxRetry
        /\ status'[r] = Dead <=> retry'[r] = kMaxRetry
        /\ status'[r] = Failed => retry'[r] > 0
  <2> TAKE r \in Rows
  <2>1. CASE r \in sent[i]
    <3>1. r \notin failed[i]
      BY <2>1 DEF BatchInv
    <3>2. status'[r] = Sent /\ retry'[r] = retry[r]
      BY <2>1, <3>1 DEF Commit
    <3> QED BY <1>2, <2>1, <3>2 DEF TypeOK, RetryInv, Pending, Sent, Failed, Dead
  <2>2. CASE r \in failed[i]
    <3>1. r \notin sent[i]
      BY <2>2 DEF BatchInv
    <3>2. status'[r] = nextStatusOnFailure(retry[r]) /\ retry'[r] = retry[r] + 1
      BY <2>2, <3>1 DEF Commit
    <3>3. retry[r] \in Nat /\ retry[r] < kMaxRetry
      BY <1>2, <2>2 DEF TypeOK
    <3> QED BY <3>2, <3>3, PolicyFacts
  <2>3. CASE r \notin sent[i] \cup failed[i]
    <3>1. status'[r] = status[r] /\ retry'[r] = retry[r]
      BY <2>3 DEF Commit
    <3> QED BY <3>1 DEF TypeOK, RetryInv
  <2> QED BY <2>1, <2>2, <2>3
<1>4. TypeOK'
  <2>1. DOMAIN status' = Rows /\ DOMAIN retry' = Rows
        /\ status' = [r \in Rows |-> status'[r]] /\ retry' = [r \in Rows |-> retry'[r]]
    BY DEF Commit
  <2>2. status' \in [Rows -> {Absent, Pending, Sent, Failed, Dead}]
    BY <1>3, <2>1
  <2>3. retry' \in [Rows -> 0 .. kMaxRetry]
    BY <1>3, <2>1
  <2> QED BY <1>1, <2>2, <2>3, ReleaseFacts DEF TypeOK
<1>5. \A j \in Instances \ {i} : phase[j] # "scan" /\ phase'[j] = phase[j]
  BY <1>1 DEF LockInv, TypeOK
<1>6. LockInv'
  BY <1>1, <1>5, ReleaseFacts DEF LockInv, TypeOK
<1>7. BatchInv'
  BY <1>1, <1>5, ReleaseFacts DEF BatchInv, TypeOK
<1>8. RetryInv'
  BY <1>3 DEF RetryInv
<1> QED BY <1>4, <1>6, <1>7, <1>8

\* Abort and LoseConnection differ in what becomes of the batch and the phase.
LEMMA RollbackIInv ==
  ASSUME IInv, NEW i \in Instances, phase[i] = "scan", faults < MaxFaults,
         faults' = faults + 1, Release(i), UNCHANGED <<status, retry, copies>>,
         \/ /\ phase' = [phase EXCEPT ![i] = "idle"]
            /\ todo' = [todo EXCEPT ![i] = {}]
         \/ /\ phase' = [phase EXCEPT ![i] = "orphan"]
            /\ todo' = todo
  PROVE  IInv'
<1> USE ParametersAssumption DEF IInv
<1>1. TypeOK'
  BY ReleaseFacts DEF TypeOK
<1>2. \A j \in Instances \ {i} : phase[j] # "scan" /\ phase'[j] = phase[j]
  BY DEF LockInv, TypeOK
<1>3. phase'[i] # "scan"
  BY DEF TypeOK
<1>4. LockInv'
  BY <1>2, <1>3, ReleaseFacts DEF LockInv
<1>5. BatchInv'
  BY <1>2, <1>3, ReleaseFacts DEF BatchInv, TypeOK
<1>6. RetryInv'
  BY DEF RetryInv
<1> QED BY <1>1, <1>4, <1>5, <1>6

LEMMA OrphanPublishIInv ==
  ASSUME IInv, NEW i \in Instances, NEW r \in Rows, OrphanPublish(i, r)
  PROVE  IInv'
<1> USE ParametersAssumption DEF IInv
<1> PICK outcome \in PublishOutcomes : Publish(r, outcome)
  BY DEF OrphanPublish
<1>1. copies' \in [Rows -> Nat]
  <2>1. copies[r] + (IF outcome[1] THEN 1 ELSE 0) \in Nat
    BY DEF TypeOK
  <2> QED BY <2>1 DEF Publish, TypeOK
<1>2. TypeOK'
  BY <1>1 DEF OrphanPublish, TypeOK
<1>3. LockInv'
  BY DEF OrphanPublish, LockInv, TypeOK
<1>4. BatchInv'
  BY DEF OrphanPublish, BatchInv, TypeOK
<1>5. RetryInv'
  BY DEF OrphanPublish, RetryInv
<1> QED BY <1>2, <1>3, <1>4, <1>5

LEMMA NextIInv == IInv /\ [Next]_vars => IInv'
<1> SUFFICES ASSUME IInv, [Next]_vars PROVE IInv'
  OBVIOUS
<1>1. ASSUME NEW r \in Rows, Enqueue(r) PROVE IInv'
  BY <1>1, EnqueueIInv
<1>2. ASSUME NEW i \in Instances, Tick(i) PROVE IInv'
  BY <1>2, TickIInv
<1>3. ASSUME NEW i \in Instances, NEW r \in Rows, PublishRow(i, r) PROVE IInv'
  BY <1>3, PublishRowIInv
<1>4. ASSUME NEW i \in Instances, Commit(i) PROVE IInv'
  BY <1>4, CommitIInv
<1>5. ASSUME NEW i \in Instances, Abort(i) \/ LoseConnection(i) PROVE IInv'
  BY <1>5, RollbackIInv DEF Abort, LoseConnection
<1>6. ASSUME NEW i \in Instances, NEW r \in Rows, OrphanPublish(i, r) PROVE IInv'
  BY <1>6, OrphanPublishIInv
<1>7. CASE UNCHANGED vars
  BY <1>7 DEF vars, IInv, TypeOK, LockInv, BatchInv, RetryInv
<1> QED BY <1>1, <1>2, <1>3, <1>4, <1>5, <1>6, <1>7 DEF Next
-----------------------------------------------------------------------------
\* The inductive invariant holds throughout, for every instance.
THEOREM Invariance == Spec => []IInv
BY InitIInv, NextIInv, PTL DEF Spec

\* Columns, lock and batches keep their types.
THEOREM TypeCorrect == Spec => []TypeOK
<1>1. IInv => TypeOK
  BY DEF IInv
<1> QED BY <1>1, Invariance, PTL

\* Only one transaction that can still commit scans the outbox.
THEOREM Exclusion == Spec => []OneScanner
<1>1. IInv => OneScanner
  BY DEF IInv, LockInv, OneScanner
<1> QED BY <1>1, Invariance, PTL

\* A row becomes a dead letter at its kMaxRetry-th recorded failure, neither
\* earlier nor later, and is selected until then.
THEOREM DeadLetter == Spec => []DeadExactlyAtLimit
<1>1. IInv => DeadExactlyAtLimit
  BY ParametersAssumption
  DEF IInv, RetryInv, TypeOK, DeadExactlyAtLimit, Eligible, Absent, Pending, Sent, Failed, Dead
<1> QED BY <1>1, Invariance, PTL
-----------------------------------------------------------------------------
(* What the broker holds *)

\* Rows of a batch exist, whatever became of the transaction that chose them.
TodoInv == \A i \in Instances : \A r \in todo[i] : status[r] # Absent

PInv == IInv /\ TodoInv /\ SentReachedBroker

\* A statement that succeeded is never taken back: rows stay.
LEMMA RowsStay ==
  ASSUME IInv, [Next]_vars, NEW r \in Rows, status[r] # Absent
  PROVE  status'[r] # Absent
<1>1. ASSUME NEW q \in Rows, Enqueue(q) PROVE status'[r] # Absent
  BY <1>1 DEF Enqueue, IInv, TypeOK, Absent, Pending
<1>2. ASSUME NEW i \in Instances, Commit(i) PROVE status'[r] # Absent
  <2>1. status'[r] = IF r \in sent[i] THEN Sent
                     ELSE IF r \in failed[i] THEN nextStatusOnFailure(retry[r])
                     ELSE status[r]
    BY <1>2 DEF Commit
  <2>2. r \in failed[i] => nextStatusOnFailure(retry[r]) \in {Failed, Dead}
    BY <1>2, PolicyFacts DEF IInv, BatchInv, TypeOK, Commit
  <2> QED BY <2>1, <2>2 DEF Absent, Sent, Failed, Dead
<1>3. CASE UNCHANGED status
  BY <1>3
<1> QED
  BY <1>1, <1>2, <1>3
  DEF Next, Tick, PublishRow, Abort, LoseConnection, OrphanPublish, vars

LEMMA TodoStep == IInv /\ TodoInv /\ [Next]_vars => TodoInv'
<1> SUFFICES ASSUME IInv, TodoInv, [Next]_vars, NEW j \in Instances, NEW q \in todo'[j]
             PROVE  status'[q] # Absent
  BY DEF TodoInv
<1>1. CASE q \in todo[j]
  BY <1>1, RowsStay DEF TodoInv, IInv, TypeOK
<1>2. ASSUME NEW i \in Instances, Tick(i), q \notin todo[j] PROVE status'[q] # Absent
  <2> PICK b \in Batches : todo' = [todo EXCEPT ![i] = b]
    BY <1>2 DEF Tick
  <2>1. q \in b
    BY <1>2 DEF IInv, TypeOK
  <2> QED BY <1>2, <2>1 DEF Tick, Batches, Eligible, Absent, Pending, Failed
<1>3. ASSUME NEW i \in Instances, Abort(i) \/ LoseConnection(i) \/ Commit(i)
                                  \/ \E r \in Rows : PublishRow(i, r) \/ OrphanPublish(i, r)
      PROVE  q \in todo[j]
  BY <1>3 DEF Abort, LoseConnection, Commit, PublishRow, OrphanPublish, IInv, TypeOK
<1>4. CASE UNCHANGED vars \/ \E r \in Rows : Enqueue(r)
  <2>1. todo' = todo
    BY <1>4 DEF vars, Enqueue
  <2> QED BY <1>1, <2>1
<1> QED BY <1>1, <1>2, <1>3, <1>4 DEF Next

\* What publishSync answers with TRUE the broker has.
LEMMA PublishFacts ==
  ASSUME IInv, NEW r \in Rows, NEW outcome \in PublishOutcomes, Publish(r, outcome)
  PROVE  /\ copies' \in [Rows -> Nat]
         /\ \A q \in Rows : copies[q] > 0 => copies'[q] > 0
         /\ ConfirmedPublish /\ outcome[2] => copies'[r] > 0
         /\ \/ copies' = copies
            \/ copies' = [copies EXCEPT ![r] = @ + 1]
<1>1. CASE outcome[1]
  BY <1>1 DEF Publish, IInv, TypeOK
<1>2. CASE ~outcome[1]
  <2>1. copies' = copies
    BY <1>2 DEF Publish, IInv, TypeOK
  <2>2. ConfirmedPublish => ~outcome[2]
    <3>1. SUFFICES ASSUME ConfirmedPublish PROVE ~outcome[2]
      OBVIOUS
    <3>2. outcome \in {<<TRUE, TRUE>>, <<FALSE, FALSE>>, <<TRUE, FALSE>>}
      BY <3>1 DEF PublishOutcomes
    <3>3. <<TRUE, TRUE>>[1] /\ <<TRUE, FALSE>>[1] /\ ~<<FALSE, FALSE>>[2]
      OBVIOUS
    <3>4. outcome = <<FALSE, FALSE>>
      BY <1>2, <3>2, <3>3, Zenon
    <3> QED BY <3>3, <3>4, Zenon
  <2> QED BY <2>1, <2>2 DEF IInv, TypeOK
<1> QED BY <1>1, <1>2

LEMMA SentStep ==
  ASSUME ConfirmedPublish
  PROVE  IInv /\ SentReachedBroker /\ [Next]_vars => SentReachedBroker'
<1> SUFFICES ASSUME IInv, SentReachedBroker, [Next]_vars, NEW q \in Rows,
                    status'[q] = Sent \/ (\E j \in Instances : q \in sent'[j])
             PROVE  copies'[q] > 0
  BY DEF SentReachedBroker
<1> DEFINE Marked == status[q] = Sent \/ (\E j \in Instances : q \in sent[j])
<1>0. Marked => copies[q] > 0
  BY DEF SentReachedBroker
<1>1. ASSUME NEW r \in Rows, Enqueue(r) PROVE copies'[q] > 0
  <2>1. Marked /\ copies' = copies
    BY <1>1 DEF Enqueue, IInv, TypeOK, Pending, Sent
  <2> QED BY <1>0, <2>1
<1>2. ASSUME NEW i \in Instances, Tick(i) PROVE copies'[q] > 0
  BY <1>0, <1>2 DEF Tick
<1>3. ASSUME NEW i \in Instances, NEW r \in Rows, PublishRow(i, r) PROVE copies'[q] > 0
  <2> PICK outcome \in PublishOutcomes :
        /\ Publish(r, outcome)
        /\ sent' = [sent EXCEPT ![i] = IF outcome[2] THEN @ \cup {r} ELSE @]
    BY <1>3 DEF PublishRow
  <2>1. CASE Marked
    BY <1>0, <2>1, PublishFacts
  <2>2. CASE ~Marked
    <3>1. status' = status
      BY <1>3 DEF PublishRow
    <3>2. q = r /\ outcome[2]
      BY <2>2, <3>1 DEF IInv, TypeOK
    <3> QED BY <3>2, PublishFacts
  <2> QED BY <2>1, <2>2
<1>4. ASSUME NEW i \in Instances, Commit(i) PROVE copies'[q] > 0
  <2>1. Release(i) /\ copies' = copies
    BY <1>4 DEF Commit
  <2>2. CASE \E j \in Instances : q \in sent'[j]
    BY <1>0, <2>1, <2>2, ReleaseFacts
  <2>3. CASE status'[q] = Sent
    <3>1. status'[q] = IF q \in sent[i] THEN Sent
                       ELSE IF q \in failed[i] THEN nextStatusOnFailure(retry[q])
                       ELSE status[q]
      BY <1>4 DEF Commit
    <3>2. q \in failed[i] => nextStatusOnFailure(retry[q]) \in {Failed, Dead}
      BY <1>4, PolicyFacts DEF IInv, BatchInv, TypeOK, Commit
    <3>3. Marked
      BY <2>3, <3>1, <3>2 DEF Sent, Failed, Dead
    <3> QED BY <1>0, <2>1, <3>3
  <2> QED BY <2>2, <2>3
<1>5. ASSUME NEW i \in Instances, Abort(i) \/ LoseConnection(i) PROVE copies'[q] > 0
  <2>1. Release(i) /\ UNCHANGED <<status, copies>>
    BY <1>5 DEF Abort, LoseConnection
  <2> QED BY <1>0, <2>1, ReleaseFacts
<1>6. ASSUME NEW i \in Instances, NEW r \in Rows, OrphanPublish(i, r) PROVE copies'[q] > 0
  <2>1. Marked
    BY <1>6 DEF OrphanPublish
  <2> PICK outcome \in PublishOutcomes : Publish(r, outcome)
    BY <1>6 DEF OrphanPublish
  <2> QED BY <1>0, <2>1, PublishFacts
<1>7. CASE UNCHANGED vars
  BY <1>0, <1>7 DEF vars
<1> QED BY <1>1, <1>2, <1>3, <1>4, <1>5, <1>6, <1>7 DEF Next

LEMMA PInvariance ==
  ASSUME ConfirmedPublish
  PROVE  Spec => []PInv
<1>1. Init => PInv
  BY InitIInv DEF Init, PInv, TodoInv, SentReachedBroker, Absent, Sent
<1>2. PInv /\ [Next]_vars => PInv'
  BY NextIInv, TodoStep, SentStep DEF PInv
<1> QED BY <1>1, <1>2, PTL DEF Spec

\* At least once: no row is marked sent, or about to be, before the broker has
\* its message, whatever transactions, connections and processes are lost.
THEOREM AtLeastOnce ==
  ASSUME ConfirmedPublish
  PROVE  Spec => []SentReachedBroker
<1>1. PInv => SentReachedBroker
  BY DEF PInv
<1> QED BY <1>1, PInvariance, PTL
-----------------------------------------------------------------------------
(* The refinement mapping *)

Fate == [r \in Rows |-> IF status[r] = Absent THEN "none"
                        ELSE IF status[r] = Sent THEN "sent"
                        ELSE IF status[r] = Dead THEN "dead" ELSE "pending"]

LEMMA InitMaps == Init => Promise!Init
BY DEF Init, Promise!Init, Absent

LEMMA StepMaps == PInv /\ [Next]_vars => [Promise!Next]_(Promise!vars)
<1> SUFFICES ASSUME PInv, [Next]_vars PROVE Promise!Next \/ UNCHANGED Promise!vars
  OBVIOUS
<1> USE DEF PInv
<1>1. ASSUME NEW r \in Rows, Enqueue(r) PROVE Promise!Post(r)
  <2>1. /\ status[r] = Absent /\ copies' = copies
        /\ status' = [status EXCEPT ![r] = Pending]
    BY <1>1 DEF Enqueue
  <2>2. status'[r] = Pending /\ \A q \in Rows \ {r} : status'[q] = status[q]
    BY <2>1 DEF IInv, TypeOK
  <2>3. Fate[r] = "none" /\ Fate'[r] = "pending" /\ \A q \in Rows \ {r} : Fate'[q] = Fate[q]
    BY <2>1, <2>2 DEF Fate, Absent, Pending, Sent, Dead
  <2>4. Fate' = [Fate EXCEPT ![r] = "pending"]
    <3> DEFINE New == [Fate EXCEPT ![r] = "pending"]
    <3>1. Fate' = [q \in Rows |-> Fate'[q]] /\ New = [q \in Rows |-> New[q]]
      BY DEF Fate
    <3>2. \A q \in Rows : Fate'[q] = New[q]
      BY <2>3 DEF Fate
    <3> QED BY <3>1, <3>2
  <2> QED BY <2>1, <2>3, <2>4 DEF Promise!Post, Fate
<1>2. ASSUME NEW r \in Rows, status[r] # Absent, status' = status,
             NEW outcome \in PublishOutcomes, Publish(r, outcome)
      PROVE  Promise!Copy(r) \/ UNCHANGED Promise!vars
  <2>1. Fate' = Fate /\ Fate[r] # "none"
    BY <1>2 DEF Fate
  <2>2. CASE copies' = copies
    BY <2>1, <2>2 DEF Promise!vars, Fate
  <2>3. CASE copies' = [copies EXCEPT ![r] = @ + 1]
    BY <2>1, <2>3 DEF Promise!Copy, Fate
  <2> QED BY <1>2, <2>2, <2>3, PublishFacts
<1>3. ASSUME NEW i \in Instances, NEW r \in Rows, PublishRow(i, r) \/ OrphanPublish(i, r)
      PROVE  Promise!Copy(r) \/ UNCHANGED Promise!vars
  <2>1. status[r] # Absent /\ status' = status
        /\ \E outcome \in PublishOutcomes : Publish(r, outcome)
    BY <1>3 DEF PublishRow, OrphanPublish, Current, TodoInv
  <2> QED BY <1>2, <2>1
<1>4. ASSUME NEW i \in Instances, Commit(i)
      PROVE  \E S, D \in SUBSET Rows : Promise!Settle(S, D)
  <2> DEFINE Given == {r \in failed[i] : nextStatusOnFailure(retry[r]) = Dead}
  <2>1. sent[i] \in SUBSET Rows /\ Given \in SUBSET Rows
    BY DEF IInv, TypeOK
  <2>2. \A r \in sent[i] \cup failed[i] :
          r \in Rows /\ status[r] \in {Pending, Failed} /\ retry[r] \in Nat /\ retry[r] < kMaxRetry
    BY <1>4 DEF Commit, IInv, BatchInv, TypeOK
  <2>3. \A r \in sent[i] \cup failed[i] : Fate[r] = "pending"
    BY <2>2 DEF Fate, Absent, Pending, Sent, Failed, Dead
  <2>4. \A r \in sent[i] : copies[r] > 0
    BY <2>2 DEF SentReachedBroker
  <2>5. ASSUME NEW r \in Rows
        PROVE  Fate'[r] = IF r \in sent[i] THEN "sent" ELSE IF r \in Given THEN "dead" ELSE Fate[r]
    <3>1. status'[r] = IF r \in sent[i] THEN Sent
                       ELSE IF r \in failed[i] THEN nextStatusOnFailure(retry[r])
                       ELSE status[r]
      BY <1>4 DEF Commit
    <3>2. CASE r \in sent[i]
      BY <3>1, <3>2 DEF Fate, Absent, Sent
    <3>3. CASE r \in failed[i] /\ r \notin sent[i]
      <4>1. nextStatusOnFailure(retry[r]) \in {Failed, Dead}
        BY <2>2, <3>3, PolicyFacts
      <4>2. status'[r] = nextStatusOnFailure(retry[r]) /\ Fate[r] = "pending"
        BY <2>3, <3>1, <3>3
      <4>3. CASE r \in Given
        BY <3>3, <4>2, <4>3 DEF Fate, Absent, Sent, Dead
      <4>4. CASE r \notin Given
        <5>1. status'[r] = Failed
          BY <3>3, <4>1, <4>2, <4>4
        <5> QED BY <3>3, <4>2, <4>4, <5>1 DEF Fate, Absent, Sent, Failed, Dead
      <4> QED BY <4>3, <4>4
    <3>4. CASE r \notin sent[i] \cup failed[i]
      BY <3>1, <3>4 DEF Fate
    <3> QED BY <3>2, <3>3, <3>4
  <2>6. Fate' = [r \in Rows |-> IF r \in sent[i] THEN "sent"
                                ELSE IF r \in Given THEN "dead" ELSE Fate[r]]
    BY <2>5 DEF Fate
  <2>7. copies' = copies
    BY <1>4 DEF Commit
  <2> HIDE DEF Given
  <2> SUFFICES \E S, D \in SUBSET Rows :
        /\ \A m \in S : Fate[m] = "pending" /\ copies[m] > 0
        /\ \A m \in D : Fate[m] = "pending"
        /\ Fate' = [m \in Rows |-> IF m \in S THEN "sent"
                                   ELSE IF m \in D THEN "dead" ELSE Fate[m]]
        /\ copies' = copies
    BY DEF Promise!Settle, Fate
  <2>8. \A m \in Given : Fate[m] = "pending"
    BY <2>3 DEF Given
  <2> QED BY <2>1, <2>3, <2>4, <2>6, <2>7, <2>8
<1>5. ASSUME NEW i \in Instances, Tick(i) \/ Abort(i) \/ LoseConnection(i)
      PROVE  UNCHANGED Promise!vars
  BY <1>5 DEF Tick, Abort, LoseConnection, Promise!vars
<1>6. CASE UNCHANGED vars
  BY <1>6 DEF vars, Promise!vars
<1> QED BY <1>1, <1>3, <1>4, <1>5, <1>6 DEF Next, Promise!Next

\* The outbox keeps its promise to the services that write to it: every step
\* of the dispatchers posts, copies or settles messages as Delivery allows, or
\* is invisible to them.
THEOREM Refinement ==
  ASSUME ConfirmedPublish
  PROVE  Spec => KeepsPromise
<1>1. Spec => []PInv
  BY PInvariance
<1>2. PInv /\ [Next]_vars => [Promise!Next]_(Promise!vars)
  BY StepMaps
<1> QED BY <1>1, <1>2, InitMaps, PTL DEF Spec, KeepsPromise, Promise!Spec
-----------------------------------------------------------------------------
(* Duplicates *)

\* Instances that may still publish r for a transaction that is gone.
Stray(r) == {i \in Instances : phase[i] = "orphan" /\ r \in todo[i]}

SentOnce(r) == IF status[r] = Sent THEN 1 ELSE 0
InFlight(r) == IF \E i \in Instances : r \in sent[i] \cup failed[i] THEN 1 ELSE 0

\* The copies of r there are, and those still to come from lost transactions,
\* are owed to recorded failures, to lost transactions and to one delivery.
CopyInv ==
  \A r \in Rows :
    /\ IsFiniteSet(Stray(r))
    /\ copies[r] + Cardinality(Stray(r)) <= retry[r] + faults + SentOnce(r) + InFlight(r)

DInv == IInv /\ CopyInv

LEMMA CountTypes ==
  ASSUME DInv, NEW r \in Rows
  PROVE  /\ copies[r] \in Nat /\ retry[r] \in Nat /\ faults \in Nat
         /\ IsFiniteSet(Stray(r)) /\ Cardinality(Stray(r)) \in Nat
         /\ SentOnce(r) \in {0, 1} /\ InFlight(r) \in {0, 1}
         /\ copies[r] + Cardinality(Stray(r)) <= retry[r] + faults + SentOnce(r) + InFlight(r)
<1>1. copies[r] \in Nat /\ retry[r] \in Nat /\ faults \in Nat
  BY ParametersAssumption DEF DInv, IInv, TypeOK
<1>2. IsFiniteSet(Stray(r)) /\ Cardinality(Stray(r)) \in Nat
  BY FS_CardinalityType DEF DInv, CopyInv
<1>3. SentOnce(r) \in {0, 1} /\ InFlight(r) \in {0, 1}
  BY DEF SentOnce, InFlight
<1> QED BY <1>1, <1>2, <1>3 DEF DInv, CopyInv

LEMMA OnlyScanner ==
  ASSUME IInv, NEW i \in Instances, phase[i] = "scan"
  PROVE  \A j \in Instances \ {i} : phase[j] # "scan" /\ sent[j] = {} /\ failed[j] = {}
BY DEF IInv, LockInv, BatchInv

\* A step that replaces no stray batch leaves the count of stray ones alone.
LEMMA SameStray ==
  ASSUME NEW r \in Rows,
         \A i \in Instances : (phase'[i] = "orphan" /\ r \in todo'[i])
                              <=> (phase[i] = "orphan" /\ r \in todo[i])
  PROVE  Stray(r)' = Stray(r)
BY DEF Stray

LEMMA PublishCopies ==
  ASSUME IInv, NEW r \in Rows, NEW outcome \in PublishOutcomes, Publish(r, outcome)
  PROVE  /\ copies'[r] \in {copies[r], copies[r] + 1}
         /\ \A q \in Rows \ {r} : copies'[q] = copies[q]
BY PublishFacts DEF IInv, TypeOK

LEMMA PublishRowCopies ==
  ASSUME DInv, NEW i \in Instances, NEW q \in Rows, PublishRow(i, q)
  PROVE  CopyInv'
<1>1. IInv
  BY DEF DInv
<1> PICK outcome \in PublishOutcomes :
      /\ Publish(q, outcome)
      /\ sent' = [sent EXCEPT ![i] = IF outcome[2] THEN @ \cup {q} ELSE @]
      /\ failed' = [failed EXCEPT ![i] = IF outcome[2] THEN @ ELSE @ \cup {q}]
  BY DEF PublishRow
<1>2. /\ phase[i] = "scan" /\ q \in todo[i]
      /\ todo' = [todo EXCEPT ![i] = @ \ {q}]
      /\ UNCHANGED <<status, retry, phase, faults>>
  BY DEF PublishRow, Current
<1>3. /\ sent'[i] \cup failed'[i] = sent[i] \cup failed[i] \cup {q}
      /\ \A j \in Instances \ {i} : sent'[j] = sent[j] /\ failed'[j] = failed[j]
  <2>1. sent \in [Instances -> SUBSET Rows] /\ failed \in [Instances -> SUBSET Rows]
    BY <1>1 DEF IInv, TypeOK
  <2>2. CASE outcome[2]
    BY <2>1, <2>2
  <2>3. CASE ~outcome[2]
    BY <2>1, <2>3
  <2> QED BY <2>2, <2>3
<1>4. ASSUME NEW r \in Rows
      PROVE  /\ IsFiniteSet(Stray(r)')
             /\ copies'[r] + Cardinality(Stray(r)') <= retry'[r] + faults' + SentOnce(r)' + InFlight(r)'
  <2>1. Stray(r)' = Stray(r)
    BY <1>1, <1>2, SameStray DEF IInv, TypeOK
  <2>2. SentOnce(r)' = SentOnce(r) /\ retry'[r] = retry[r] /\ faults' = faults
    BY <1>2 DEF SentOnce
  <2>3. CASE r = q
    <3>1. InFlight(r) = 0
      BY <1>1, <1>2, <2>3, OnlyScanner DEF InFlight, IInv, BatchInv
    <3>2. InFlight(r)' = 1
      BY <1>3, <2>3 DEF InFlight
    <3>3. copies'[r] \in {copies[r], copies[r] + 1}
      BY <1>1, <2>3, PublishCopies
    <3> QED BY <2>1, <2>2, <3>1, <3>2, <3>3, CountTypes
  <2>4. CASE r # q
    <3>1. InFlight(r)' = InFlight(r)
      BY <1>3, <2>4 DEF InFlight
    <3>2. copies'[r] = copies[r]
      BY <1>1, <2>4, PublishCopies
    <3> QED BY <2>1, <2>2, <3>1, <3>2, CountTypes
  <2> QED BY <2>3, <2>4
<1> QED BY <1>4 DEF CopyInv

LEMMA CommitCopies ==
  ASSUME DInv, NEW i \in Instances, Commit(i)
  PROVE  CopyInv'
<1>1. IInv
  BY DEF DInv
<1>2. /\ phase[i] = "scan" /\ Release(i)
      /\ phase' = [phase EXCEPT ![i] = "idle"]
      /\ UNCHANGED <<copies, todo, faults>>
  BY DEF Commit
<1>3. \A j \in Instances : sent'[j] = {} /\ failed'[j] = {}
  BY <1>1, <1>2, OnlyScanner, ReleaseFacts
<1>4. ASSUME NEW r \in Rows
      PROVE  /\ IsFiniteSet(Stray(r)')
             /\ copies'[r] + Cardinality(Stray(r)') <= retry'[r] + faults' + SentOnce(r)' + InFlight(r)'
  <2>1. Stray(r)' = Stray(r)
    BY <1>1, <1>2, SameStray DEF IInv, TypeOK
  <2>2. copies'[r] = copies[r] /\ faults' = faults /\ InFlight(r)' = 0
    BY <1>2, <1>3 DEF InFlight
  <2>3. /\ status'[r] = IF r \in sent[i] THEN Sent
                        ELSE IF r \in failed[i] THEN nextStatusOnFailure(retry[r])
                        ELSE status[r]
        /\ retry'[r] = IF r \in failed[i] THEN retry[r] + 1 ELSE retry[r]
    BY DEF Commit
  <2>4. r \in sent[i] \cup failed[i] => SentOnce(r) = 0
    BY <1>1, <1>2 DEF IInv, BatchInv, SentOnce, Pending, Failed, Sent
  <2>5. CASE r \in sent[i]
    <3>1. SentOnce(r)' = 1 /\ retry'[r] = retry[r]
      BY <1>1, <2>3, <2>5 DEF SentOnce, IInv, BatchInv
    <3> QED BY <2>1, <2>2, <2>4, <2>5, <3>1, CountTypes
  <2>6. CASE r \in failed[i]
    <3>1. SentOnce(r)' \in {0, 1} /\ retry'[r] = retry[r] + 1
      BY <2>3, <2>6 DEF SentOnce
    <3> QED BY <2>1, <2>2, <2>4, <2>6, <3>1, CountTypes
  <2>7. CASE r \notin sent[i] \cup failed[i]
    <3>1. SentOnce(r)' = SentOnce(r) /\ retry'[r] = retry[r]
      BY <2>3, <2>7 DEF SentOnce
    <3>2. InFlight(r) = 0
      BY <1>1, <1>2, <2>7, OnlyScanner DEF InFlight
    <3> QED BY <2>1, <2>2, <3>1, <3>2, CountTypes
  <2> QED BY <2>5, <2>6, <2>7
<1> QED BY <1>4 DEF CopyInv

LEMMA RollbackCopies ==
  ASSUME DInv, NEW i \in Instances, Abort(i) \/ LoseConnection(i)
  PROVE  CopyInv'
<1>1. IInv
  BY DEF DInv
<1>2. /\ phase[i] = "scan" /\ Release(i) /\ faults' = faults + 1
      /\ UNCHANGED <<status, retry, copies>>
  BY DEF Abort, LoseConnection
<1>3. \A j \in Instances : sent'[j] = {} /\ failed'[j] = {}
  BY <1>1, <1>2, OnlyScanner, ReleaseFacts
<1>4. /\ \A j \in Instances \ {i} : phase'[j] = phase[j] /\ todo'[j] = todo[j]
      /\ phase'[i] \in {"idle", "orphan"}
      /\ phase'[i] = "orphan" => todo'[i] = todo[i]
  BY <1>1 DEF IInv, TypeOK, Abort, LoseConnection
<1>5. ASSUME NEW r \in Rows
      PROVE  /\ IsFiniteSet(Stray(r)')
             /\ copies'[r] + Cardinality(Stray(r)') <= retry'[r] + faults' + SentOnce(r)' + InFlight(r)'
  <2>1. /\ copies'[r] = copies[r] /\ retry'[r] = retry[r] /\ faults' = faults + 1
        /\ InFlight(r)' = 0 /\ SentOnce(r)' = SentOnce(r)
    BY <1>2, <1>3 DEF InFlight, SentOnce
  <2>2. CASE phase'[i] = "orphan" /\ r \in todo[i]
    <3>1. Stray(r)' = Stray(r) \cup {i} /\ i \notin Stray(r)
      BY <1>2, <1>4, <2>2 DEF Stray
    <3>2. IsFiniteSet(Stray(r)') /\ Cardinality(Stray(r)') = Cardinality(Stray(r)) + 1
      BY <3>1, CountTypes, FS_AddElement
    <3>3. InFlight(r) = 0
      BY <1>1, <1>2, <2>2, OnlyScanner DEF InFlight, IInv, BatchInv
    <3> QED BY <2>1, <3>2, <3>3, CountTypes
  <2>3. CASE ~(phase'[i] = "orphan" /\ r \in todo[i])
    <3>1. Stray(r)' = Stray(r)
      BY <1>2, <1>4, <2>3, SameStray
    <3> QED BY <2>1, <3>1, CountTypes
  <2> QED BY <2>2, <2>3
<1> QED BY <1>5 DEF CopyInv

LEMMA OrphanCopies ==
  ASSUME DInv, NEW i \in Instances, NEW q \in Rows, OrphanPublish(i, q)
  PROVE  CopyInv'
<1>1. IInv
  BY DEF DInv
<1> PICK outcome \in PublishOutcomes : Publish(q, outcome)
  BY DEF OrphanPublish
<1>2. /\ phase[i] = "orphan" /\ q \in todo[i]
      /\ phase'[i] = "idle"
      /\ \A j \in Instances \ {i} : phase'[j] = phase[j] /\ todo'[j] = todo[j]
      /\ UNCHANGED <<status, retry, sent, failed, faults>>
  BY <1>1 DEF IInv, TypeOK, OrphanPublish, Current
<1>3. ASSUME NEW r \in Rows
      PROVE  /\ IsFiniteSet(Stray(r)')
             /\ copies'[r] + Cardinality(Stray(r)') <= retry'[r] + faults' + SentOnce(r)' + InFlight(r)'
  <2>1. /\ retry'[r] = retry[r] /\ faults' = faults
        /\ InFlight(r)' = InFlight(r) /\ SentOnce(r)' = SentOnce(r)
    BY <1>2 DEF InFlight, SentOnce
  <2>2. CASE r \in todo[i]
    <3>1. Stray(r)' = Stray(r) \ {i} /\ i \in Stray(r)
      BY <1>2, <2>2 DEF Stray
    <3>2. IsFiniteSet(Stray(r)') /\ Cardinality(Stray(r)') = Cardinality(Stray(r)) - 1
      BY <3>1, CountTypes, FS_RemoveElement
    <3>3. copies'[r] \in {copies[r], copies[r] + 1}
      BY <1>1, PublishCopies
    <3> QED BY <2>1, <3>2, <3>3, CountTypes
  <2>3. CASE r \notin todo[i]
    <3>1. Stray(r)' = Stray(r)
      BY <1>2, <2>3, SameStray
    <3>2. copies'[r] = copies[r]
      BY <1>1, <1>2, <2>3, PublishCopies
    <3> QED BY <2>1, <3>1, <3>2, CountTypes
  <2> QED BY <2>2, <2>3
<1> QED BY <1>3 DEF CopyInv

LEMMA QuietCopies ==
  ASSUME DInv,
         \/ \E r \in Rows : Enqueue(r)
         \/ \E i \in Instances : Tick(i)
         \/ UNCHANGED vars
  PROVE  CopyInv'
<1>1. IInv
  BY DEF DInv
<1>2. UNCHANGED <<retry, copies, sent, failed, faults>>
  BY DEF Enqueue, Tick, vars
<1>3. ASSUME NEW r \in Rows
      PROVE  Stray(r)' = Stray(r) /\ SentOnce(r)' = SentOnce(r) /\ InFlight(r)' = InFlight(r)
  <2>1. InFlight(r)' = InFlight(r)
    BY <1>2 DEF InFlight
  <2>2. CASE \E i \in Instances : Tick(i)
    <3>1. PICK i \in Instances : Tick(i)
      BY <2>2
    <3>2. /\ phase[i] = "idle" /\ phase'[i] = "scan" /\ UNCHANGED status
          /\ \A j \in Instances \ {i} : phase'[j] = phase[j] /\ todo'[j] = todo[j]
      BY <1>1, <3>1 DEF IInv, TypeOK, Tick
    <3>3. Stray(r)' = Stray(r)
      BY <3>2, SameStray
    <3> QED BY <2>1, <3>2, <3>3 DEF SentOnce
  <2>3. CASE \E q \in Rows : Enqueue(q)
    <3>1. PICK q \in Rows : Enqueue(q)
      BY <2>3
    <3>2. /\ status[q] = Absent /\ status'[q] = Pending /\ UNCHANGED <<phase, todo>>
          /\ \A p \in Rows \ {q} : status'[p] = status[p]
      BY <1>1, <3>1 DEF IInv, TypeOK, Enqueue
    <3>3. Stray(r)' = Stray(r)
      BY <3>2, SameStray
    <3>4. SentOnce(r)' = SentOnce(r)
      BY <3>2 DEF SentOnce, Absent, Pending, Sent
    <3> QED BY <2>1, <3>3, <3>4
  <2>4. CASE UNCHANGED vars
    BY <2>1, <2>4 DEF vars, Stray, SentOnce
  <2> QED BY <2>2, <2>3, <2>4
<1> QED BY <1>2, <1>3, CountTypes DEF CopyInv

LEMMA NextDInv == DInv /\ [Next]_vars => DInv'
<1> SUFFICES ASSUME DInv, [Next]_vars PROVE DInv'
  OBVIOUS
<1>1. CopyInv'
  BY PublishRowCopies, CommitCopies, RollbackCopies, OrphanCopies, QuietCopies DEF Next
<1> QED BY <1>1, NextIInv DEF DInv

\* Every copy of a message beyond the first is owed to a failure that was
\* recorded or to a transaction that was lost, for any number of instances,
\* also while batches of lost transactions are still being published.
THEOREM Duplicates == Spec => []DuplicatesAccounted
<1>1. Init => DInv
  <2> SUFFICES ASSUME Init PROVE CopyInv
    BY InitIInv DEF DInv
  <2>1. \A r \in Rows : Stray(r) = {}
    BY DEF Init, Stray
  <2>2. \A r \in Rows : copies[r] = 0 /\ retry[r] = 0 /\ faults = 0
                        /\ SentOnce(r) = 0 /\ InFlight(r) = 0
    BY DEF Init, SentOnce, InFlight, Absent, Sent
  <2> QED BY <2>1, <2>2, FS_EmptySet DEF CopyInv
<1>2. DInv => DuplicatesAccounted
  <2> SUFFICES ASSUME DInv, NEW r \in Rows
               PROVE  copies[r] <= retry[r] + faults + SentOnce(r) + InFlight(r)
    BY DEF DuplicatesAccounted, SentOnce, InFlight
  <2> QED BY CountTypes
<1> QED BY <1>1, <1>2, NextDInv, PTL DEF Spec
=============================================================================
