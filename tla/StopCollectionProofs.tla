------------------------ MODULE StopCollectionProofs ------------------------
(***************************************************************************)
(* Theorems about StopCollection, for any messages, lines and devices, any *)
(* number of channels and any number of faults.                            *)
(*                                                                         *)
(* A result that says "written" is true of the message it is about from    *)
(* the moment it is queued (ResultsDone), because a job without a failure  *)
(* still has every device whose row is missing (JobsCount).  What the      *)
(* broker then takes the result for is another matter: mistaken.           *)
(***************************************************************************)
EXTENDS StopCollection, Functions, TLAPS

Delivery == [m : Messages, tag : Nat]
Result == Nat \X BOOLEAN \X Messages

Job ==
  [id : Nat \X Nat, m : Messages, stage : {"query", "insert"},
   todo : SUBSET Devices, underway : SUBSET Devices, failed : {"no", "yes"}]

TypeOK ==
  /\ mq \in [Messages -> {"none", "ready", "unacked", "gone"}]
  /\ unacked \in Delivery \cup {NoDelivery}
  /\ lastTag \in Nat /\ connects \in Nat
  /\ buffer \in Seq(Delivery)
  /\ acks \in Seq(Result) /\ ackQueue \in Seq(Result)
  /\ jobs \subseteq Job
  /\ \A job \in jobs : job.stage = "query" => job.todo = {} /\ job.underway = {}
  /\ DOMAIN history = {"early", "mistaken", "stranded"}

Results == Range(acks) \cup Range(ackQueue)

\* An acknowledgement of m is due, or excused.
Done(m) ==
  \/ \A d \in DevicesOf[m] : <<m, d>> \in written
  \/ m \in Malformed \cup history.early

ResultsDone == \A r \in Results : r[2] = FALSE \/ Done(r[3])

Counted(job) ==
  \/ job.stage = "query" \/ job.failed = "yes"
  \/ \A d \in DevicesOf[job.m] \ (job.todo \cup job.underway) : <<job.m, d>> \in written

JobsCount == \A job \in jobs : Counted(job)

GoneDone == \A m \in Messages : mq[m] = "gone" => Done(m) \/ m \in history.mistaken

\* A channel that is closed awaits nothing, and the loop starts without results.
Closed == (channel # "open" => unacked = NoDelivery) /\ (atTop => acks = <<>>)

\* Somebody has the delivery with this tag, or its result.
Attends(tag) ==
  \/ \E job \in jobs : job.id = <<connects, tag>>
  \/ \E r \in Results : r[1] = tag
  \/ <<connects, tag>> \in history.stranded

Attended ==
  channel = "open" /\ unacked # NoDelivery =>
    unacked \in Range(buffer) \/ Attends(unacked.tag)

IInv == TypeOK /\ ResultsDone /\ JobsCount /\ GoneDone /\ Closed /\ Attended
-----------------------------------------------------------------------------
(* Queues *)

LEMMA Appended ==
  ASSUME NEW R, NEW q \in Seq(R), NEW e \in R
  PROVE  Append(q, e) \in Seq(R) /\ Range(Append(q, e)) = Range(q) \cup {e}
<1>1. /\ Append(q, e) \in Seq(R)
      /\ DOMAIN Append(q, e) = DOMAIN q \cup {Len(q) + 1}
      /\ \A i \in DOMAIN q : Append(q, e)[i] = q[i]
      /\ Append(q, e)[Len(q) + 1] = e
  OBVIOUS
<1> QED BY <1>1 DEF Range

LEMMA Taken ==
  ASSUME NEW R, NEW q \in Seq(R), q # <<>>
  PROVE  /\ Head(q) \in R /\ Tail(q) \in Seq(R)
         /\ Head(q) \in Range(q) /\ Range(Tail(q)) \subseteq Range(q)
         /\ Range(q) \subseteq {Head(q)} \cup Range(Tail(q))
<1>1. /\ Head(q) \in R /\ Tail(q) \in Seq(R)
      /\ 1 \in DOMAIN q /\ Head(q) = q[1]
      /\ \A i \in DOMAIN Tail(q) : i + 1 \in DOMAIN q /\ Tail(q)[i] = q[i + 1]
      /\ \A i \in DOMAIN q : i = 1 \/ (i - 1 \in DOMAIN Tail(q) /\ Tail(q)[i - 1] = q[i])
  OBVIOUS
<1>2. ASSUME NEW x \in Range(q) PROVE x = Head(q) \/ x \in Range(Tail(q))
  <2> PICK i \in DOMAIN q : x = q[i]
    BY DEF Range
  <2>1. i = 1 \/ (i - 1 \in DOMAIN Tail(q) /\ Tail(q)[i - 1] = q[i])
    BY <1>1
  <2> QED BY <1>1, <2>1 DEF Range
<1>3. Range(Tail(q)) \subseteq Range(q)
  BY <1>1 DEF Range
<1> QED BY <1>1, <1>2, <1>3 DEF Range

LEMMA Empty == Range(<<>>) = {}
BY DEF Range

LEMMA Elements == ASSUME NEW R, NEW q \in Seq(R) PROVE Range(q) \subseteq R
BY DEF Range
-----------------------------------------------------------------------------
(* Jobs *)

\* What a callback leaves of its job.
LEMMA Queried ==
  ASSUME TypeOK, NEW job \in jobs
  PROVE  LET new == [job EXCEPT !.stage = "insert", !.todo = DevicesOf[job.m]]
         IN  /\ new \in Job /\ new.id = job.id /\ new.m = job.m /\ new.stage = "insert"
             /\ new.todo = DevicesOf[job.m] /\ new.underway = job.underway
             /\ new.failed = job.failed
<1>1. job \in Job
  BY DEF TypeOK
<1>2. DevicesOf[job.m] \in SUBSET Devices
  BY <1>1, ParametersAssumption DEF Job
<1> QED BY <1>1, <1>2 DEF Job

LEMMA Submitted ==
  ASSUME TypeOK, NEW job \in jobs, NEW d \in Devices
  PROVE  LET new == [job EXCEPT !.todo = @ \ {d}, !.underway = @ \cup {d}]
         IN  /\ new \in Job /\ new.id = job.id /\ new.m = job.m /\ new.stage = job.stage
             /\ new.todo = job.todo \ {d} /\ new.underway = job.underway \cup {d}
             /\ new.failed = job.failed
BY DEF TypeOK, Job

LEMMA Returned ==
  ASSUME TypeOK, NEW job \in jobs, NEW d \in Devices
  PROVE  LET new == [job EXCEPT !.underway = @ \ {d}]
         IN  /\ new \in Job /\ new.id = job.id /\ new.m = job.m /\ new.stage = job.stage
             /\ new.todo = job.todo /\ new.underway = job.underway \ {d}
             /\ new.failed = job.failed
BY DEF TypeOK, Job

LEMMA Failed ==
  ASSUME TypeOK, NEW job \in jobs, NEW d \in Devices
  PROVE  LET new == [job EXCEPT !.underway = @ \ {d}, !.failed = "yes"]
         IN  /\ new \in Job /\ new.id = job.id /\ new.m = job.m /\ new.stage = job.stage
             /\ new.todo = job.todo /\ new.underway = job.underway \ {d}
             /\ new.failed = "yes"
BY DEF TypeOK, Job
-----------------------------------------------------------------------------
(* Type correctness *)

LEMMA TypeInit == Init => TypeOK
BY ParametersAssumption DEF Init, TypeOK

LEMMA Requeued ==
  ASSUME TypeOK, Requeue
  PROVE  /\ mq' \in [Messages -> {"none", "ready", "unacked", "gone"}]
         /\ unacked' \in Delivery \cup {NoDelivery}
         /\ \A m \in Messages : mq'[m] = "gone" => mq[m] = "gone"
BY DEF Requeue, TypeOK

\* A result that a callback queues for its job.
LEMMA Enqueued ==
  ASSUME TypeOK, NEW job \in jobs, NEW ok \in BOOLEAN, enqueueAck(job, ok)
  PROVE  /\ ackQueue' \in Seq(Result)
         /\ Range(ackQueue') = Range(ackQueue) \cup {<<job.id[2], ok, job.m>>}
<1> DEFINE x == <<job.id[2], ok, job.m>>
<1>1. x \in Result
  BY DEF TypeOK, Job, Result
<1>2. ackQueue' = Append(ackQueue, x)
  BY DEF enqueueAck
<1> HIDE DEF x
<1>3. ackQueue \in Seq(Result)
  BY DEF TypeOK
<1>4. ackQueue' \in Seq(Result) /\ Range(ackQueue') = Range(ackQueue) \cup {x}
  BY <1>1, <1>2, <1>3, Appended
<1> QED BY <1>4 DEF x

LEMMA Replaced ==
  ASSUME TypeOK, NEW job \in jobs, NEW new \in Job, Replace(job, new),
         new.stage = "query" => new.todo = {} /\ new.underway = {}
  PROVE  /\ jobs' \subseteq Job
         /\ \A j \in jobs' : j.stage = "query" => j.todo = {} /\ j.underway = {}
BY DEF Replace, TypeOK

LEMMA TypeNext ==
  ASSUME TypeOK, [Next]_vars
  PROVE  TypeOK'
<1> USE DEF TypeOK
<1>1. CASE UNCHANGED vars
  BY <1>1 DEF vars, broker, consumer
<1>2. ASSUME NEW m \in Messages, Post(m) PROVE TypeOK'
  BY <1>2 DEF Post, consumer
<1>3. ASSUME NEW m \in Messages, Push(m) PROVE TypeOK'
  <2>1. unacked' = [m |-> m, tag |-> lastTag + 1] /\ unacked' \in Delivery
    BY <1>3 DEF Push, Delivery
  <2>2. buffer' \in Seq(Delivery)
    BY <1>3, <2>1 DEF Push
  <2> QED BY <1>3, <2>1, <2>2 DEF Push
<1>4. CASE LoseConnection
  BY <1>4, Requeued DEF LoseConnection
<1>5. CASE Connect
  BY <1>5 DEF Connect
<1>6. CASE TakeAcks
  BY <1>6 DEF TakeAcks, broker
<1>7. CASE Settle
  <2>1. unacked.m \in Messages /\ unacked' = NoDelivery
    BY <1>7 DEF Settle, Known, Delivery
  <2>2. acks' \in Seq(Result)
    BY <1>7 DEF Settle
  <2>3. mq' \in [Messages -> {"none", "ready", "unacked", "gone"}]
    BY <1>7 DEF Settle
  <2>4. DOMAIN history' = DOMAIN history
    BY <1>7 DEF Settle
  <2> QED BY <1>7, <2>1, <2>2, <2>3, <2>4 DEF Settle
<1>8. CASE SettleUnknown
  BY <1>8, Requeued DEF SettleUnknown
<1>9. CASE Notice
  BY <1>9 DEF Notice, broker
<1>10. CASE Consume
  <2>1. Head(buffer) \in Delivery /\ buffer' \in Seq(Delivery)
    BY <1>10 DEF Consume
  <2>2. JobOf(Head(buffer)) \in Job
    BY <2>1 DEF JobOf, Job, Delivery
  <2>3. JobOf(Head(buffer)).todo = {} /\ JobOf(Head(buffer)).underway = {}
    BY DEF JobOf
  <2>4. <<Head(buffer).tag, TRUE, Head(buffer).m>> \in Result
    BY <2>1 DEF Delivery, Result
  <2>5. ackQueue' \in Seq(Result)
    <3> DEFINE r == <<Head(buffer).tag, TRUE, Head(buffer).m>>
    <3>1. ackQueue' = ackQueue \/ ackQueue' = Append(ackQueue, r)
      BY <1>10, Zenon DEF Consume
    <3>2. r \in Result
      BY <2>4
    <3>3. ackQueue \in Seq(Result)
      OBVIOUS
    <3>4. Append(ackQueue, r) \in Seq(Result)
      BY <3>2, <3>3, Appended, Zenon
    <3> QED BY <3>1, <3>3, <3>4, Zenon
  <2>6. jobs' \subseteq jobs \cup {JobOf(Head(buffer))}
    BY <1>10 DEF Consume
  <2> QED BY <1>10, <2>1, <2>2, <2>3, <2>5, <2>6 DEF Consume, broker
<1>11. CASE Timeout
  BY <1>11 DEF Timeout, broker
<1>12. ASSUME NEW job \in jobs, QueryReturns(job) PROVE TypeOK'
  <2> DEFINE new == [job EXCEPT !.stage = "insert", !.todo = DevicesOf[job.m]]
  <2>1. new \in Job /\ new.stage = "insert"
    BY Queried, Zenon
  <2>2. Replace(job, new)
    BY <1>12 DEF QueryReturns
  <2> HIDE DEF new
  <2>3. ackQueue' \in Seq(Result)
    BY <1>12, Enqueued DEF QueryReturns
  <2> QED BY <1>12, <2>1, <2>2, <2>3, Replaced DEF QueryReturns, broker, consumer
<1>13. ASSUME NEW job \in jobs, QueryFails(job) PROVE TypeOK'
  <2>1. ackQueue' \in Seq(Result)
    BY <1>13, Enqueued DEF QueryFails
  <2> QED BY <1>13, <2>1, Replaced DEF QueryFails, broker, consumer
<1>14. ASSUME NEW job \in jobs, NEW d \in Devices, Submit(job, d) PROVE TypeOK'
  <2> DEFINE new == [job EXCEPT !.todo = @ \ {d}, !.underway = @ \cup {d}]
  <2>1. new \in Job /\ new.stage = job.stage
    BY Submitted, Zenon
  <2>2. Replace(job, new) /\ job.stage # "query"
    BY <1>14 DEF Submit
  <2> HIDE DEF new
  <2> QED BY <1>14, <2>1, <2>2, Replaced DEF Submit, broker, consumer
<1>15. ASSUME NEW job \in jobs, NEW d \in Devices, InsertReturns(job, d) PROVE TypeOK'
  <2> DEFINE new == [job EXCEPT !.underway = @ \ {d}]
  <2>1. new \in Job /\ new.stage = job.stage
    BY Returned, Zenon
  <2>2. Replace(job, new) /\ job.stage # "query"
    BY <1>15 DEF InsertReturns
  <2> HIDE DEF new
  <2>3. ackQueue' \in Seq(Result)
    BY <1>15, Enqueued DEF InsertReturns
  <2>4. DOMAIN history' = DOMAIN history
    BY <1>15 DEF InsertReturns
  <2> QED BY <1>15, <2>1, <2>2, <2>3, <2>4, Replaced DEF InsertReturns, broker, consumer
<1>16. ASSUME NEW job \in jobs, NEW d \in Devices, InsertFails(job, d) PROVE TypeOK'
  <2> DEFINE new == [job EXCEPT !.underway = @ \ {d}, !.failed = "yes"]
  <2>1. new \in Job /\ new.stage = job.stage
    BY Failed, Zenon
  <2>2. Replace(job, new) /\ job.stage # "query"
    BY <1>16 DEF InsertFails
  <2> HIDE DEF new
  <2>3. ackQueue' \in Seq(Result)
    BY <1>16, Enqueued DEF InsertFails
  <2> QED BY <1>16, <2>1, <2>2, <2>3, Replaced DEF InsertFails, broker, consumer
<1>17. CASE Crash
  BY <1>17, Requeued DEF Crash
<1> HIDE DEF TypeOK
<1> QED BY <1>1, <1>2, <1>3, <1>4, <1>5, <1>6, <1>7, <1>8, <1>9, <1>10, <1>11, <1>12, <1>13,
           <1>14, <1>15, <1>16, <1>17 DEF Next

\* Every variable keeps to its type, and a job whose query is out has no insert.
THEOREM TypeCorrect == Spec => []TypeOK
BY TypeInit, TypeNext, PTL DEF Spec
-----------------------------------------------------------------------------
(* Acknowledgements *)

AInv == TypeOK /\ ResultsDone /\ JobsCount /\ GoneDone

LEMMA InitAInv == Init => AInv
<1> SUFFICES ASSUME Init PROVE AInv
  OBVIOUS
<1>1. Results = {}
  BY Empty DEF Init, Results
<1> QED BY <1>1, TypeInit DEF Init, AInv, ResultsDone, JobsCount, GoneDone

\* What is written stays written, and what was excused stays excused.
LEMMA AStep ==
  ASSUME AInv, TypeOK',
         written \subseteq written',
         history.early \subseteq history'.early,
         history.mistaken \subseteq history'.mistaken,
         \A r \in Results' : r \in Results \/ r[2] = FALSE \/ Done(r[3])',
         \A j \in jobs' : j \in jobs \/ Counted(j)',
         \A m \in Messages :
           mq'[m] = "gone" => mq[m] = "gone" \/ Done(m) \/ m \in history'.mistaken
  PROVE  AInv'
<1>1. \A m : Done(m) => Done(m)'
  BY DEF Done
<1>2. \A j : Counted(j) => Counted(j)'
  BY DEF Counted
<1>3. ResultsDone'
  BY <1>1 DEF AInv, ResultsDone
<1>4. JobsCount'
  BY <1>2 DEF AInv, JobsCount
<1>5. GoneDone'
  BY <1>1 DEF AInv, GoneDone
<1> QED BY <1>3, <1>4, <1>5 DEF AInv

LEMMA ASettle == AInv /\ TypeOK' /\ Settle => AInv'
<1> SUFFICES ASSUME AInv, TypeOK', Settle PROVE AInv'
  OBVIOUS
<1> DEFINE r == Head(acks)
<1>1. /\ TypeOK /\ acks \in Seq(Result) /\ acks # <<>>
      /\ UNCHANGED <<ackQueue, jobs, written>>
      /\ acks' = Tail(acks)
      /\ mq' = [mq EXCEPT ![unacked.m] = IF r[2] THEN "gone" ELSE "ready"]
      /\ history' = IF r[3] = unacked.m THEN history
                    ELSE [history EXCEPT !.mistaken = @ \cup {unacked.m}]
  BY DEF Settle, AInv, TypeOK
<1>2. r \in Result /\ r \in Results /\ Results' \subseteq Results
  BY <1>1, Taken DEF Results
<1>3. r[2] = FALSE \/ Done(r[3])
  BY <1>2 DEF AInv, ResultsDone
<1>4. unacked \in Delivery /\ unacked.m \in Messages
  BY DEF Settle, Known, AInv, TypeOK, Delivery
<1>5. /\ history.early = history'.early /\ history.mistaken \subseteq history'.mistaken
      /\ r[3] = unacked.m \/ unacked.m \in history'.mistaken
  BY <1>1 DEF TypeOK
<1>6. \A m \in Messages \ {unacked.m} : mq'[m] = mq[m]
  BY <1>1 DEF TypeOK
<1>7. mq'[unacked.m] = "gone" => r[2] # FALSE
  <2>1. CASE r[2]
    BY <2>1
  <2>2. CASE ~r[2]
    BY <1>1, <1>4, <2>2 DEF TypeOK
  <2> QED BY <2>1, <2>2
<1> HIDE DEF r
<1>8. \A m \in Messages :
        mq'[m] = "gone" => mq[m] = "gone" \/ Done(m) \/ m \in history'.mistaken
  BY <1>3, <1>5, <1>6, <1>7
<1> QED BY <1>1, <1>2, <1>5, <1>8, AStep

\* The steps of the broker and the consumer thread that settle nothing.
LEMMA AThread ==
  ASSUME AInv, TypeOK',
         \/ UNCHANGED vars
         \/ \E m \in Messages : Post(m) \/ Push(m)
         \/ LoseConnection \/ Connect \/ TakeAcks \/ SettleUnknown \/ Notice \/ Timeout
  PROVE  AInv'
<1>1. UNCHANGED <<jobs, written, history>>
  BY DEF vars, Post, Push, LoseConnection, Connect, TakeAcks, SettleUnknown, Notice, Timeout
<1>2. \/ UNCHANGED <<acks, ackQueue>>
      \/ acks' = ackQueue /\ ackQueue' = <<>>
      \/ acks # <<>> /\ acks' = Tail(acks) /\ ackQueue' = ackQueue
      \/ acks' = <<>> /\ ackQueue' = ackQueue
  BY DEF vars, Post, Push, LoseConnection, Connect, TakeAcks, SettleUnknown, Notice, Timeout,
         consumer
<1>3. Results' \subseteq Results
  <2>1. acks # <<>> => Range(Tail(acks)) \subseteq Range(acks)
    BY Taken DEF AInv, TypeOK
  <2> QED BY <1>2, <2>1, Empty DEF Results
<1>4. \A m \in Messages : mq'[m] = "gone" => mq[m] = "gone"
  BY DEF AInv, TypeOK, vars, Post, Push, LoseConnection, Connect, TakeAcks, SettleUnknown,
         Notice, Timeout, Requeue, broker
<1> QED BY <1>1, <1>3, <1>4, AStep

LEMMA AConsume == AInv /\ TypeOK' /\ Consume => AInv'
<1> SUFFICES ASSUME AInv, TypeOK', Consume PROVE AInv'
  OBVIOUS
<1> PICK d \in Delivery : d = Head(buffer)
  BY Taken DEF Consume, AInv, TypeOK
<1> DEFINE r == <<d.tag, TRUE, d.m>>
<1>1. UNCHANGED <<mq, acks, written, history>>
  BY DEF Consume, broker
<1>2. \/ ackQueue' = Append(ackQueue, r) /\ d.m \in Malformed /\ jobs' = jobs
      \/ ackQueue' = ackQueue /\ jobs' = jobs \cup {JobOf(d)}
  BY Zenon DEF Consume
<1>3. r \in Result /\ r[3] = d.m
  BY DEF Delivery, Result
<1> HIDE DEF r
<1>4. \A j \in jobs' : j \in jobs \/ Counted(j)'
  BY <1>2 DEF Counted, JobOf
<1>5. \A x \in Results' : x \in Results \/ Done(x[3])'
  <2>1. ackQueue \in Seq(Result)
    BY DEF AInv, TypeOK
  <2>2. Range(Append(ackQueue, r)) = Range(ackQueue) \cup {r}
    BY <1>3, <2>1, Appended
  <2>3. d.m \in Malformed => Done(d.m)'
    BY DEF Done
  <2> QED BY <1>1, <1>2, <1>3, <2>2, <2>3 DEF Results
<1> QED BY <1>1, <1>4, <1>5, AStep

LEMMA AQuery ==
  ASSUME AInv, TypeOK', NEW job \in jobs, QueryReturns(job) \/ QueryFails(job)
  PROVE  AInv'
<1>0. TypeOK /\ job \in Job
  BY DEF AInv, TypeOK
<1>1. UNCHANGED <<mq, acks, written, history>>
  BY DEF QueryReturns, QueryFails, broker, consumer
<1>2. \A j \in jobs' : j \in jobs \/ Counted(j)'
  <2>1. CASE QueryReturns(job)
    <3> DEFINE new == [job EXCEPT !.stage = "insert", !.todo = DevicesOf[job.m]]
    <3>1. new.m = job.m /\ new.todo = DevicesOf[job.m]
      BY <1>0, Queried, Zenon
    <3>2. Replace(job, new)
      BY <2>1 DEF QueryReturns
    <3> HIDE DEF new
    <3>3. Counted(new)'
      BY <3>1 DEF Counted
    <3> QED BY <3>2, <3>3 DEF Replace
  <2>2. CASE QueryFails(job)
    BY <2>2 DEF QueryFails, Replace
  <2> QED BY <2>1, <2>2
<1>3. \A r \in Results' : r \in Results \/ r[2] = FALSE \/ Done(r[3])'
  <2>1. CASE enqueueAck(job, TRUE) /\ DevicesOf[job.m] = {}
    <3> DEFINE x == <<job.id[2], TRUE, job.m>>
    <3>1. Range(ackQueue') = Range(ackQueue) \cup {x}
      BY <1>0, <2>1, Enqueued, Zenon
    <3>2. x[3] = job.m
      OBVIOUS
    <3>3. Done(job.m)'
      BY <2>1 DEF Done
    <3> HIDE DEF x
    <3> QED BY <1>1, <3>1, <3>2, <3>3 DEF Results
  <2>2. CASE enqueueAck(job, FALSE)
    <3> DEFINE x == <<job.id[2], FALSE, job.m>>
    <3>1. Range(ackQueue') = Range(ackQueue) \cup {x}
      BY <1>0, <2>2, Enqueued, Zenon
    <3>2. x[2] = FALSE
      OBVIOUS
    <3> HIDE DEF x
    <3> QED BY <1>1, <3>1, <3>2 DEF Results
  <2>3. CASE ackQueue' = ackQueue
    BY <1>1, <2>3 DEF Results
  <2> QED BY <2>1, <2>2, <2>3 DEF QueryReturns, QueryFails
<1> QED BY <1>1, <1>2, <1>3, AStep

LEMMA AInsert ==
  ASSUME AInv, TypeOK', NEW job \in jobs, NEW d \in Devices,
         Submit(job, d) \/ InsertReturns(job, d) \/ InsertFails(job, d)
  PROVE  AInv'
<1>0. TypeOK /\ job \in Job /\ Counted(job)
  BY DEF AInv, TypeOK, JobsCount
<1>1. CASE Submit(job, d)
  <2> DEFINE new == [job EXCEPT !.todo = @ \ {d}, !.underway = @ \cup {d}]
  <2>1. /\ new.m = job.m /\ new.stage = job.stage /\ new.failed = job.failed
        /\ new.todo = job.todo \ {d} /\ new.underway = job.underway \cup {d}
    BY <1>0, Submitted, Zenon
  <2>2. /\ Replace(job, new) /\ d \in job.todo
        /\ UNCHANGED <<mq, acks, ackQueue, written, history>>
    BY <1>1 DEF Submit, broker, consumer
  <2> HIDE DEF new
  <2>3. Counted(new)'
    BY <1>0, <2>1, <2>2 DEF Counted
  <2>4. Results' = Results /\ \A j \in jobs' : j \in jobs \/ Counted(j)'
    BY <2>2, <2>3 DEF Replace, Results
  <2> QED BY <2>2, <2>4, AStep
<1>2. CASE InsertFails(job, d)
  <2> DEFINE new == [job EXCEPT !.underway = @ \ {d}, !.failed = "yes"]
             x == <<job.id[2], FALSE, job.m>>
  <2>1. new.failed = "yes"
    BY <1>0, Failed, Zenon
  <2>2. /\ Replace(job, new)
        /\ enqueueAck(job, FALSE) \/ ackQueue' = ackQueue
        /\ UNCHANGED <<mq, acks, written, history>>
    BY <1>2 DEF InsertFails, broker, consumer
  <2> HIDE DEF new
  <2>3. \A j \in jobs' : j \in jobs \/ Counted(j)'
    BY <2>1, <2>2 DEF Replace, Counted
  <2>4. enqueueAck(job, FALSE) => Range(ackQueue') = Range(ackQueue) \cup {x}
    BY <1>0, Enqueued, Zenon
  <2>5. x[2] = FALSE
    OBVIOUS
  <2> HIDE DEF x
  <2>6. \A r \in Results' : r \in Results \/ r[2] = FALSE
    BY <2>2, <2>4, <2>5 DEF Results
  <2> QED BY <2>2, <2>3, <2>6, AStep
<1>3. CASE InsertReturns(job, d)
  <2> DEFINE new == [job EXCEPT !.underway = @ \ {d}]
             x == <<job.id[2], TRUE, job.m>>
             all == AcksOnSuccess(job, d)
  <2>1. /\ new.m = job.m /\ new.stage = job.stage /\ new.failed = job.failed
        /\ new.todo = job.todo /\ new.underway = job.underway \ {d}
    BY <1>0, Returned, Zenon
  <2>2. /\ Replace(job, new) /\ d \in job.underway
        /\ (enqueueAck(job, TRUE) /\ all) \/ ackQueue' = ackQueue
        /\ written' = written \cup {<<job.m, d>>}
        /\ UNCHANGED <<mq, acks>>
    BY <1>3 DEF InsertReturns, broker, consumer
  <2>3. /\ history.early \subseteq history'.early
        /\ history'.mistaken = history.mistaken
        /\ all /\ job.todo # {} => job.m \in history'.early
    BY <1>0, <1>3 DEF InsertReturns, TypeOK
  <2>4. all => job.underway = {d} /\ job.failed = "no"
    BY DEF AcksOnSuccess
  <2> HIDE DEF new, all
  <2>5. Counted(new)'
    BY <1>0, <2>1, <2>2 DEF Counted
  <2>6. \A j \in jobs' : j \in jobs \/ Counted(j)'
    BY <2>2, <2>5 DEF Replace
  <2>7. job.stage # "query"
    BY <1>0, <2>2 DEF TypeOK
  <2>8. all => Done(job.m)'
    BY <1>0, <2>2, <2>3, <2>4, <2>7 DEF Done, Counted
  <2>9. enqueueAck(job, TRUE) => Range(ackQueue') = Range(ackQueue) \cup {x}
    BY <1>0, Enqueued, Zenon
  <2>10. x[3] = job.m
    OBVIOUS
  <2> HIDE DEF x
  <2>11. \A r \in Results' : r \in Results \/ Done(r[3])'
    BY <2>2, <2>8, <2>9, <2>10 DEF Results
  <2> QED BY <2>2, <2>3, <2>6, <2>11, AStep
<1> QED BY <1>1, <1>2, <1>3

LEMMA ACrash == AInv /\ TypeOK' /\ Crash => AInv'
<1> SUFFICES ASSUME AInv, TypeOK', Crash PROVE AInv'
  OBVIOUS
<1>1. /\ jobs' = {} /\ acks' = <<>> /\ ackQueue' = <<>> /\ history' = history
      /\ written \subseteq written'
  BY DEF Crash
<1>2. Results' = {}
  BY <1>1, Empty DEF Results
<1>3. \A m \in Messages : mq'[m] = "gone" => mq[m] = "gone"
  BY DEF Crash, Requeue
<1> QED BY <1>1, <1>2, <1>3, AStep

LEMMA ANext == AInv /\ [Next]_vars => AInv'
<1> SUFFICES ASSUME AInv, [Next]_vars PROVE AInv'
  OBVIOUS
<1>1. TypeOK'
  BY TypeNext DEF AInv
<1>2. CASE UNCHANGED vars \/ (\E m \in Messages : Post(m) \/ Push(m)) \/ LoseConnection
           \/ Connect \/ TakeAcks \/ SettleUnknown \/ Notice \/ Timeout
  BY <1>1, <1>2, AThread
<1>3. CASE \E job \in jobs :
             \/ QueryReturns(job) \/ QueryFails(job)
             \/ \E d \in Devices : Submit(job, d) \/ InsertReturns(job, d) \/ InsertFails(job, d)
  BY <1>1, <1>3, AQuery, AInsert
<1>4. CASE Settle \/ Consume \/ Crash
  BY <1>1, <1>4, ASettle, AConsume, ACrash
<1> QED BY <1>2, <1>3, <1>4 DEF Next

\* A message is gone only when the rows of its devices are written, or the
\* counter was read at one too soon, or a result was taken for another's.
THEOREM AckedAreWritten == Spec => []AckMeansAllWritten
<1>1. AInv => AckMeansAllWritten
  BY DEF AInv, GoneDone, Done, AckMeansAllWritten
<1> QED BY <1>1, InitAInv, ANext, PTL DEF Spec
-----------------------------------------------------------------------------
(* Deliveries *)

NInv == TypeOK /\ Closed /\ Attended

LEMMA InitNInv == Init => NInv
BY TypeInit DEF Init, NInv, Closed, Attended

\* The broker and the consumer thread.
LEMMA NThread ==
  ASSUME NInv, TypeOK',
         \/ UNCHANGED vars
         \/ \E m \in Messages : Post(m) \/ Push(m)
         \/ LoseConnection \/ Connect \/ TakeAcks \/ Settle \/ SettleUnknown \/ Notice
         \/ Timeout \/ Crash
  PROVE  NInv'
<1>0. TypeOK
  BY DEF NInv
<1>1. CASE UNCHANGED vars \/ (\E m \in Messages : Post(m)) \/ Timeout
  <2>1. UNCHANGED <<channel, unacked, connects, buffer, jobs, acks, ackQueue, history>>
    BY <1>1 DEF vars, broker, consumer, Post, Timeout
  <2>2. Results' = Results /\ \A tag : Attends(tag) => Attends(tag)'
    BY <2>1 DEF Results, Attends
  <2>3. Closed'
    BY <1>1, <2>1 DEF NInv, Closed, vars, consumer, Post, Timeout
  <2> QED BY <2>1, <2>2, <2>3 DEF NInv, Attended
<1>2. ASSUME NEW m \in Messages, Push(m) PROVE NInv'
  <2> DEFINE u == [m |-> m, tag |-> lastTag + 1]
  <2>1. unacked' = u /\ buffer' = Append(buffer, u) /\ u \in Delivery
    BY <1>0, <1>2 DEF Push, TypeOK, Delivery
  <2> HIDE DEF u
  <2>2. Range(buffer') = Range(buffer) \cup {u}
    BY <1>0, <2>1, Appended DEF TypeOK
  <2>3. Closed'
    BY <1>2 DEF Push, NInv, Closed
  <2> QED BY <2>1, <2>2, <2>3 DEF NInv, Attended
<1>3. CASE LoseConnection \/ SettleUnknown \/ Notice \/ Crash
  <2>1. channel' # "open" /\ unacked' = NoDelivery
    <3>1. CASE LoseConnection \/ SettleUnknown \/ Crash
      BY <3>1 DEF LoseConnection, SettleUnknown, Crash, Requeue
    <3>2. CASE Notice
      BY <3>2 DEF Notice, broker, NInv, Closed
    <3> QED BY <1>3, <3>1, <3>2
  <2>2. atTop' => acks' = <<>>
    <3>1. CASE LoseConnection
      BY <3>1 DEF LoseConnection, NInv, Closed
    <3>2. CASE SettleUnknown
      <4>1. ~atTop /\ atTop' = atTop
        BY <3>2 DEF SettleUnknown, NInv, Closed
      <4> QED BY <4>1
    <3>3. CASE Notice \/ Crash
      BY <3>3 DEF Notice, Crash
    <3> QED BY <1>3, <3>1, <3>2, <3>3
  <2> QED BY <2>1, <2>2 DEF NInv, Closed, Attended
<1>4. CASE Connect
  BY <1>4 DEF Connect, NInv, Closed, Attended
<1>5. CASE TakeAcks
  <2>1. /\ acks' = ackQueue /\ ackQueue' = <<>> /\ acks = <<>>
        /\ UNCHANGED <<channel, unacked, connects, buffer, jobs, history>>
    BY <1>5 DEF TakeAcks, broker, NInv, Closed
  <2>2. Results' = Results /\ \A tag : Attends(tag) => Attends(tag)'
    BY <2>1, Empty DEF Results, Attends
  <2>3. Closed'
    BY <1>5, <2>1 DEF TakeAcks, NInv, Closed
  <2> QED BY <2>1, <2>2, <2>3 DEF NInv, Attended
<1>6. CASE Settle
  BY <1>6 DEF Settle, NInv, Closed, Attended
<1> QED BY <1>1, <1>2, <1>3, <1>4, <1>5, <1>6

LEMMA NConsume == NInv /\ TypeOK' /\ Consume => NInv'
<1> SUFFICES ASSUME NInv, TypeOK', Consume PROVE NInv'
  OBVIOUS
<1> PICK d \in Delivery : d = Head(buffer)
  BY Taken DEF Consume, NInv, TypeOK
<1> DEFINE r == <<d.tag, TRUE, d.m>>
           id == <<connects, d.tag>>
<1>1. /\ UNCHANGED <<channel, connects, unacked, acks, history>>
      /\ acks = <<>> /\ buffer' = Tail(buffer) /\ buffer # <<>>
  BY DEF Consume, broker
<1>2. \/ ackQueue' = Append(ackQueue, r) /\ jobs' = jobs
      \/ ackQueue' = ackQueue /\ jobs' = jobs \cup {JobOf(d)}
  BY Zenon DEF Consume
<1>3. r \in Result /\ r[1] = d.tag
  BY DEF Delivery, Result
<1>4. JobOf(d).id = <<connects, d.tag>>
  BY DEF JobOf
<1> HIDE DEF r
<1>5. /\ ackQueue \in Seq(Result) /\ buffer \in Seq(Delivery)
      /\ Range(Append(ackQueue, r)) = Range(ackQueue) \cup {r}
      /\ Range(buffer) \subseteq {d} \cup Range(buffer')
  BY <1>1, <1>3, Appended, Taken DEF NInv, TypeOK
<1>6. \A tag : Attends(tag) => Attends(tag)'
  BY <1>1, <1>2, <1>5 DEF Attends, Results
<1>7. Attends(d.tag)'
  BY <1>1, <1>2, <1>3, <1>4, <1>5 DEF Attends, Results
<1>8. Closed'
  BY <1>1 DEF NInv, Closed
<1>9. Attended'
  BY <1>1, <1>5, <1>6, <1>7 DEF NInv, Attended
<1> QED BY <1>8, <1>9 DEF NInv

\* A job leaves only with a result, or stranded.
LEMMA NJob ==
  ASSUME NInv, TypeOK', NEW job \in jobs, NEW new, Replace(job, new), new.id = job.id,
         UNCHANGED <<broker, consumer>>,
         Range(ackQueue) \subseteq Range(ackQueue'), history.stranded \subseteq history'.stranded,
         \/ new.todo \cup new.underway # {}
         \/ \E r \in Range(ackQueue') : r[1] = job.id[2]
         \/ job.id \in history'.stranded
  PROVE  NInv'
<1>1. /\ UNCHANGED <<channel, connects, unacked, acks, buffer, atTop>>
      /\ Results \subseteq Results' /\ Range(ackQueue') \subseteq Results'
  BY DEF broker, consumer, Results
<1>2. Closed'
  BY <1>1 DEF NInv, Closed
<1>3. ASSUME NEW tag, Attends(tag) PROVE Attends(tag)'
  <2>1. CASE \E r \in Results : r[1] = tag
    BY <1>1, <2>1 DEF Attends
  <2>2. CASE <<connects, tag>> \in history.stranded
    BY <1>1, <2>2 DEF Attends
  <2>3. CASE \E j \in jobs \ {job} : j.id = <<connects, tag>>
    BY <1>1, <2>3 DEF Attends, Replace
  <2>4. CASE job.id = <<connects, tag>>
    <3>1. job.id[2] = tag
      BY <2>4
    <3>2. new \in jobs' \/ new.todo \cup new.underway = {}
      BY DEF Replace
    <3> QED BY <1>1, <2>4, <3>1, <3>2 DEF Attends
  <2> QED BY <1>3, <2>1, <2>2, <2>3, <2>4 DEF Attends
<1>4. Attended'
  BY <1>1, <1>3 DEF NInv, Attended
<1> QED BY <1>2, <1>4 DEF NInv

LEMMA NCallback ==
  ASSUME NInv, TypeOK', NEW job \in jobs,
         \/ QueryReturns(job) \/ QueryFails(job)
         \/ \E d \in Devices : Submit(job, d) \/ InsertReturns(job, d) \/ InsertFails(job, d)
  PROVE  NInv'
<1>0. TypeOK /\ job \in Job
  BY DEF NInv, TypeOK
<1>1. UNCHANGED <<broker, consumer>>
  BY DEF QueryReturns, QueryFails, Submit, InsertReturns, InsertFails
<1>2. ASSUME NEW ok \in BOOLEAN, enqueueAck(job, ok)
      PROVE  /\ Range(ackQueue) \subseteq Range(ackQueue')
             /\ \E r \in Range(ackQueue') : r[1] = job.id[2]
  <2> DEFINE x == <<job.id[2], ok, job.m>>
  <2>1. Range(ackQueue') = Range(ackQueue) \cup {x}
    BY <1>0, <1>2, Enqueued, Zenon
  <2>2. x[1] = job.id[2]
    OBVIOUS
  <2> HIDE DEF x
  <2> QED BY <2>1, <2>2
<1>3. CASE QueryReturns(job)
  <2> DEFINE new == [job EXCEPT !.stage = "insert", !.todo = DevicesOf[job.m]]
  <2>1. new.id = job.id /\ new.todo = DevicesOf[job.m]
    BY <1>0, Queried, Zenon
  <2>2. /\ Replace(job, new) /\ history' = history
        /\ enqueueAck(job, TRUE) \/ (ackQueue' = ackQueue /\ DevicesOf[job.m] # {})
    BY <1>3 DEF QueryReturns
  <2> HIDE DEF new
  <2> QED BY <1>1, <1>2, <2>1, <2>2, NJob
<1>4. CASE QueryFails(job)
  <2>1. Replace(job, job) /\ history' = history /\ enqueueAck(job, FALSE)
    BY <1>4 DEF QueryFails
  <2> QED BY <1>1, <1>2, <2>1, NJob
<1>5. ASSUME NEW d \in Devices, Submit(job, d) PROVE NInv'
  <2> DEFINE new == [job EXCEPT !.todo = @ \ {d}, !.underway = @ \cup {d}]
  <2>1. new.id = job.id /\ new.underway = job.underway \cup {d}
    BY <1>0, Submitted, Zenon
  <2>2. Replace(job, new) /\ UNCHANGED <<history, ackQueue>>
    BY <1>5 DEF Submit
  <2> HIDE DEF new
  <2> QED BY <1>1, <2>1, <2>2, NJob
<1>6. ASSUME NEW d \in Devices, InsertReturns(job, d) PROVE NInv'
  <2> DEFINE new == [job EXCEPT !.underway = @ \ {d}]
  <2>1. new.id = job.id /\ new.todo = job.todo /\ new.underway = job.underway \ {d}
    BY <1>0, Returned, Zenon
  <2>2. Replace(job, new) /\ d \in job.underway
    BY <1>6 DEF InsertReturns
  <2>3. /\ history.stranded \subseteq history'.stranded
        /\ job.todo = {} /\ job.underway = {d} /\ job.failed = "yes" =>
             job.id \in history'.stranded
    BY <1>0, <1>6 DEF InsertReturns, TypeOK
  <2>4. enqueueAck(job, TRUE) \/ (ackQueue' = ackQueue /\ ~AcksOnSuccess(job, d))
    BY <1>6 DEF InsertReturns
  <2>5. AcksOnSuccess(job, d) \/ job.underway # {d} \/ job.failed = "yes"
    BY <1>0 DEF AcksOnSuccess, Job
  <2> HIDE DEF new
  <2>6. \/ new.todo \cup new.underway # {}
        \/ job.todo = {} /\ job.underway = {d}
    BY <2>1, <2>2
  <2> QED BY <1>1, <1>2, <2>1, <2>2, <2>3, <2>4, <2>5, <2>6, NJob
<1>7. ASSUME NEW d \in Devices, InsertFails(job, d) PROVE NInv'
  <2> DEFINE new == [job EXCEPT !.underway = @ \ {d}, !.failed = "yes"]
  <2>1. new.id = job.id /\ new.underway = job.underway \ {d}
    BY <1>0, Failed, Zenon
  <2>2. /\ Replace(job, new) /\ d \in job.underway /\ history' = history
        /\ enqueueAck(job, FALSE) \/ (ackQueue' = ackQueue /\ job.underway # {d})
    BY <1>7 DEF InsertFails
  <2> HIDE DEF new
  <2>3. job.underway # {d} => new.underway # {}
    BY <2>1, <2>2
  <2> QED BY <1>1, <1>2, <2>1, <2>2, <2>3, NJob
<1> QED BY <1>3, <1>4, <1>5, <1>6, <1>7

LEMMA NNext == NInv /\ [Next]_vars => NInv'
<1> SUFFICES ASSUME NInv, [Next]_vars PROVE NInv'
  OBVIOUS
<1>1. TypeOK'
  BY TypeNext DEF NInv
<1>2. CASE \/ UNCHANGED vars
           \/ \E m \in Messages : Post(m) \/ Push(m)
           \/ LoseConnection \/ Connect \/ TakeAcks \/ Settle \/ SettleUnknown \/ Notice
           \/ Timeout \/ Crash
  BY <1>1, <1>2, NThread
<1>3. CASE Consume
  BY <1>1, <1>3, NConsume
<1>4. CASE \E job \in jobs :
             \/ QueryReturns(job) \/ QueryFails(job)
             \/ \E d \in Devices : Submit(job, d) \/ InsertReturns(job, d) \/ InsertFails(job, d)
  BY <1>1, <1>4, NCallback
<1> QED BY <1>2, <1>3, <1>4 DEF Next

\* The delivery the broker waits for is in the buffer, in a job or in a result,
\* or its job ended without one.
THEOREM NoneForgotten == Spec => []NoDeliveryForgotten
<1>1. NInv => NoDeliveryForgotten
  <2> SUFFICES ASSUME NInv, channel = "open", unacked # NoDelivery PROVE NoDeliveryForgotten
    BY DEF NoDeliveryForgotten
  <2>1. unacked \in Range(buffer) => \E i \in DOMAIN buffer : buffer[i] = unacked
    BY DEF Range
  <2>2. (\E r \in Results : r[1] = unacked.tag) =>
          \E q \in {acks, ackQueue} : \E i \in DOMAIN q : q[i][1] = unacked.tag
    BY DEF Results, Range
  <2> QED BY <2>1, <2>2 DEF NInv, Attended, Attends, NoDeliveryForgotten
<1> QED BY <1>1, InitNInv, NNext, PTL DEF Spec
=============================================================================
