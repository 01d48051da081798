--------------------------- MODULE StopCollection ---------------------------
(***************************************************************************)
(* The relay of stop_collection commands in mes-backend                    *)
(* (mq/StopCollectionHandler.cc): one thread consumes iot.cmd.queue, looks *)
(* up the devices of the order's line and inserts one outbox row for each. *)
(* The query and the inserts are asynchronous: their callbacks run on the  *)
(* threads of the database client (connection_number 64, so the inserts of *)
(* one message run in any order and at once), and they hand the result to  *)
(* the consumer thread through g_ackQueue.                                 *)
(*                                                                         *)
(* The broker is external: one copy of each message, a consumer with       *)
(* prefetch 1 that is exclusive, delivery tags that count from 1 on every  *)
(* channel, and a channel that is closed by an acknowledgement of a tag it *)
(* does not know.  It delivers ready messages in any order.                *)
(***************************************************************************)
EXTENDS Integers, Sequences, FiniteSets

CONSTANTS
  Messages,       \* messages of iot.cmd.queue
  Devices,        \* ids of iot_devices
  DevicesOf,      \* DevicesOf[m]: devices of the line of m's work order
  Malformed,      \* messages without a work_order_id, or with a relayed key
  NoDelivery,     \* no delivery awaits an acknowledgement
  MaxFaults,      \* bound: failed statements, broken connections and restarts
  MaxConnects     \* bound: channels opened

ASSUME ParametersAssumption ==
  /\ DevicesOf \in [Messages -> SUBSET Devices]
  /\ Malformed \subseteq Messages
  /\ {MaxFaults, MaxConnects} \subseteq Nat

VARIABLES
  mq,        \* mq[m] at the broker: "none", "ready", "unacked", "gone"
  unacked,   \* the delivery the broker waits for, as [m, tag]
  lastTag,   \* the last delivery tag used on this channel
  channel,   \* "none", "open", or "broken": closed, and not noticed yet
  connects,  \* channels opened so far
  buffer,    \* deliveries the client library holds for the consumer thread
  atTop,     \* the consumer thread is at the top of its loop
  acks,      \* its local copy of the queue of results
  ackQueue,  \* g_ackQueue: <<tag, success>>, and the message they are about
  jobs,      \* messages whose statements are under way
  written,   \* <<m, d>> with a committed cmd.stop row in mq_outbox
  faults,    \* failed statements, broken connections, restarts so far
  history    \* messages acknowledged early or by mistake, deliveries stranded

broker == <<mq, unacked, lastTag>>
consumer == <<channel, connects, buffer, atTop, acks>>
vars == <<broker, consumer, ackQueue, jobs, written, faults, history>>

\* The context of one delivery: the callbacks' captures and their State.
\* State::pending is the number of inserts under way.
JobOf(d) ==
  [id |-> <<connects, d.tag>>, m |-> d.m, stage |-> "query",
   todo |-> {}, underway |-> {}, failed |-> "no"]
-----------------------------------------------------------------------------
Init ==
  /\ mq = [m \in Messages |-> "none"]
  /\ unacked = NoDelivery
  /\ lastTag = 0
  /\ channel = "none"
  /\ connects = 0
  /\ buffer = <<>>
  /\ atTop = TRUE
  /\ acks = <<>>
  /\ ackQueue = <<>>
  /\ jobs = {}
  /\ written = {}
  /\ faults = 0
  /\ history = [early |-> {}, mistaken |-> {}, stranded |-> {}]

(* The broker *)

Post(m) ==
  /\ mq[m] = "none"
  /\ mq' = [mq EXCEPT ![m] = "ready"]
  /\ UNCHANGED <<unacked, lastTag, consumer, ackQueue, jobs, written, faults, history>>

Push(m) ==
  /\ channel = "open"
  /\ unacked = NoDelivery
  /\ mq[m] = "ready"
  /\ mq' = [mq EXCEPT ![m] = "unacked"]
  /\ lastTag' = lastTag + 1
  /\ unacked' = [m |-> m, tag |-> lastTag + 1]
  /\ buffer' = Append(buffer, unacked')
  /\ UNCHANGED <<channel, connects, atTop, acks, ackQueue, jobs, written, faults, history>>

\* The channel is gone: what was not acknowledged is ready again.
Requeue ==
  /\ mq' = [m \in Messages |-> IF mq[m] = "unacked" THEN "ready" ELSE mq[m]]
  /\ unacked' = NoDelivery

Fault == faults < MaxFaults /\ faults' = faults + 1

LoseConnection ==
  /\ channel = "open"
  /\ Fault
  /\ channel' = "broken"
  /\ Requeue
  /\ UNCHANGED <<lastTag, connects, buffer, atTop, acks, ackQueue, jobs, written, history>>
-----------------------------------------------------------------------------
(* The consumer thread *)

Connect ==
  /\ channel = "none"
  /\ connects < MaxConnects
  /\ channel' = "open"
  /\ connects' = connects + 1
  /\ lastTag' = 0
  /\ UNCHANGED <<mq, unacked, buffer, atTop, acks, ackQueue, jobs, written, faults, history>>

\* The swap at the top of the loop.
TakeAcks ==
  /\ channel # "none"
  /\ atTop
  /\ atTop' = FALSE
  /\ acks' = ackQueue
  /\ ackQueue' = <<>>
  /\ UNCHANGED <<broker, channel, connects, buffer, jobs, written, faults, history>>

\* The broker waits for this tag on the current channel.
Known(tag) == unacked # NoDelivery /\ unacked.tag = tag

\* BasicAck or BasicReject with requeue of the delivery the broker waits for.
Settle ==
  /\ channel = "open"
  /\ acks # <<>>
  /\ Known(Head(acks)[1])
  /\ mq' = [mq EXCEPT ![unacked.m] = IF Head(acks)[2] THEN "gone" ELSE "ready"]
  /\ unacked' = NoDelivery
  /\ acks' = Tail(acks)
  /\ history' = IF Head(acks)[3] = unacked.m THEN history
                ELSE [history EXCEPT !.mistaken = @ \cup {unacked.m}]
  /\ UNCHANGED <<lastTag, channel, connects, buffer, atTop, ackQueue, jobs, written, faults>>

\* The same with a tag the channel does not know: the broker closes it.
SettleUnknown ==
  /\ channel = "open"
  /\ acks # <<>>
  /\ ~Known(Head(acks)[1])
  /\ channel' = "broken"
  /\ acks' = Tail(acks)
  /\ Requeue
  /\ UNCHANGED <<lastTag, connects, buffer, atTop, ackQueue, jobs, written, faults, history>>

\* Mutant: the exception handler keeps the channel.
NoticeMutant ==
  /\ channel = "broken"
  /\ ~atTop
  /\ acks' = <<>>
  /\ atTop' = TRUE
  /\ UNCHANGED <<broker, channel, connects, buffer, ackQueue, jobs, written, faults, history>>

\* Any use of a broken channel throws; what it held is lost, g_ackQueue is not.
Notice ==
  /\ channel = "broken"
  /\ ~atTop
  /\ channel' = "none"
  /\ buffer' = <<>>
  /\ acks' = <<>>
  /\ atTop' = TRUE
  /\ UNCHANGED <<broker, connects, ackQueue, jobs, written, faults, history>>

\* BasicConsumeMessage, which also returns what a broken channel has buffered,
\* and handleStopCollection up to its query.
Consume ==
  /\ channel # "none" /\ ~atTop /\ acks = <<>>
  /\ buffer # <<>>
  /\ IF Head(buffer).m \in Malformed
     THEN /\ ackQueue' = Append(ackQueue, <<Head(buffer).tag, TRUE, Head(buffer).m>>)
          /\ UNCHANGED jobs
     ELSE /\ jobs' = jobs \cup {JobOf(Head(buffer))}
          /\ UNCHANGED ackQueue
  /\ buffer' = Tail(buffer)
  /\ atTop' = TRUE
  /\ UNCHANGED <<broker, channel, connects, acks, written, faults, history>>

\* BasicConsumeMessage times out.
Timeout ==
  /\ channel = "open" /\ ~atTop /\ acks = <<>>
  /\ buffer = <<>>
  /\ atTop' = TRUE
  /\ UNCHANGED <<broker, channel, connects, buffer, acks, ackQueue, jobs, written, faults, history>>
-----------------------------------------------------------------------------
(* The database callbacks *)

\* The job goes on as new, or is over where nothing refers to it any more.
Replace(job, new) ==
  jobs' = (jobs \ {job}) \cup (IF new.todo \cup new.underway = {} THEN {} ELSE {new})

enqueueAck(job, ok) == ackQueue' = Append(ackQueue, <<job.id[2], ok, job.m>>)

QueryReturns(job) ==
  /\ job.stage = "query"
  /\ Replace(job, [job EXCEPT !.stage = "insert", !.todo = DevicesOf[job.m]])
  /\ IF DevicesOf[job.m] = {} THEN enqueueAck(job, TRUE) ELSE UNCHANGED ackQueue
  /\ UNCHANGED <<broker, consumer, written, faults, history>>

\* Mutant: a failed query acknowledges the message.
QueryFailsMutant(job) ==
  /\ job.stage = "query"
  /\ Fault
  /\ Replace(job, job)
  /\ enqueueAck(job, TRUE)
  /\ UNCHANGED <<broker, consumer, written, history>>

QueryFails(job) ==
  /\ job.stage = "query"
  /\ Fault
  /\ Replace(job, job)
  /\ enqueueAck(job, FALSE)
  /\ UNCHANGED <<broker, consumer, written, history>>

\* One turn of the loop over the rows: fetch_add, then the insert is sent.
Submit(job, d) ==
  /\ d \in job.todo
  /\ Replace(job, [job EXCEPT !.todo = @ \ {d}, !.underway = @ \cup {d}])
  /\ UNCHANGED <<broker, consumer, ackQueue, written, faults, history>>

\* Mutant: fetch_sub(1) is compared with 0, the value after the decrement.
AcksOnSuccessMutant(job, d) == job.underway = {} /\ job.failed = "no"

\* The condition of the success callback.
AcksOnSuccess(job, d) == job.underway = {d} /\ job.failed = "no"

InsertReturns(job, d) ==
  /\ d \in job.underway
  /\ written' = written \cup {<<job.m, d>>}
  /\ Replace(job, [job EXCEPT !.underway = @ \ {d}])
  /\ IF AcksOnSuccess(job, d) THEN enqueueAck(job, TRUE) ELSE UNCHANGED ackQueue
  /\ history' =
       [history EXCEPT
          !.early = IF AcksOnSuccess(job, d) /\ job.todo # {} THEN @ \cup {job.m} ELSE @,
          !.stranded = IF job.todo = {} /\ job.underway = {d} /\ job.failed = "yes"
                       THEN @ \cup {job.id} ELSE @]
  /\ UNCHANGED <<broker, consumer, faults>>

InsertFails(job, d) ==
  /\ d \in job.underway
  /\ Fault
  /\ Replace(job, [job EXCEPT !.underway = @ \ {d}, !.failed = "yes"])
  /\ IF job.underway = {d} THEN enqueueAck(job, FALSE) ELSE UNCHANGED ackQueue
  /\ UNCHANGED <<broker, consumer, written, history>>

\* The process dies and is restarted; inserts under way may still commit.
Crash ==
  /\ Fault
  /\ \E done \in SUBSET {<<job.m, d>> : job \in jobs, d \in Devices} :
       /\ \A p \in done : \E job \in jobs : p[1] = job.m /\ p[2] \in job.underway
       /\ written' = written \cup done
  /\ Requeue
  /\ channel' = "none"
  /\ buffer' = <<>>
  /\ atTop' = TRUE
  /\ acks' = <<>>
  /\ ackQueue' = <<>>
  /\ jobs' = {}
  /\ UNCHANGED <<lastTag, connects, history>>
-----------------------------------------------------------------------------
Consumer ==
  Connect \/ TakeAcks \/ Settle \/ SettleUnknown \/ Notice \/ Consume \/ Timeout

Callback(job) ==
  \/ QueryReturns(job)
  \/ \E d \in Devices : Submit(job, d) \/ InsertReturns(job, d)

Next ==
  \/ \E m \in Messages : Post(m) \/ Push(m)
  \/ LoseConnection
  \/ Connect
  \/ TakeAcks
  \/ Settle
  \/ SettleUnknown
  \/ Notice
  \/ Consume
  \/ Timeout
  \/ \E job \in jobs :
       \/ QueryReturns(job)
       \/ QueryFails(job)
       \/ \E d \in Devices : Submit(job, d) \/ InsertReturns(job, d) \/ InsertFails(job, d)
  \/ Crash

Spec == Init /\ [][Next]_vars

\* The broker delivers, the consumer thread runs, and every statement sent is
\* answered: MaxFaults bounds how often the answer is an error.
FairSpec ==
  /\ Spec
  /\ WF_vars(\E m \in Messages : Push(m))
  /\ WF_vars(Consumer)
  /\ WF_vars(\E job \in jobs : Callback(job))
-----------------------------------------------------------------------------
(* Properties *)

\* StopCollectionHandler.cc:42: a message is acknowledged only when the rows
\* of all its devices are written.  Two things take this away, and nothing
\* else: the callback of an insert finds the counter at one while the loop has
\* devices to go, or a result of an old channel meets another message's tag.
AckMeansAllWritten ==
  \A m \in Messages \ Malformed :
    mq[m] = "gone" =>
      \/ \A d \in DevicesOf[m] : <<m, d>> \in written
      \/ m \in history.early \cup history.mistaken

\* StopCollectionHandler.cc:42: a delivery is acknowledged or put back, also
\* after a failure.  One that nobody works on any more has a result on its
\* way to the broker, unless an insert failed and a later one returned last;
\* then prefetch 1 stops the consumption until the channel is closed.
NoDeliveryForgotten ==
  channel = "open" /\ unacked # NoDelivery =>
    \/ \E i \in DOMAIN buffer : buffer[i] = unacked
    \/ \E job \in jobs : job.id = <<connects, unacked.tag>>
    \/ \E q \in {acks, ackQueue} : \E i \in DOMAIN q : q[i][1] = unacked.tag
    \/ <<connects, unacked.tag>> \in history.stranded

\* A posted command reaches the outbox for every device of the line and
\* leaves the queue, although statements fail and the process is restarted,
\* unless one of those three things happened.
EventuallyRelayed ==
  \A m \in Messages :
    mq[m] = "ready" ~>
      \/ /\ mq[m] = "gone"
         /\ \/ m \in Malformed \cup history.early \cup history.mistaken
            \/ \A d \in DevicesOf[m] : <<m, d>> \in written
      \/ history.stranded # {}
      \/ connects = MaxConnects
=============================================================================
