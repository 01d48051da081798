----------------------------- MODULE DataIngest -----------------------------
(***************************************************************************)
(* Sensor readings on their way into the database, and the alerts they     *)
(* raise (mq/DataIngestHandler.cc, mq/AlertHandler.cc).                    *)
(*                                                                         *)
(* One thread consumes iot.data.queue, sends a malformed message on a      *)
(* bounded round of retries, announces a reading beyond its thresholds on  *)
(* iot.alert.queue, and collects rows that one INSERT per batch writes.    *)
(* The INSERT is asynchronous: its callbacks hand one result per delivery  *)
(* back to the thread, which acknowledges.  A second thread consumes the   *)
(* alerts and inserts them into iot_alerts.                                *)
(*                                                                         *)
(* The broker is external: delivery tags count from 1 on every channel, a  *)
(* tag the channel does not know closes it, what a closed channel had not  *)
(* acknowledged is ready again, messages come in any order.                *)
(***************************************************************************)
EXTENDS Integers, Sequences, FiniteSets, Bags, BagsExt

CONSTANTS
  Messages,       \* readings published by the collectors
  Malformed,      \* those that validate or tsSafe refuses
  Sensors,        \* sensors with a reading beyond a threshold
  Alarm,          \* Alarm[m]: the sensor (and direction) m is an alarm of
  kMaxRetry,      \* rounds of a malformed message
  kBatchRows,     \* rows that make a batch full
  Prefetch,       \* prefetch_count: unacknowledged deliveries of a channel
  MaxDbFailures, MaxLosses, MaxCrashes, MaxConnects \* bounds

ASSUME ParametersAssumption ==
  /\ Malformed \subseteq Messages
  /\ DOMAIN Alarm \subseteq Messages \ Malformed
  /\ \A m \in DOMAIN Alarm : Alarm[m] \in Sensors
  /\ {kMaxRetry, MaxDbFailures, MaxLosses, MaxCrashes, MaxConnects} \subseteq Nat
  /\ {kBatchRows, Prefetch} \subseteq Nat \ {0}

VARIABLES
  queue,     \* iot.data.queue, a bag of copies [m, retry]
  retrying,  \* the retry queue, whose copies come back after their TTL
  dlq,       \* messages in iot.dlq
  unacked,   \* deliveries of the channel, as [m, retry, tag, conn]
  lastTag,   \* the last delivery tag used on this channel
  channel,   \* "none", "open", or "broken": closed, and not noticed yet
  connects,  \* channels opened so far
  buffer,    \* deliveries the client library holds for the thread
  atTop,     \* the thread is at the top of its loop
  acks,      \* its local copy of the queue of results
  ackQueue,  \* g_ackQueue: [tag, ok], and the message it is about
  rows,      \* rows and dels: the batch being collected
  inserts,   \* batches whose INSERT is under way
  stored,    \* messages with a row in iot_raw_data
  mistaken,  \* history: settled by the result of another message
  loaded,    \* g_sensors has been loaded
  window,    \* sensors inside the suppression window, g_lastAlert
  blind,     \* history: alarms looked at before the thresholds were loaded
  alerts,    \* sensors with an alert in iot.alert.queue
  alertJobs, \* sensors whose INSERT into iot_alerts is under way
  recorded,  \* sensors with a row in iot_alerts
  lostAlerts, \* history: sensors an alert of which was lost
  faults     \* statements failed, connections broken, restarts so far

broker == <<queue, retrying, dlq, unacked, lastTag>>
thread == <<channel, connects, buffer, atTop, acks, rows>>
database == <<inserts, stored>>
alarms == <<loaded, window, blind, alerts, alertJobs, recorded, lostAlerts>>
vars == <<broker, thread, ackQueue, database, mistaken, alarms, faults>>

Copy == [m : Messages, retry : 0 .. kMaxRetry]

\* validate and tsSafe.
validate(m) == m \notin Malformed

CopyOf(d) == [m |-> d.m, retry |-> d.retry]
Ready(ds) ==
  queue (+) [c \in {CopyOf(d) : d \in ds} |-> Cardinality({d \in ds : CopyOf(d) = c})]
Elems(s) == {s[i] : i \in DOMAIN s}
-----------------------------------------------------------------------------
Init ==
  /\ queue = SetToBag({[m |-> m, retry |-> 0] : m \in Messages})
  /\ retrying = EmptyBag
  /\ dlq = {}
  /\ unacked = {}
  /\ lastTag = 0
  /\ channel = "none"
  /\ connects = 0
  /\ buffer = <<>>
  /\ atTop = TRUE
  /\ acks = <<>>
  /\ ackQueue = <<>>
  /\ rows = <<>>
  /\ inserts = {}
  /\ stored = {}
  /\ mistaken = {}
  /\ loaded = FALSE
  /\ window = {}
  /\ blind = {}
  /\ alerts = {}
  /\ alertJobs = {}
  /\ recorded = {}
  /\ lostAlerts = {}
  /\ faults = [db |-> 0, loss |-> 0, crash |-> 0]

(* The broker *)

Push(c) ==
  /\ channel = "open"
  /\ BagIn(c, queue)
  /\ Cardinality(unacked) < Prefetch
  /\ LET d == [m |-> c.m, retry |-> c.retry, tag |-> lastTag + 1, conn |-> connects]
     IN  /\ unacked' = unacked \cup {d}
         /\ buffer' = Append(buffer, d)
  /\ queue' = BagRemove(queue, c)
  /\ lastTag' = lastTag + 1
  /\ UNCHANGED <<retrying, dlq, channel, connects, atTop, acks, rows, ackQueue,
                 database, mistaken, alarms, faults>>

\* The TTL of a copy in the retry queue is over.
Return(c) ==
  /\ BagIn(c, retrying)
  /\ retrying' = BagRemove(retrying, c)
  /\ queue' = BagAdd(queue, c)
  /\ UNCHANGED <<dlq, unacked, lastTag, thread, ackQueue, database, mistaken, alarms, faults>>

\* The channel is gone: what was not acknowledged is ready again.
Requeue ==
  /\ queue' = Ready(unacked)
  /\ unacked' = {}

LoseConnection ==
  /\ channel = "open"
  /\ faults.loss < MaxLosses
  /\ faults' = [faults EXCEPT !.loss = @ + 1]
  /\ channel' = "broken"
  /\ Requeue
  /\ UNCHANGED <<retrying, dlq, lastTag, connects, buffer, atTop, acks, rows, ackQueue,
                 database, mistaken, alarms>>
-----------------------------------------------------------------------------
(* The consumer thread *)

Connect ==
  /\ channel = "none"
  /\ connects < MaxConnects
  /\ channel' = "open"
  /\ connects' = connects + 1
  /\ lastTag' = 0
  /\ UNCHANGED <<queue, retrying, dlq, unacked, buffer, atTop, acks, rows, ackQueue,
                 database, mistaken, alarms, faults>>

TakeAcks ==
  /\ channel # "none"
  /\ atTop
  /\ atTop' = FALSE
  /\ acks' = ackQueue
  /\ ackQueue' = <<>>
  /\ UNCHANGED <<broker, channel, connects, buffer, rows, database, mistaken, alarms, faults>>

\* BasicAck, or BasicReject with requeue, of the first result.  It counts on
\* this channel whichever delivery has its tag now.
Settle(d) ==
  /\ channel = "open"
  /\ acks # <<>>
  /\ d \in unacked
  /\ d.tag = Head(acks).tag
  /\ unacked' = unacked \ {d}
  /\ queue' = IF Head(acks).ok THEN queue ELSE Ready({d})
  /\ mistaken' = IF Head(acks).m = d.m THEN mistaken ELSE mistaken \cup {d.m}
  /\ acks' = Tail(acks)
  /\ UNCHANGED <<retrying, dlq, lastTag, channel, connects, buffer, atTop, rows, ackQueue,
                 database, alarms, faults>>

\* The same with a tag the channel does not know: the broker closes it.
SettleUnknown ==
  /\ channel = "open"
  /\ acks # <<>>
  /\ \A d \in unacked : d.tag # Head(acks).tag
  /\ channel' = "broken"
  /\ acks' = Tail(acks)
  /\ Requeue
  /\ UNCHANGED <<retrying, dlq, lastTag, connects, buffer, atTop, rows, ackQueue,
                 database, mistaken, alarms, faults>>

\* What the exception handler drops; rows, dels and g_ackQueue stay.
Reset ==
  /\ channel' = "none"
  /\ buffer' = <<>>
  /\ acks' = <<>>
  /\ atTop' = TRUE
  /\ UNCHANGED <<connects, rows>>

\* A use of a broken channel throws.
Notice ==
  /\ channel = "broken"
  /\ ~atTop
  /\ Reset
  /\ UNCHANGED <<broker, ackQueue, database, mistaken, alarms, faults>>

\* handleMessage has the first delivery of the buffer.
Consumes(d) ==
  /\ channel # "none" /\ ~atTop /\ acks = <<>>
  /\ buffer # <<>>
  /\ d = Head(buffer)

\* handleInvalid: another round, or the dead-letter queue.
Invalid(d) ==
  /\ channel = "open"
  /\ Consumes(d)
  /\ ~validate(d.m)
  /\ IF d.retry >= kMaxRetry
     THEN dlq' = dlq \cup {d.m} /\ UNCHANGED retrying
     ELSE retrying' = BagAdd(retrying, [CopyOf(d) EXCEPT !.retry = @ + 1]) /\ UNCHANGED dlq
  /\ unacked' = unacked \ {d}
  /\ buffer' = Tail(buffer)
  /\ atTop' = TRUE
  /\ UNCHANGED <<queue, lastTag, channel, connects, acks, rows, ackQueue, database,
                 mistaken, alarms, faults>>

\* The connection breaks before or after the broker has the copy: no ack.
InvalidThrows(d) ==
  /\ channel = "broken"
  /\ Consumes(d)
  /\ ~validate(d.m)
  /\ \/ UNCHANGED retrying
     \/ /\ d.retry < kMaxRetry
        /\ retrying' = BagAdd(retrying, [CopyOf(d) EXCEPT !.retry = @ + 1])
  /\ Reset
  /\ UNCHANGED <<queue, dlq, unacked, lastTag, ackQueue, database, mistaken, alarms, faults>>

\* checkThreshold publishes an alert for this reading.
Announces(m) == m \in DOMAIN Alarm /\ loaded /\ Alarm[m] \notin window

\* flushBatch as soon as the batch is full.
Collect(new) ==
  IF Len(new) >= kBatchRows
  THEN inserts' = inserts \cup {new} /\ rows' = <<>>
  ELSE rows' = new /\ UNCHANGED inserts

\* A well-formed reading: its alert, its row.
Reading(d) ==
  /\ Consumes(d)
  /\ validate(d.m)
  /\ \/ /\ Announces(d.m)
        /\ channel = "open"
        /\ window' = window \cup {Alarm[d.m]}
        /\ alerts' = alerts \cup {Alarm[d.m]}
        /\ UNCHANGED blind
     \/ /\ ~Announces(d.m)
        /\ blind' = IF d.m \in DOMAIN Alarm /\ ~loaded THEN blind \cup {d.m} ELSE blind
        /\ UNCHANGED <<window, alerts>>
  /\ Collect(Append(rows, d))
  /\ buffer' = Tail(buffer)
  /\ atTop' = TRUE
  /\ UNCHANGED <<broker, channel, connects, acks, ackQueue, stored, mistaken,
                 loaded, alertJobs, recorded, lostAlerts, faults>>

\* The alert's publication throws after the window was entered: no row, and
\* the broker has the alert or not.
AlarmThrows(d) ==
  /\ channel = "broken"
  /\ Consumes(d)
  /\ Announces(d.m)
  /\ window' = window \cup {Alarm[d.m]}
  /\ \/ alerts' = alerts \cup {Alarm[d.m]} /\ UNCHANGED lostAlerts
     \/ lostAlerts' = lostAlerts \cup {Alarm[d.m]} /\ UNCHANGED alerts
  /\ Reset
  /\ UNCHANGED <<broker, ackQueue, database, mistaken, loaded, blind, alertJobs, recorded, faults>>

\* BasicConsumeMessage times out within the flush window,
Idle ==
  /\ channel = "open" /\ ~atTop /\ acks = <<>>
  /\ buffer = <<>>
  /\ atTop' = TRUE
  /\ UNCHANGED <<broker, channel, connects, buffer, acks, rows, ackQueue, database,
                 mistaken, alarms, faults>>

\* or after it: flushBatch.
Flush ==
  /\ channel = "open" /\ ~atTop /\ acks = <<>>
  /\ buffer = <<>>
  /\ rows # <<>>
  /\ inserts' = inserts \cup {rows}
  /\ rows' = <<>>
  /\ atTop' = TRUE
  /\ UNCHANGED <<broker, channel, connects, buffer, acks, ackQueue, stored, mistaken,
                 alarms, faults>>
-----------------------------------------------------------------------------
(* The database callbacks *)

Results(b, ok) == [i \in DOMAIN b |-> [tag |-> b[i].tag, ok |-> ok, m |-> b[i].m]]

Inserted(b) ==
  /\ inserts' = inserts \ {b}
  /\ stored' = stored \cup {d.m : d \in Elems(b)}
  /\ ackQueue' = ackQueue \o Results(b, TRUE)
  /\ UNCHANGED <<broker, thread, mistaken, alarms, faults>>

\* Mutant: a batch the database refuses is logged and nothing else.
InsertFailsMutant2(b) ==
  /\ faults.db < MaxDbFailures
  /\ faults' = [faults EXCEPT !.db = @ + 1]
  /\ inserts' = inserts \ {b}
  /\ UNCHANGED <<broker, thread, ackQueue, stored, mistaken, alarms>>

\* Mutant: a batch the database refuses is acknowledged.
InsertFailsMutant(b) ==
  /\ faults.db < MaxDbFailures
  /\ faults' = [faults EXCEPT !.db = @ + 1]
  /\ inserts' = inserts \ {b}
  /\ ackQueue' = ackQueue \o Results(b, TRUE)
  /\ UNCHANGED <<broker, thread, stored, mistaken, alarms>>

InsertFails(b) ==
  /\ faults.db < MaxDbFailures
  /\ faults' = [faults EXCEPT !.db = @ + 1]
  /\ inserts' = inserts \ {b}
  /\ ackQueue' = ackQueue \o Results(b, FALSE)
  /\ UNCHANGED <<broker, thread, stored, mistaken, alarms>>

\* refreshSensorCache returns, at the start and whenever 60 s have passed; a
\* load that fails is asked for again.
LoadThresholds ==
  /\ loaded' = TRUE
  /\ UNCHANGED <<broker, thread, ackQueue, database, mistaken, window, blind, alerts,
                 alertJobs, recorded, lostAlerts, faults>>

\* kAlertSuppressSec have passed.
WindowEnds(s) ==
  /\ s \in window
  /\ window' = window \ {s}
  /\ UNCHANGED <<broker, thread, ackQueue, database, mistaken, loaded, blind, alerts,
                 alertJobs, recorded, lostAlerts, faults>>

(* AlertHandler *)

\* Mutant: the alert is acknowledged before the INSERT is sent.
HandleAlertMutant(s) ==
  /\ s \in alerts
  /\ alerts' = alerts \ {s}
  /\ \/ alertJobs' = alertJobs \cup {s} /\ UNCHANGED faults
     \/ /\ faults.loss < MaxLosses
        /\ faults' = [faults EXCEPT !.loss = @ + 1]
        /\ UNCHANGED alertJobs
  /\ UNCHANGED <<broker, thread, ackQueue, database, mistaken, loaded, window, blind,
                 recorded, lostAlerts>>

\* The INSERT is sent and the alert acknowledged; if the channel breaks in
\* between, the alert is delivered again.
HandleAlert(s) ==
  /\ s \in alerts
  /\ alertJobs' = alertJobs \cup {s}
  /\ \/ alerts' = alerts \ {s} /\ UNCHANGED faults
     \/ /\ faults.loss < MaxLosses
        /\ faults' = [faults EXCEPT !.loss = @ + 1]
        /\ UNCHANGED alerts
  /\ UNCHANGED <<broker, thread, ackQueue, database, mistaken, loaded, window, blind,
                 recorded, lostAlerts>>

AlertInserted(s) ==
  /\ s \in alertJobs
  /\ alertJobs' = alertJobs \ {s}
  /\ recorded' = recorded \cup {s}
  /\ UNCHANGED <<broker, thread, ackQueue, database, mistaken, loaded, window, blind,
                 alerts, lostAlerts, faults>>

AlertInsertFails(s) ==
  /\ s \in alertJobs
  /\ faults.db < MaxDbFailures
  /\ faults' = [faults EXCEPT !.db = @ + 1]
  /\ alertJobs' = alertJobs \ {s}
  /\ lostAlerts' = lostAlerts \cup {s}
  /\ UNCHANGED <<broker, thread, ackQueue, database, mistaken, loaded, window, blind,
                 alerts, recorded>>

\* The process dies and is restarted; an INSERT under way may still commit.
Crash ==
  /\ faults.crash < MaxCrashes
  /\ faults' = [faults EXCEPT !.crash = @ + 1]
  /\ \E done \in SUBSET inserts : stored' = stored \cup {d.m : d \in UNION {Elems(b) : b \in done}}
  /\ \E done \in SUBSET alertJobs :
       /\ recorded' = recorded \cup done
       /\ lostAlerts' = lostAlerts \cup (alertJobs \ done)
  /\ Requeue
  /\ channel' = "none" /\ atTop' = TRUE
  /\ buffer' = <<>> /\ acks' = <<>> /\ ackQueue' = <<>> /\ rows' = <<>>
  /\ inserts' = {} /\ alertJobs' = {}
  /\ loaded' = FALSE /\ window' = {}
  /\ UNCHANGED <<retrying, dlq, lastTag, connects, mistaken, blind, alerts>>
-----------------------------------------------------------------------------
Thread ==
  \/ Connect \/ TakeAcks \/ SettleUnknown \/ Notice \/ Idle \/ Flush
  \/ \E d \in unacked : Settle(d)
  \/ \E d \in Elems(buffer) : Invalid(d) \/ InvalidThrows(d) \/ Reading(d) \/ AlarmThrows(d)

Database ==
  \/ \E b \in inserts : Inserted(b)
  \/ \E s \in Sensors : AlertInserted(s)

Broker == \E c \in Copy : Push(c) \/ Return(c)

Next ==
  \/ Broker
  \/ Thread
  \/ Database
  \/ LoadThresholds
  \/ \E b \in inserts : InsertFails(b)
  \/ \E s \in Sensors : WindowEnds(s) \/ HandleAlert(s) \/ AlertInsertFails(s)
  \/ LoseConnection
  \/ Crash

Spec == Init /\ [][Next]_vars

\* The broker delivers, the thread runs, every statement is answered, and the
\* flush window, which nothing but a new delivery restarts, comes to its end.
FairSpec ==
  /\ Spec
  /\ WF_vars(Broker)
  /\ WF_vars(Thread)
  /\ WF_vars(Database)
  /\ SF_vars(Flush)
-----------------------------------------------------------------------------
(* Properties *)

\* DataIngestHandler.cc:294-354: a reading is at the broker, stored or
\* dead-lettered, whatever fails, unless a result of an earlier channel settled
\* it in another's place; only malformed ones are dead-lettered, and no
\* malformed one is stored.
ReadingsAccounted ==
  /\ \A m \in Messages :
       \/ m \in stored \cup dlq \cup mistaken
       \/ \E c \in Copy : c.m = m /\ (BagIn(c, queue) \/ BagIn(c, retrying))
       \/ \E d \in unacked : d.m = m
  /\ dlq \subseteq Malformed
  /\ stored \cap Malformed = {}

\* DataIngestHandler.cc:238-264, AlertHandler.cc:51-76: a stored reading beyond
\* its threshold has an alert of its sensor in iot_alerts or on its way there,
\* except where the code loses it: the thresholds were not loaded, the
\* publication threw after the window was entered, or the INSERT of an
\* acknowledged alert failed.
AlertsAccounted ==
  \A m \in stored \cap DOMAIN Alarm :
    \/ m \in blind
    \/ Alarm[m] \in alerts \cup alertJobs \cup recorded \cup lostAlerts

\* Every reading is stored or dead-lettered in the end, unless a result of an
\* earlier channel took its place, or such results closed the last of the
\* MaxConnects channels.
EventuallySettled ==
  \A m \in Messages :
    <>(m \in stored \cup dlq \cup mistaken \/ (channel = "none" /\ connects = MaxConnects))
=============================================================================
