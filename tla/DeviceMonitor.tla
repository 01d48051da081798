--------------------------- MODULE DeviceMonitor ---------------------------
(***************************************************************************)
(* Whether a device is online (mq/DeviceMonitor.cc), with what else writes *)
(* iot_devices: the heartbeat of a stored batch (DataIngestHandler.cc:334) *)
(* and the administration of devices, and what people do with the alerts   *)
(* (services/IotService.cc).                                               *)
(*                                                                         *)
(* Every instance scans for devices whose heartbeat is too old and sends   *)
(* one UPDATE per device; the one that hits enqueues an OFFLINE alert in a *)
(* statement of its own.  Statements of one scan run in any order, beside  *)
(* those of other instances, and each may fail.                            *)
(*                                                                         *)
(* An enqueued alert is a row of mq_outbox.  The dispatcher publishes it   *)
(* and then commits that it did (the module Outbox has its steps and its   *)
(* retries); AlertHandler acknowledges the message when it has sent the    *)
(* INSERT into iot_alerts, and does not wait for it.  So an alert may be   *)
(* lost, or have several rows; both are kept account of.                   *)
(***************************************************************************)
EXTENDS Integers, Sequences

CONSTANTS
  Devices,      \* ids of iot_devices
  Instances,    \* processes of the backend
  Users,        \* who handles alerts
  Nobody,       \* acknowledged_by is NULL
  MaxOutages,   \* bound: times the monitor takes a device offline
  MaxPending,   \* bound: UPDATEs of one device under way
  MaxFailures,  \* bound: statements, publications, connections that fail
  MaxEdits      \* bound: updates by an administrator

ASSUME ParametersAssumption ==
  /\ {MaxOutages, MaxPending, MaxFailures, MaxEdits} \subseteq Nat
  /\ Nobody \notin Users

VARIABLES
  row,       \* row[d] of iot_devices: present, status, and its heartbeat
  scanning,  \* instances whose g_scanning is set
  asked,     \* instances whose SELECT is under way
  marks,     \* marks[d]: UPDATEs to offline under way
  pending,   \* pending[d]: INSERTs of its alert under way
  queued,    \* queued[d]: its alerts in mq_outbox that are not sent
  messages,  \* messages[d]: its alerts in iot.alert.queue
  inserting, \* inserting[d]: INSERTs into iot_alerts under way
  copies,    \* history: copies[d]: publications and deliveries to be repeated
  lost,      \* history: lost[d]: alerts, or copies of one, that went no further
  outages,   \* history: outages[d]: times an UPDATE took d offline
  alert,     \* alert[d]: its OFFLINE rows in iot_alerts, in order
  failures, edits \* bounded: statements failed, updates made

sending == <<messages, inserting, copies>>
alerts == <<pending, queued, sending, lost, outages>>
device == <<row, scanning, asked, marks, edits>>
vars == <<device, alerts, alert, failures>>

NoRow == [present |-> "no", status |-> 0, beat |-> "never"]
AlertRow == [status : {"open", "acknowledged", "resolved", "dismissed"}, by : Users \cup {Nobody}]
-----------------------------------------------------------------------------
Init ==
  /\ row = [d \in Devices |-> NoRow]
  /\ scanning = {}
  /\ asked = {}
  /\ marks = [d \in Devices |-> 0]
  /\ pending = [d \in Devices |-> 0]
  /\ queued = [d \in Devices |-> 0]
  /\ messages = [d \in Devices |-> 0]
  /\ inserting = [d \in Devices |-> 0]
  /\ copies = [d \in Devices |-> 0]
  /\ lost = [d \in Devices |-> 0]
  /\ outages = [d \in Devices |-> 0]
  /\ alert = [d \in Devices |-> <<>>]
  /\ failures = 0
  /\ edits = 0

StatementFails ==
  /\ failures < MaxFailures
  /\ failures' = failures + 1

(* Other writers of iot_devices *)

\* The heartbeat UPDATE of a stored batch, which also puts the device online.
Heartbeat(d) ==
  /\ row' = [row EXCEPT ![d] =
               IF @.present = "yes" THEN [@ EXCEPT !.status = 1, !.beat = "fresh"] ELSE @]
  /\ UNCHANGED <<scanning, asked, marks, alerts, alert, failures, edits>>

\* kOfflineSec pass without a report.
Silence(d) ==
  /\ row[d].beat = "fresh"
  /\ row' = [row EXCEPT ![d].beat = "stale"]
  /\ UNCHANGED <<scanning, asked, marks, alerts, alert, failures, edits>>

createDevice(d, s) ==
  /\ row[d].present = "no"
  /\ row' = [row EXCEPT ![d] = [present |-> "yes", status |-> s, beat |-> "never"]]
  /\ UNCHANGED <<scanning, asked, marks, alerts, alert, failures, edits>>

updateDevice(d, s) ==
  /\ row[d].present = "yes"
  /\ edits < MaxEdits
  /\ edits' = edits + 1
  /\ row' = [row EXCEPT ![d].status = s]
  /\ UNCHANGED <<scanning, asked, marks, alerts, alert, failures>>

deleteDevice(d) ==
  /\ row[d].present = "yes"
  /\ row' = [row EXCEPT ![d].present = "deleted"]
  /\ UNCHANGED <<scanning, asked, marks, alerts, alert, failures, edits>>
-----------------------------------------------------------------------------
(* The monitor *)

\* The timer fires; a scan that has not returned keeps the next one out.
Scan(i) ==
  /\ i \notin scanning
  /\ scanning' = scanning \cup {i}
  /\ asked' = asked \cup {i}
  /\ UNCHANGED <<row, marks, alerts, alert, failures, edits>>

\* A device without any heartbeat is NULL in the comparison: not selected.
TimedOut(d) == row[d].present = "yes" /\ row[d].status = 1 /\ row[d].beat = "stale"

\* The SELECT returns: one UPDATE is sent for each row.
ScanReturns(i) ==
  /\ i \in asked
  /\ \A d \in Devices : TimedOut(d) => marks[d] < MaxPending
  /\ marks' = [d \in Devices |-> IF TimedOut(d) THEN marks[d] + 1 ELSE marks[d]]
  /\ scanning' = scanning \ {i}
  /\ asked' = asked \ {i}
  /\ UNCHANGED <<row, alerts, alert, failures, edits>>

\* Mutant: the error callback does not reset g_scanning.
ScanFailsMutant(i) ==
  /\ i \in asked
  /\ StatementFails
  /\ asked' = asked \ {i}
  /\ UNCHANGED <<row, scanning, marks, alerts, alert, edits>>

ScanFails(i) ==
  /\ i \in asked
  /\ StatementFails
  /\ scanning' = scanning \ {i}
  /\ asked' = asked \ {i}
  /\ UNCHANGED <<row, marks, alerts, alert, edits>>

\* Mutant: the UPDATE does not ask for status = 1.
HitsMutant(d) == row[d].present = "yes"

\* The WHERE of the UPDATE, which does not look at the heartbeat again.
Hits(d) == row[d].present = "yes" /\ row[d].status = 1

\* The UPDATE: only a row it hits gets an alert, in a statement of its own.
markOfflineAndAlert(d) ==
  /\ marks[d] > 0
  /\ marks' = [marks EXCEPT ![d] = @ - 1]
  /\ IF Hits(d)
     THEN /\ outages[d] < MaxOutages
          /\ outages' = [outages EXCEPT ![d] = IF row[d].status = 1 THEN @ + 1 ELSE @]
          /\ pending' = [pending EXCEPT ![d] = @ + 1]
          /\ row' = [row EXCEPT ![d].status = 0]
     ELSE UNCHANGED <<row, pending, outages>>
  /\ UNCHANGED <<scanning, asked, queued, sending, lost, alert, failures, edits>>

MarkFails(d) ==
  /\ marks[d] > 0
  /\ StatementFails
  /\ marks' = [marks EXCEPT ![d] = @ - 1]
  /\ UNCHANGED <<row, scanning, asked, alerts, alert, edits>>

Enqueued(d) ==
  /\ pending[d] > 0
  /\ pending' = [pending EXCEPT ![d] = @ - 1]
  /\ queued' = [queued EXCEPT ![d] = @ + 1]
  /\ UNCHANGED <<row, scanning, asked, marks, sending, lost, outages, alert, failures, edits>>

\* The INSERT fails, or the process dies before it: nobody repeats it.
EnqueueFails(d) ==
  /\ pending[d] > 0
  /\ StatementFails
  /\ pending' = [pending EXCEPT ![d] = @ - 1]
  /\ lost' = [lost EXCEPT ![d] = @ + 1]
  /\ UNCHANGED <<row, scanning, asked, marks, queued, sending, outages, alert, edits>>

\* The process is restarted in the middle of a scan.
Restart(i) ==
  /\ i \in asked
  /\ StatementFails
  /\ scanning' = scanning \ {i}
  /\ asked' = asked \ {i}
  /\ UNCHANGED <<row, marks, alerts, alert, edits>>
-----------------------------------------------------------------------------
(* Alerts *)

Moves(from, to, d) ==
  /\ from[d] > 0
  /\ from' = [from EXCEPT ![d] = @ - 1]
  /\ to' = [to EXCEPT ![d] = @ + 1]

\* The dispatcher publishes the alert and marks its row sent,
Published(d) ==
  /\ Moves(queued, messages, d)
  /\ UNCHANGED <<device, pending, inserting, copies, lost, outages, alert, failures>>

\* or it reaches the broker and the row stays, because the answer or the COMMIT
\* of the dispatcher's transaction is lost, or another row's UPDATE throws,
PublishedAgain(d) ==
  /\ queued[d] > 0
  /\ StatementFails
  /\ messages' = [messages EXCEPT ![d] = @ + 1]
  /\ copies' = [copies EXCEPT ![d] = @ + 1]
  /\ UNCHANGED <<device, pending, queued, inserting, lost, outages, alert>>

\* or the row is a dead letter at kMaxRetry, or marked sent though the broker
\* never got it: publishSync does not ask for a confirm.
GivenUp(d) ==
  /\ StatementFails
  /\ Moves(queued, lost, d)
  /\ UNCHANGED <<device, pending, sending, outages, alert>>

\* AlertHandler sends the INSERT and acknowledges the message; when the channel
\* is lost in between, it is delivered again.
HandleAlert(d) ==
  /\ \/ Moves(messages, inserting, d) /\ UNCHANGED <<copies, failures>>
     \/ /\ messages[d] > 0
        /\ StatementFails
        /\ inserting' = [inserting EXCEPT ![d] = @ + 1]
        /\ copies' = [copies EXCEPT ![d] = @ + 1]
        /\ UNCHANGED messages
  /\ UNCHANGED <<device, pending, queued, lost, outages, alert>>

Inserted(d) ==
  /\ inserting[d] > 0
  /\ inserting' = [inserting EXCEPT ![d] = @ - 1]
  /\ alert' = [alert EXCEPT ![d] = Append(@, [status |-> "open", by |-> Nobody])]
  /\ UNCHANGED <<device, pending, queued, messages, copies, lost, outages, failures>>

\* The INSERT fails, or the process dies before it: the message is gone.
InsertFails(d) ==
  /\ StatementFails
  /\ Moves(inserting, lost, d)
  /\ UNCHANGED <<device, pending, queued, messages, copies, outages, alert>>

First(by, u) == IF by = Nobody THEN u ELSE by

Handle(d, n, from, new) ==
  /\ n \in DOMAIN alert[d]
  /\ alert[d][n].status \in from
  /\ alert' = [alert EXCEPT ![d][n] = new]
  /\ UNCHANGED <<row, scanning, asked, marks, alerts, failures, edits>>

acknowledgeAlert(d, n, u) ==
  Handle(d, n, {"open"}, [status |-> "acknowledged", by |-> u])

resolveAlert(d, n, u) ==
  Handle(d, n, {"acknowledged"}, [status |-> "resolved", by |-> First(alert[d][n].by, u)])

\* Mutant: acknowledged_by is overwritten.
dismissAlertMutant(d, n, u) ==
  Handle(d, n, {"open", "acknowledged"}, [status |-> "dismissed", by |-> u])

dismissAlert(d, n, u) ==
  Handle(d, n, {"open", "acknowledged"}, [status |-> "dismissed", by |-> First(alert[d][n].by, u)])
-----------------------------------------------------------------------------
Monitor ==
  \/ \E i \in Instances : Scan(i) \/ ScanReturns(i)
  \/ \E d \in Devices : markOfflineAndAlert(d) \/ Enqueued(d)

Next ==
  \/ \E d \in Devices :
       \/ Heartbeat(d) \/ Silence(d) \/ deleteDevice(d)
       \/ \E s \in {0, 1} : createDevice(d, s) \/ updateDevice(d, s)
       \/ MarkFails(d) \/ EnqueueFails(d)
       \/ Published(d) \/ PublishedAgain(d) \/ GivenUp(d)
       \/ HandleAlert(d) \/ Inserted(d) \/ InsertFails(d)
       \/ \E n \in DOMAIN alert[d], u \in Users :
            acknowledgeAlert(d, n, u) \/ resolveAlert(d, n, u) \/ dismissAlert(d, n, u)
  \/ \E i \in Instances : ScanFails(i) \/ Restart(i)
  \/ Monitor

Spec == Init /\ [][Next]_vars

\* Timers fire and statements are answered.
FairSpec ==
  /\ Spec
  /\ \A i \in Instances : WF_vars(Scan(i)) /\ WF_vars(ScanReturns(i))
  /\ \A d \in Devices : WF_vars(markOfflineAndAlert(d)) /\ WF_vars(Enqueued(d))
-----------------------------------------------------------------------------
(* Properties *)

\* Every variable keeps its type.
TypeOK ==
  /\ row \in [Devices -> [present : {"no", "yes", "deleted"}, status : {0, 1},
                          beat : {"never", "fresh", "stale"}]]
  /\ asked \subseteq scanning /\ scanning \subseteq Instances
  /\ marks \in [Devices -> Nat]
  /\ pending \in [Devices -> Nat] /\ queued \in [Devices -> Nat]
  /\ messages \in [Devices -> Nat] /\ inserting \in [Devices -> Nat] /\ copies \in [Devices -> Nat]
  /\ lost \in [Devices -> Nat] /\ outages \in [Devices -> Nat]
  /\ alert \in [Devices -> Seq(AlertRow)]
  /\ failures \in Nat /\ edits \in Nat

\* Its alerts that have no row in iot_alerts yet.
OnTheWay(d) == pending[d] + queued[d] + messages[d] + inserting[d]

\* DeviceMonitor.cc:25-26: one OFFLINE alert is enqueued for every time a device
\* is taken offline, whichever instances scanned, and every row of iot_alerts is
\* that alert or a copy a failure accounts for.  Copies come of a publication or
\* a delivery that is repeated; an alert is lost by a failed INSERT into
\* mq_outbox or, once acknowledged, into iot_alerts, or is given up in between.
OneAlertPerOutage ==
  \A d \in Devices :
    OnTheWay(d) + Len(alert[d]) + lost[d] = outages[d] + copies[d]

\* DeviceMonitor.cc:17,80: a device that stays silent does not stay online,
\* whatever scans and updates fail and whoever else writes its row.
SilentGoesOffline ==
  \A d \in Devices : []<>(~TimedOut(d) \/ outages[d] = MaxOutages)

\* IotService.cc:572-596: an alert that was handled keeps its first handler,
\* and one that was resolved or dismissed stays so, whoever acts at once.
FirstHandlerKept ==
  [][\A d \in Devices : \A n \in DOMAIN alert[d] :
       /\ alert[d][n].by # Nobody => alert'[d][n].by = alert[d][n].by
       /\ alert[d][n].status \in {"resolved", "dismissed"} => alert'[d][n] = alert[d][n]]_vars
=============================================================================
