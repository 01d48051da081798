------------------------ MODULE DeviceMonitorProofs ------------------------
(***************************************************************************)
(* Theorems about devices at both ends: DeviceMonitor, the status and the  *)
(* alerts the backend keeps of them, for any devices, instances and users; *)
(* and Edge, the collector that reads them, for any sensors, batch sizes,  *)
(* commands and faults.                                                    *)
(***************************************************************************)
EXTENDS DeviceMonitor, Edge, FiniteSetTheorems, WellFoundedInduction, TLAPS
-----------------------------------------------------------------------------
(* Status and alerts: both properties are inductive once the types are     *)
(* known and an alert that nobody handled has nobody's name on it.         *)

\* Only a handled alert names its handler.
OpenInv ==
  \A d \in Devices : \A n \in DOMAIN alert[d] :
    alert[d][n].status = "open" => alert[d][n].by = Nobody

IInv == TypeOK /\ OpenInv /\ OneAlertPerOutage

DeviceRow == [present : {"no", "yes", "deleted"}, status : {0, 1},
              beat : {"never", "fresh", "stale"}]

Keeps ==
  \A d \in Devices : \A n \in DOMAIN alert[d] :
    /\ n \in DOMAIN alert'[d]
    /\ alert[d][n].by # Nobody => alert'[d][n].by = alert[d][n].by
    /\ alert[d][n].status \in {"resolved", "dismissed"} => alert'[d][n] = alert[d][n]
-----------------------------------------------------------------------------
LEMMA InitIInv == Init => IInv
BY ParametersAssumption DEF Init, IInv, TypeOK, OpenInv, OneAlertPerOutage, OnTheWay, NoRow,
   AlertRow

\* What a step that leaves the alerts alone has to keep.
LEMMA RowStep ==
  ASSUME IInv, UNCHANGED <<alerts, alert>>,
         row' \in [Devices -> DeviceRow],
         asked' \subseteq scanning', scanning' \subseteq Instances,
         marks' \in [Devices -> Nat], failures' \in Nat, edits' \in Nat
  PROVE  IInv' /\ Keeps
<1>1. TypeOK'
  BY DEF IInv, TypeOK, DeviceRow, alerts, sending
<1>2. OpenInv' /\ OneAlertPerOutage'
  BY DEF IInv, OpenInv, OneAlertPerOutage, OnTheWay, alerts, sending
<1>3. Keeps
  BY DEF Keeps
<1> QED BY <1>1, <1>2, <1>3 DEF IInv

\* The types the steps below start from.
LEMMA Types ==
  ASSUME IInv
  PROVE  /\ row \in [Devices -> DeviceRow]
         /\ \A d \in Devices : row[d] \in DeviceRow
         /\ asked \subseteq scanning /\ scanning \subseteq Instances
         /\ marks \in [Devices -> Nat] /\ \A d \in Devices : marks[d] \in Nat
         /\ failures \in Nat /\ edits \in Nat
BY DEF IInv, TypeOK, DeviceRow

\* One row of iot_devices is replaced, and nothing else but edits changes.
LEMMA OneRowStep ==
  ASSUME IInv, NEW d \in Devices, NEW new \in DeviceRow,
         row' = [row EXCEPT ![d] = new],
         UNCHANGED <<scanning, asked, marks, alerts, alert, failures>>, edits' \in Nat
  PROVE  IInv' /\ Keeps
<1>1. row' \in [Devices -> DeviceRow]
  BY Types
<1> QED BY <1>1, Types, RowStep

\* One handling of the n-th alert of a device.
LEMMA HandleStep ==
  ASSUME IInv, NEW d \in Devices, NEW n \in DOMAIN alert[d], NEW new \in AlertRow,
         alert' = [alert EXCEPT ![d][n] = new],
         UNCHANGED <<row, scanning, asked, marks, alerts, failures, edits>>,
         new.status # "open",
         alert[d][n].status \notin {"resolved", "dismissed"},
         alert[d][n].by # Nobody => new.by = alert[d][n].by
  PROVE  IInv' /\ Keeps
<1>1. alert[d] \in Seq(AlertRow) /\ alert \in [Devices -> Seq(AlertRow)]
  BY DEF IInv, TypeOK
<1>2. alert' = [alert EXCEPT ![d] = [alert[d] EXCEPT ![n] = new]]
  OBVIOUS
<1>3. n \in 1 .. Len(alert[d])
  BY <1>1
<1>4. [alert[d] EXCEPT ![n] = new] \in Seq(AlertRow)
      /\ Len([alert[d] EXCEPT ![n] = new]) = Len(alert[d])
  BY <1>1, <1>3
<1>5. /\ alert' \in [Devices -> Seq(AlertRow)]
      /\ alert'[d] = [alert[d] EXCEPT ![n] = new]
      /\ \A e \in Devices : e # d => alert'[e] = alert[e]
  BY <1>1, <1>2, <1>4
<1>6. /\ \A e \in Devices : Len(alert'[e]) = Len(alert[e]) /\ DOMAIN alert'[e] = DOMAIN alert[e]
      /\ \A e \in Devices : \A m \in DOMAIN alert[e] :
           (e # d \/ m # n) => alert'[e][m] = alert[e][m]
      /\ alert'[d][n] = new
  BY <1>1, <1>3, <1>4, <1>5
<1>7. TypeOK'
  BY <1>5 DEF IInv, TypeOK, alerts, sending
<1>8. OpenInv'
  BY <1>6 DEF IInv, OpenInv
<1>9. OneAlertPerOutage'
  BY <1>6 DEF IInv, OneAlertPerOutage, OnTheWay, alerts, sending
<1>10. Keeps
  BY <1>6 DEF Keeps
<1> QED BY <1>7, <1>8, <1>9, <1>10 DEF IInv

LEMMA Counts ==
  ASSUME IInv, NEW d \in Devices
  PROVE  /\ OnTheWay(d) \in Nat /\ lost[d] \in Nat /\ copies[d] \in Nat
         /\ outages[d] \in Nat /\ Len(alert[d]) \in Nat
         /\ OnTheWay(d) + Len(alert[d]) + lost[d] = outages[d] + copies[d]
<1>1. Len(alert[d]) \in Nat /\ OnTheWay(d) \in Nat
  BY DEF IInv, TypeOK, OnTheWay
<1>2. lost[d] \in Nat /\ copies[d] \in Nat /\ outages[d] \in Nat
  BY DEF IInv, TypeOK
<1>3. OnTheWay(d) + Len(alert[d]) + lost[d] = outages[d] + copies[d]
  BY DEF IInv, OneAlertPerOutage
<1> QED BY <1>1, <1>2, <1>3

\* A step in which an alert goes from one place to the next, or a copy of it.
LEMMA FlowStep ==
  ASSUME IInv, UNCHANGED <<device, outages, alert>>, failures' \in Nat,
         pending' \in [Devices -> Nat], queued' \in [Devices -> Nat],
         messages' \in [Devices -> Nat], inserting' \in [Devices -> Nat],
         copies' \in [Devices -> Nat], lost' \in [Devices -> Nat],
         \A d \in Devices :
           OnTheWay(d)' + lost'[d] + copies[d] = OnTheWay(d) + lost[d] + copies'[d]
  PROVE  IInv' /\ Keeps
<1>1. TypeOK' /\ OpenInv' /\ Keeps
  BY DEF IInv, TypeOK, OpenInv, Keeps, device
<1>2. OneAlertPerOutage'
  <2> SUFFICES ASSUME NEW d \in Devices
               PROVE  OnTheWay(d)' + Len(alert[d]) + lost'[d] = outages[d] + copies'[d]
    BY DEF OneAlertPerOutage
  <2>1. OnTheWay(d)' \in Nat /\ lost'[d] \in Nat /\ copies'[d] \in Nat
    BY DEF OnTheWay
  <2>2. OnTheWay(d)' + lost'[d] + copies[d] = OnTheWay(d) + lost[d] + copies'[d]
    OBVIOUS
  <2> DEFINE w == OnTheWay(d)
             v == OnTheWay(d)'
             n == Len(alert[d])
             k == lost'[d]
             b == copies'[d]
  <2>3. /\ w \in Nat /\ n \in Nat /\ lost[d] \in Nat /\ outages[d] \in Nat /\ copies[d] \in Nat
        /\ w + n + lost[d] = outages[d] + copies[d]
    BY Counts
  <2>4. /\ v \in Nat /\ k \in Nat /\ b \in Nat
        /\ v + k + copies[d] = w + lost[d] + b
    BY <2>1, <2>2
  <2> HIDE DEF w, v, n, k, b
  <2>5. v + n + k = outages[d] + b
    BY <2>3, <2>4
  <2> QED BY <2>5 DEF v, n, k, b
<1> QED BY <1>1, <1>2 DEF IInv

LEMMA SendStep ==
  ASSUME IInv, NEW d \in Devices,
         Published(d) \/ PublishedAgain(d) \/ GivenUp(d) \/ HandleAlert(d) \/ InsertFails(d)
  PROVE  IInv' /\ Keeps
<1>1. /\ pending \in [Devices -> Nat]
      /\ queued \in [Devices -> Nat] /\ messages \in [Devices -> Nat]
      /\ inserting \in [Devices -> Nat] /\ copies \in [Devices -> Nat]
      /\ lost \in [Devices -> Nat] /\ failures \in Nat
  BY DEF IInv, TypeOK
<1>2. CASE Published(d)
  BY <1>1, <1>2, FlowStep DEF Published, Moves, OnTheWay
<1>3. CASE PublishedAgain(d)
  BY <1>1, <1>3, FlowStep DEF PublishedAgain, StatementFails, OnTheWay
<1>4. CASE GivenUp(d)
  BY <1>1, <1>4, FlowStep DEF GivenUp, Moves, StatementFails, sending, OnTheWay
<1>5. CASE HandleAlert(d)
  BY <1>1, <1>5, FlowStep DEF HandleAlert, Moves, StatementFails, OnTheWay
<1>6. CASE InsertFails(d)
  BY <1>1, <1>6, FlowStep DEF InsertFails, Moves, StatementFails, OnTheWay
<1> QED BY <1>2, <1>3, <1>4, <1>5, <1>6

LEMMA InsertedStep ==
  ASSUME IInv, NEW d \in Devices, Inserted(d)
  PROVE  IInv' /\ Keeps
<1> DEFINE new == [status |-> "open", by |-> Nobody]
<1>1. alert \in [Devices -> Seq(AlertRow)] /\ new \in AlertRow
  BY DEF IInv, TypeOK, AlertRow
<1>2. /\ alert' = [alert EXCEPT ![d] = Append(alert[d], new)]
      /\ inserting' = [inserting EXCEPT ![d] = inserting[d] - 1] /\ inserting[d] > 0
      /\ UNCHANGED <<row, scanning, asked, marks, edits, pending, queued, messages, copies, lost,
                     outages, failures>>
  BY DEF Inserted, device
<1> HIDE DEF new
<1>3. /\ Append(alert[d], new) \in Seq(AlertRow)
      /\ Len(Append(alert[d], new)) = Len(alert[d]) + 1
      /\ \A n \in DOMAIN alert[d] : Append(alert[d], new)[n] = alert[d][n]
      /\ DOMAIN alert[d] = 1 .. Len(alert[d]) /\ Len(alert[d]) \in Nat
      /\ Append(alert[d], new)[Len(alert[d]) + 1] = new
  BY <1>1
<1>4. /\ alert' \in [Devices -> Seq(AlertRow)]
      /\ alert'[d] = Append(alert[d], new)
      /\ \A e \in Devices : e # d => alert'[e] = alert[e]
  BY <1>1, <1>2, <1>3
<1>5. TypeOK'
  <2>1. inserting \in [Devices -> Nat]
    BY DEF IInv, TypeOK
  <2>2. inserting' \in [Devices -> Nat]
    BY <1>2, <2>1
  <2> QED BY <1>2, <1>4, <2>2 DEF IInv, TypeOK
<1>6. OpenInv'
  <2> SUFFICES ASSUME NEW e \in Devices, NEW n \in DOMAIN alert'[e],
                      alert'[e][n].status = "open"
               PROVE  alert'[e][n].by = Nobody
    BY DEF OpenInv
  <2>1. CASE e # d
    <3>1. alert'[e] = alert[e]
      BY <1>4, <2>1
    <3> QED BY <3>1 DEF IInv, OpenInv
  <2>2. CASE e = d /\ n \in DOMAIN alert[d]
    <3>1. alert'[d][n] = alert[d][n]
      BY <1>3, <1>4, <2>2
    <3> QED BY <2>2, <3>1 DEF IInv, OpenInv
  <2>3. CASE e = d /\ n \notin DOMAIN alert[d]
    <3>1. n \in 1 .. Len(alert[d]) + 1
      <4>1. Len(alert'[d]) = Len(alert[d]) + 1 /\ alert'[d] \in Seq(AlertRow)
        BY <1>3, <1>4
      <4> QED BY <2>3, <4>1
    <3>2. n = Len(alert[d]) + 1
      BY <1>3, <2>3, <3>1
    <3>3. alert'[d][n] = new
      BY <1>3, <1>4, <3>2
    <3> QED BY <2>3, <3>3 DEF new
  <2> QED BY <2>1, <2>2, <2>3
<1>7. OneAlertPerOutage'
  <2> SUFFICES ASSUME NEW e \in Devices
               PROVE  OnTheWay(e)' + Len(alert'[e]) + lost[e] = outages[e] + copies[e]
    BY <1>2 DEF OneAlertPerOutage
  <2>1. /\ pending[e] \in Nat /\ queued[e] \in Nat /\ messages[e] \in Nat
        /\ inserting[e] \in Nat /\ inserting \in [Devices -> Nat]
    BY DEF IInv, TypeOK
  <2>2. OnTheWay(e)' + Len(alert'[e]) = OnTheWay(e) + Len(alert[e])
        /\ OnTheWay(e)' \in Nat /\ Len(alert'[e]) \in Nat
    <3>1. CASE e = d
      <4>1. Len(alert'[e]) = Len(alert[e]) + 1 /\ Len(alert[e]) \in Nat
        BY <1>3, <1>4, <3>1
      <4>2. OnTheWay(e)' = OnTheWay(e) - 1 /\ OnTheWay(e) \in Nat /\ OnTheWay(e) > 0
        <5>1. /\ inserting'[e] = inserting[e] - 1 /\ inserting[e] > 0
              /\ UNCHANGED <<pending, queued, messages>>
          BY <1>2, <2>1, <3>1
        <5> DEFINE q == pending[e] + queued[e] + messages[e]
        <5>2. q \in Nat /\ q' = q /\ inserting[e] \in Nat
          BY <2>1, <5>1
        <5>3. OnTheWay(e) = q + inserting[e] /\ OnTheWay(e)' = q + inserting'[e]
          BY <5>1, <5>2 DEF OnTheWay
        <5> HIDE DEF q
        <5> QED BY <5>1, <5>2, <5>3
      <4> DEFINE w == OnTheWay(e)
                 v == OnTheWay(e)'
                 a == Len(alert[e])
                 b == Len(alert'[e])
      <4>3. b = a + 1 /\ a \in Nat /\ v = w - 1 /\ w \in Nat /\ w > 0
        BY <4>1, <4>2
      <4> HIDE DEF w, v, a, b
      <4>4. v + b = w + a /\ v \in Nat /\ b \in Nat
        BY <4>3
      <4> QED BY <4>4 DEF w, v, a, b
    <3>2. CASE e # d
      <4>1. alert'[e] = alert[e] /\ OnTheWay(e)' = OnTheWay(e)
        BY <1>2, <1>4, <2>1, <3>2 DEF OnTheWay
      <4> QED BY <4>1, Counts
    <3> QED BY <3>1, <3>2
  <2> QED BY <2>2, Counts
<1>8. Keeps
  <2> SUFFICES ASSUME NEW e \in Devices, NEW n \in DOMAIN alert[e]
               PROVE  n \in DOMAIN alert'[e] /\ alert'[e][n] = alert[e][n]
    BY DEF Keeps
  <2>1. CASE e # d
    BY <1>4, <2>1
  <2>2. CASE e = d
    <3>1. DOMAIN Append(alert[d], new) = 1 .. Len(alert[d]) + 1
      BY <1>3
    <3>2. n \in 1 .. Len(alert[d])
      BY <1>3, <2>2
    <3> QED BY <1>3, <1>4, <2>2, <3>1, <3>2
  <2> QED BY <2>1, <2>2
<1> QED BY <1>5, <1>6, <1>7, <1>8 DEF IInv

\* The statements that move an alert towards the outbox.
LEMMA AlertStep ==
  ASSUME IInv, NEW d \in Devices,
         markOfflineAndAlert(d) \/ Enqueued(d) \/ EnqueueFails(d)
  PROVE  IInv' /\ Keeps
<1>1. CASE markOfflineAndAlert(d)
  <2>1. CASE Hits(d)
    <3>1. row[d].status = 1
      BY <2>1 DEF Hits
    <3>2. /\ marks' = [marks EXCEPT ![d] = @ - 1] /\ marks[d] > 0
          /\ outages' = [outages EXCEPT ![d] = @ + 1]
          /\ pending' = [pending EXCEPT ![d] = @ + 1]
          /\ row' = [row EXCEPT ![d].status = 0]
          /\ UNCHANGED <<scanning, asked, queued, messages, inserting, copies, lost, alert, failures,
                         edits>>
      BY <1>1, <2>1, <3>1 DEF markOfflineAndAlert, sending
    <3>3. TypeOK'
      <4> DEFINE new == [row[d] EXCEPT !.status = 0]
      <4>1. new \in DeviceRow
        BY Types DEF DeviceRow
      <4>2. row' = [row EXCEPT ![d] = new]
        BY <3>2
      <4> HIDE DEF new
      <4>3. row' \in [Devices -> DeviceRow]
        BY <4>1, <4>2, Types
      <4>4. marks' \in [Devices -> Nat]
        BY <3>2, Types
      <4>5. pending' \in [Devices -> Nat] /\ outages' \in [Devices -> Nat]
        <5>1. pending \in [Devices -> Nat] /\ outages \in [Devices -> Nat]
          BY DEF IInv, TypeOK
        <5>2. \A e \in Devices : pending[e] + 1 \in Nat /\ outages[e] + 1 \in Nat
          BY <5>1
        <5> QED BY <3>2, <5>1, <5>2
      <4>6. UNCHANGED <<scanning, asked, queued, messages, inserting, copies, lost, alert, failures,
                        edits>>
        BY <3>2
      <4>7. row' \in [Devices -> [present : {"no", "yes", "deleted"}, status : {0, 1},
                                  beat : {"never", "fresh", "stale"}]]
        BY <4>3 DEF DeviceRow
      <4> QED BY <4>4, <4>5, <4>6, <4>7 DEF IInv, TypeOK
    <3>4. OneAlertPerOutage'
      <4> SUFFICES ASSUME NEW e \in Devices
                   PROVE  OnTheWay(e)' + Len(alert[e]) + lost[e] = outages'[e] + copies[e]
        BY <3>2 DEF OneAlertPerOutage
      <4>1. /\ pending[e] \in Nat /\ queued[e] \in Nat /\ messages[e] \in Nat
            /\ inserting[e] \in Nat /\ outages[e] \in Nat
            /\ pending \in [Devices -> Nat] /\ outages \in [Devices -> Nat]
        BY DEF IInv, TypeOK
      <4>2. CASE e = d
        <5>1. OnTheWay(e)' = OnTheWay(e) + 1 /\ outages'[e] = outages[e] + 1
          <6>1. /\ pending'[e] = pending[e] + 1 /\ outages'[e] = outages[e] + 1
                /\ UNCHANGED <<queued, messages, inserting>>
            BY <3>2, <4>1, <4>2
          <6> QED BY <4>1, <6>1 DEF OnTheWay
        <5> DEFINE w == OnTheWay(e)
                   n == Len(alert[e])
        <5>2. /\ w \in Nat /\ n \in Nat /\ lost[e] \in Nat /\ outages[e] \in Nat /\ copies[e] \in Nat
              /\ w + n + lost[e] = outages[e] + copies[e]
          BY Counts
        <5> HIDE DEF w, n
        <5>4. (w + 1) + n + lost[e] = (outages[e] + 1) + copies[e]
          BY <5>2
        <5> QED BY <5>1, <5>4 DEF w, n
      <4>3. CASE e # d
        <5>1. OnTheWay(e)' = OnTheWay(e) /\ outages'[e] = outages[e]
          BY <3>2, <4>1, <4>3 DEF OnTheWay
        <5> QED BY <5>1, Counts
      <4> QED BY <4>2, <4>3
    <3> QED BY <3>2, <3>3, <3>4 DEF IInv, OpenInv, Keeps
  <2>2. CASE ~Hits(d)
    <3>1. /\ marks' = [marks EXCEPT ![d] = @ - 1] /\ marks[d] > 0
          /\ UNCHANGED <<row, alerts, scanning, asked, alert, failures, edits>>
      BY <1>1, <2>2 DEF markOfflineAndAlert, alerts
    <3>2. marks' \in [Devices -> Nat]
      BY <3>1, Types
    <3> QED BY <3>1, <3>2, Types, RowStep
  <2> QED BY <2>1, <2>2
<1>2. /\ pending \in [Devices -> Nat] /\ queued \in [Devices -> Nat]
      /\ messages \in [Devices -> Nat] /\ inserting \in [Devices -> Nat]
      /\ copies \in [Devices -> Nat] /\ lost \in [Devices -> Nat] /\ failures \in Nat
  BY DEF IInv, TypeOK
<1>3. CASE Enqueued(d)
  BY <1>2, <1>3, FlowStep DEF Enqueued, device, sending, OnTheWay
<1>4. CASE EnqueueFails(d)
  BY <1>2, <1>4, FlowStep DEF EnqueueFails, StatementFails, device, sending, OnTheWay
<1> QED BY <1>1, <1>3, <1>4

\* The steps that write the device's row or the state of a scan.
LEMMA ScanStep ==
  ASSUME IInv, NEW i \in Instances,
         Scan(i) \/ ScanReturns(i) \/ ScanFails(i) \/ Restart(i)
  PROVE  IInv' /\ Keeps
<1>1. UNCHANGED <<row, alerts, alert, edits>>
  BY DEF Scan, ScanReturns, ScanFails, Restart
<1>2. asked' \subseteq scanning' /\ scanning' \subseteq Instances
  BY Types DEF Scan, ScanReturns, ScanFails, Restart
<1>3. marks' \in [Devices -> Nat]
  <2>1. CASE ScanReturns(i)
    BY <2>1, Types DEF ScanReturns
  <2>2. CASE UNCHANGED marks
    BY <2>2, Types
  <2> QED BY <2>1, <2>2 DEF Scan, ScanFails, Restart
<1>4. failures' \in Nat
  BY Types DEF Scan, ScanReturns, ScanFails, Restart, StatementFails
<1>5. row' \in [Devices -> DeviceRow] /\ edits' \in Nat
  BY <1>1, Types
<1> QED BY <1>1, <1>2, <1>3, <1>4, <1>5, RowStep

LEMMA DeviceStep ==
  ASSUME IInv, NEW d \in Devices,
         \/ Heartbeat(d) \/ Silence(d) \/ deleteDevice(d) \/ MarkFails(d)
         \/ \E s \in {0, 1} : createDevice(d, s) \/ updateDevice(d, s)
  PROVE  IInv' /\ Keeps
<1> USE Types
<1>1. CASE Heartbeat(d)
  <2>1. CASE row[d].present = "yes"
    <3> DEFINE new == [row[d] EXCEPT !.status = 1, !.beat = "fresh"]
    <3>1. new \in DeviceRow
      BY DEF DeviceRow
    <3>2. row' = [row EXCEPT ![d] = new]
          /\ UNCHANGED <<scanning, asked, marks, alerts, alert, failures, edits>>
      BY <1>1, <2>1 DEF Heartbeat
    <3> HIDE DEF new
    <3> QED BY <3>1, <3>2, OneRowStep
  <2>2. CASE row[d].present # "yes"
    <3>1. row' = [row EXCEPT ![d] = row[d]]
          /\ UNCHANGED <<scanning, asked, marks, alerts, alert, failures, edits>>
      BY <1>1, <2>2 DEF Heartbeat
    <3> QED BY <3>1, OneRowStep
  <2> QED BY <2>1, <2>2
<1>2. CASE Silence(d)
  <2> DEFINE new == [row[d] EXCEPT !.beat = "stale"]
  <2>1. new \in DeviceRow
    BY DEF DeviceRow
  <2>2. row' = [row EXCEPT ![d] = new]
        /\ UNCHANGED <<scanning, asked, marks, alerts, alert, failures, edits>>
    BY <1>2 DEF Silence
  <2> HIDE DEF new
  <2> QED BY <2>1, <2>2, OneRowStep
<1>3. CASE deleteDevice(d)
  <2> DEFINE new == [row[d] EXCEPT !.present = "deleted"]
  <2>1. new \in DeviceRow
    BY DEF DeviceRow
  <2>2. row' = [row EXCEPT ![d] = new]
        /\ UNCHANGED <<scanning, asked, marks, alerts, alert, failures, edits>>
    BY <1>3 DEF deleteDevice
  <2> HIDE DEF new
  <2> QED BY <2>1, <2>2, OneRowStep
<1>4. CASE MarkFails(d)
  <2>1. /\ marks' = [marks EXCEPT ![d] = @ - 1] /\ marks[d] > 0
        /\ failures' = failures + 1
        /\ UNCHANGED <<row, scanning, asked, alerts, alert, edits>>
    BY <1>4 DEF MarkFails, StatementFails
  <2>2. marks' \in [Devices -> Nat] /\ failures' \in Nat
    BY <2>1
  <2> QED BY <2>1, <2>2, RowStep
<1>5. ASSUME NEW s \in {0, 1}, createDevice(d, s) PROVE IInv' /\ Keeps
  <2> DEFINE new == [present |-> "yes", status |-> s, beat |-> "never"]
  <2>1. new \in DeviceRow
    BY DEF DeviceRow
  <2>2. row' = [row EXCEPT ![d] = new]
        /\ UNCHANGED <<scanning, asked, marks, alerts, alert, failures, edits>>
    BY <1>5 DEF createDevice
  <2> HIDE DEF new
  <2> QED BY <2>1, <2>2, OneRowStep
<1>6. ASSUME NEW s \in {0, 1}, updateDevice(d, s) PROVE IInv' /\ Keeps
  <2> DEFINE new == [row[d] EXCEPT !.status = s]
  <2>1. new \in DeviceRow
    BY DEF DeviceRow
  <2>2. row' = [row EXCEPT ![d] = new] /\ edits' = edits + 1
        /\ UNCHANGED <<scanning, asked, marks, alerts, alert, failures>>
    BY <1>6 DEF updateDevice
  <2>3. edits' \in Nat
    BY <2>2
  <2> HIDE DEF new
  <2> QED BY <2>1, <2>2, <2>3, OneRowStep
<1>7. CASE \E s \in {0, 1} : createDevice(d, s) \/ updateDevice(d, s)
  BY <1>5, <1>6, <1>7
<1> HIDE Types
<1> QED BY <1>1, <1>2, <1>3, <1>4, <1>7

LEMMA UserStep ==
  ASSUME IInv, NEW d \in Devices, NEW n, NEW u \in Users,
         acknowledgeAlert(d, n, u) \/ resolveAlert(d, n, u) \/ dismissAlert(d, n, u)
  PROVE  IInv' /\ Keeps
<1>1. n \in DOMAIN alert[d]
  BY DEF acknowledgeAlert, resolveAlert, dismissAlert, Handle
<1>2. alert[d][n] \in AlertRow
  BY <1>1 DEF IInv, TypeOK
<1>3. First(alert[d][n].by, u) \in Users \cup {Nobody}
      /\ (alert[d][n].by # Nobody => First(alert[d][n].by, u) = alert[d][n].by)
  BY <1>2 DEF First, AlertRow
<1>4. CASE acknowledgeAlert(d, n, u)
  <2> DEFINE new == [status |-> "acknowledged", by |-> u]
  <2>1. new \in AlertRow /\ new.status # "open" BY DEF AlertRow
  <2>2. alert[d][n].status = "open" /\ alert[d][n].by = Nobody
    BY <1>1, <1>4 DEF acknowledgeAlert, Handle, IInv, OpenInv
  <2> QED BY <1>1, <1>4, <2>1, <2>2, HandleStep DEF acknowledgeAlert, Handle
<1>5. CASE resolveAlert(d, n, u)
  <2> DEFINE new == [status |-> "resolved", by |-> First(alert[d][n].by, u)]
  <2>1. new \in AlertRow /\ new.status # "open" BY <1>3 DEF AlertRow
  <2>2. alert[d][n].status = "acknowledged"
    BY <1>5 DEF resolveAlert, Handle
  <2> QED BY <1>1, <1>3, <1>5, <2>1, <2>2, HandleStep DEF resolveAlert, Handle
<1>6. CASE dismissAlert(d, n, u)
  <2> DEFINE new == [status |-> "dismissed", by |-> First(alert[d][n].by, u)]
  <2>1. new \in AlertRow /\ new.status # "open" BY <1>3 DEF AlertRow
  <2>2. alert[d][n].status \in {"open", "acknowledged"}
    BY <1>6 DEF dismissAlert, Handle
  <2> QED BY <1>1, <1>3, <1>6, <2>1, <2>2, HandleStep DEF dismissAlert, Handle
<1> QED BY <1>4, <1>5, <1>6

LEMMA NextStep == ASSUME IInv, [Next]_vars PROVE IInv' /\ Keeps
<1>1. CASE UNCHANGED vars
  BY <1>1 DEF vars, device, alerts, sending, IInv, TypeOK, OpenInv, OneAlertPerOutage, OnTheWay,
     Keeps
<1>2. CASE Next
  BY <1>2, ScanStep, DeviceStep, AlertStep, SendStep, InsertedStep, UserStep DEF Next, Monitor
<1> QED BY <1>1, <1>2
-----------------------------------------------------------------------------
\* Rows, statements under way and alerts keep their types, for every number of
\* devices, instances and users (mq/DeviceMonitor.cc, services/IotService.cc).
THEOREM TypeCorrect == Spec => []TypeOK
<1>1. IInv => TypeOK BY DEF IInv
<1> QED BY <1>1, InitIInv, NextStep, PTL DEF Spec

\* Every row of iot_alerts is the one alert of a time the device was taken offline
\* or a copy that a repeated publication or delivery accounts for, and every alert
\* has its row, is on its way or was given up, for any number of instances that
\* scan at once and any statements, publications and connections that fail
\* (DeviceMonitor.cc:25-60, OutboxDispatcher.cc:79-104, AlertHandler.cc:38-76).
THEOREM OneAlert == Spec => []OneAlertPerOutage
<1>1. IInv => OneAlertPerOutage BY DEF IInv
<1> QED BY <1>1, InitIInv, NextStep, PTL DEF Spec

\* A handled alert keeps its first handler and a resolved or dismissed one its
\* end, for any users acting at once (IotService.cc:556-596).
THEOREM FirstHandler == Spec => FirstHandlerKept
<1>1. ASSUME IInv, [Next]_vars
      PROVE  [\A d \in Devices : \A n \in DOMAIN alert[d] :
                /\ alert[d][n].by # Nobody => alert'[d][n].by = alert[d][n].by
                /\ alert[d][n].status \in {"resolved", "dismissed"}
                     => alert'[d][n] = alert[d][n]]_vars
  BY <1>1, NextStep DEF Keeps
<1> QED BY <1>1, InitIInv, NextStep, PTL DEF Spec, FirstHandlerKept
-----------------------------------------------------------------------------
(* Induction and folds *)

\* Induction over the natural numbers, for a set instead of a predicate: a
\* smallest number outside the set would have a predecessor in it.
LEMMA NatSetInduction ==
  ASSUME NEW T, 0 \in T, \A n \in Nat : n \in T => n + 1 \in T
  PROVE  Nat \subseteq T
<1> DEFINE Less == {p \in Nat \X Nat : p[1] < p[2]}
           Out == Nat \ T
<1>1. IsWellFoundedOn(Less, Nat)
  BY NatLessThanWellFounded DEF OpToRel
<1>2. SUFFICES ASSUME Out # {} PROVE FALSE
  OBVIOUS
<1>3. PICK n \in Out : \A k \in Out : <<k, n>> \notin Less
  <2>1. Out \subseteq Nat
    OBVIOUS
  <2> HIDE DEF Less, Out
  <2> QED BY <1>1, <1>2, <2>1, WFMin
<1>4. n \in Nat /\ n # 0
  OBVIOUS
<1>5. n - 1 \in Nat /\ (n - 1) + 1 = n /\ n - 1 < n
  BY <1>4
<1>6. n - 1 \notin Out
  BY <1>3, <1>4, <1>5
<1> QED BY <1>5, <1>6

\* pick names an element of every non-empty subset of S.
Picks(pick, S) == \A A \in SUBSET S : A # {} => pick[A] \in A

\* h is the fold over the subsets of S from base, G taking in the element picked.
IsFold(h, S, base, pick, G) ==
  \A A \in SUBSET S : h[A] = IF A = {} THEN base ELSE G[<<A, h[A \ {pick[A]}]>>]

\* A subset is in P once what is left of it without its element picked is.
IsInductive(P, S, pick) ==
  \A A \in SUBSET S : A = {} \/ A \ {pick[A]} \in P => A \in P

\* A fold over a finite set exists: it is built up by the size of the subsets.
LEMMA FoldExists ==
  ASSUME NEW S, IsFiniteSet(S), NEW V, NEW base \in V,
         NEW pick, Picks(pick, S), NEW G \in [(SUBSET S) \X V -> V]
  PROVE  \E h \in [SUBSET S -> V] : IsFold(h, S, base, pick, G)
<1> USE DEF Picks
<1> DEFINE Small(n) == {A \in SUBSET S : Cardinality(A) <= n}
           Value(h, A) == IF A = {} THEN base ELSE G[<<A, h[A \ {pick[A]}]>>]
           T == {n \in Nat : \E h \in [Small(n) -> V] :
                               \A A \in Small(n) : h[A] = Value(h, A)}
<1>1. \A A \in SUBSET S : /\ IsFiniteSet(A)
                          /\ Cardinality(A) \in Nat
                          /\ A # {} => Cardinality(A) # 0 /\ Cardinality(A \ {pick[A]}) = Cardinality(A) - 1
  <2> TAKE A \in SUBSET S
  <2>1. IsFiniteSet(A)
    BY FS_Subset
  <2>2. A # {} => pick[A] \in A
    OBVIOUS
  <2> QED BY <2>1, <2>2, FS_CardinalityType, FS_EmptySet, FS_RemoveElement
<1>2. 0 \in T
  <2>1. ASSUME NEW A \in SUBSET S PROVE Cardinality(A) <= 0 <=> A = {}
    <3>1. A = {} => Cardinality(A) = 0
      BY FS_EmptySet
    <3>2. Cardinality(A) \in Nat /\ (A # {} => Cardinality(A) # 0)
      BY <1>1
    <3> QED BY <3>1, <3>2
  <2>2. \A A \in Small(0) : [B \in Small(0) |-> base][A] = Value([B \in Small(0) |-> base], A)
    BY <2>1
  <2>3. [B \in Small(0) |-> base] \in [Small(0) -> V]
    OBVIOUS
  <2> QED BY <2>2, <2>3
<1>3. ASSUME NEW n \in Nat, n \in T
      PROVE  n + 1 \in T
  <2>1. PICK g \in [Small(n) -> V] : \A A \in Small(n) : g[A] = Value(g, A)
    BY <1>3
  <2> DEFINE h == [A \in Small(n + 1) |-> Value(g, A)]
  <2>2. ASSUME NEW A \in Small(n + 1), A # {}
        PROVE  A \ {pick[A]} \in Small(n) /\ A \ {pick[A]} \in Small(n + 1)
    <3>1. A \ {pick[A]} \in SUBSET S
      OBVIOUS
    <3>2. Cardinality(A) \in Nat /\ Cardinality(A) <= n + 1
      BY <1>1
    <3>3. Cardinality(A \ {pick[A]}) = Cardinality(A) - 1
      BY <1>1, <2>2
    <3>4. Cardinality(A \ {pick[A]}) <= n /\ Cardinality(A \ {pick[A]}) <= n + 1
      BY <3>2, <3>3
    <3> QED BY <3>1, <3>4
  <2>3. \A A \in Small(n + 1) : Value(g, A) \in V
    BY <2>2
  <2>4. h \in [Small(n + 1) -> V]
    BY <2>3
  <2>5. ASSUME NEW A \in Small(n)
        PROVE  A \in Small(n + 1) /\ h[A] = g[A]
    <3>1. Cardinality(A) \in Nat /\ Cardinality(A) <= n
      BY <1>1
    <3>2. Cardinality(A) <= n + 1
      BY <3>1
    <3>3. A \in Small(n + 1)
      BY <3>2
    <3> QED BY <2>1, <3>3
  <2>6. \A A \in Small(n + 1) : h[A] = Value(h, A)
    <3> TAKE A \in Small(n + 1)
    <3>1. h[A] = Value(g, A)
      OBVIOUS
    <3>2. A # {} => h[A \ {pick[A]}] = g[A \ {pick[A]}]
      BY <2>2, <2>5
    <3> HIDE DEF h
    <3> QED BY <3>1, <3>2
  <2>7. \E f \in [Small(n + 1) -> V] : \A A \in Small(n + 1) : f[A] = Value(f, A)
    <3> HIDE DEF h, Small, Value
    <3> QED BY <2>4, <2>6
  <2>8. n + 1 \in Nat
    OBVIOUS
  <2> HIDE DEF h, Small, Value
  <2> QED BY <2>7, <2>8
<1>4. Cardinality(S) \in T
  <2> HIDE DEF T
  <2> QED BY <1>1, <1>2, <1>3, NatSetInduction
<1>5. Small(Cardinality(S)) = SUBSET S
  BY <1>1, FS_Subset
<1> QED BY <1>4, <1>5 DEF IsFold

\* What a fold's recursion carries from each subset to the next, all have.
LEMMA SubsetInduction ==
  ASSUME NEW S, IsFiniteSet(S), NEW P,
         NEW pick, Picks(pick, S), IsInductive(P, S, pick)
  PROVE  \A A \in SUBSET S : A \in P
<1> USE DEF Picks, IsInductive
<1> DEFINE Out == (SUBSET S) \ P
<1>1. SUFFICES ASSUME Out # {} PROVE FALSE
  OBVIOUS
<1>2. IsWellFoundedOn(StrictSubsetOrdering(S), SUBSET S)
  BY FS_StrictSubsetOrderingWellFounded, FS_FiniteSubsetsOfFinite
<1>3. PICK A \in Out : \A B \in Out : <<B, A>> \notin StrictSubsetOrdering(S)
  <2>1. Out \subseteq SUBSET S
    OBVIOUS
  <2> HIDE DEF Out
  <2> QED BY <1>1, <1>2, <2>1, WFMin
<1>4. A # {} /\ A \ {pick[A]} \notin P /\ A \in SUBSET S
  OBVIOUS
<1>5. A \ {pick[A]} \in Out
  BY <1>4
<1>6. <<A \ {pick[A]}, A>> \in StrictSubsetOrdering(S)
  BY <1>4 DEF StrictSubsetOrdering
<1> QED BY <1>3, <1>5, <1>6
-----------------------------------------------------------------------------
(* The frames of the collector *)

\* The sensors that were kept: their places in the list are distinct numbers.
Configured(s) ==
  /\ DOMAIN s \subseteq Nat
  /\ IsFiniteSet(DOMAIN s)
  /\ \A i \in DOMAIN s : s[i].register_addr \in Nat /\ s[i].words \in {1, 2}

\* What a uint16_t holds.
Word == 0 .. Space - 1

\* b says where in frame f of the sensors s each member's registers begin: one
\* after the other, and at the member's own address.
Laid(s, f, b) ==
  /\ b \in [DOMAIN f.members -> Nat]
  /\ f.members # <<>>
  /\ b[1] = 0
  /\ \A k \in DOMAIN f.members :
       /\ Offset(s[f.members[k]]) = (f.start + b[k]) % Space
       /\ IF k = Len(f.members) THEN b[k] + s[f.members[k]].words = f.quantity
          ELSE b[k] + s[f.members[k]].words = b[k + 1]
       /\ b[k] + s[f.members[k]].words <= f.quantity

FrameRow(s) == [start : Word, quantity : Nat, members : Seq(DOMAIN s)]
LaidFrame(s) == {f \in FrameRow(s) : \E b : Laid(s, f, b)}

LEMMA Modulo ==
  /\ \A a \in Int : a % Space \in Word
  /\ \A a \in Word : a % Space = a
<1>1. Space \in Nat \ {0}
  BY EdgeAssumption
<1> QED BY <1>1 DEF Word

LEMMA OffsetType ==
  ASSUME NEW s, Configured(s), NEW i \in DOMAIN s
  PROVE  Offset(s[i]) \in Word /\ s[i].words \in {1, 2}
<1>1. s[i].register_addr \in Nat /\ s[i].words \in {1, 2}
  BY DEF Configured
<1>2. s[i].register_addr - kRegisterBase \in Int
  BY <1>1, EdgeAssumption
<1> QED BY <1>1, <1>2, Modulo DEF Offset

\* A frame that begins with sensor i.
LEMMA FrameBegun ==
  ASSUME NEW s, Configured(s), NEW i \in DOMAIN s
  PROVE  [start |-> Offset(s[i]), quantity |-> s[i].words, members |-> <<i>>] \in LaidFrame(s)
<1> DEFINE f == [start |-> Offset(s[i]), quantity |-> s[i].words, members |-> <<i>>]
           b == [k \in {1} |-> 0]
<1>1. Offset(s[i]) \in Word /\ s[i].words \in {1, 2} /\ Word \subseteq Nat
  BY OffsetType, EdgeAssumption DEF Word
<1>2. f \in FrameRow(s)
  BY <1>1 DEF FrameRow
<1>3. Laid(s, f, b)
  <2>1. f.members = <<i>> /\ DOMAIN f.members = {1} /\ Len(f.members) = 1 /\ f.members[1] = i
    OBVIOUS
  <2>2. (Offset(s[i]) + 0) % Space = Offset(s[i])
    <3>1. PICK o \in Word : o = Offset(s[i])
      BY <1>1
    <3>2. o + 0 = o
      BY EdgeAssumption DEF Word
    <3> QED BY <3>1, <3>2, Modulo
  <2>3. b \in [DOMAIN f.members -> Nat] /\ b[1] = 0 /\ f.members # <<>>
    BY <2>1
  <2>4. ASSUME NEW k \in DOMAIN f.members
        PROVE  /\ Offset(s[f.members[k]]) = (f.start + b[k]) % Space
               /\ k = Len(f.members) /\ b[k] + s[f.members[k]].words = f.quantity
    <3>1. k = 1 /\ f.members[k] = i /\ b[k] = 0
      BY <2>1
    <3> QED BY <1>1, <2>1, <2>2, <3>1
  <2>5. f.quantity <= f.quantity
    BY <1>1
  <2> HIDE DEF f, b
  <2> QED BY <2>3, <2>4, <2>5 DEF Laid
<1> QED BY <1>2, <1>3 DEF LaidFrame

\* A frame that sensor i joins.
LEMMA FrameJoined ==
  ASSUME NEW s, Configured(s), NEW i \in DOMAIN s, NEW f \in LaidFrame(s),
         Joins(f, Offset(s[i]), s[i].words), NEW g,
         g = [start |-> f.start, quantity |-> f.quantity + s[i].words,
              members |-> Append(f.members, i)]
  PROVE  g \in LaidFrame(s)
<1> DEFINE n == Len(f.members)
           w == s[i].words
<1>1. f \in FrameRow(s) /\ f.start \in Word /\ f.quantity \in Nat /\ f.members \in Seq(DOMAIN s)
  BY DEF LaidFrame, FrameRow
<1>2. PICK b : Laid(s, f, b)
  BY DEF LaidFrame
<1>3. w \in {1, 2} /\ Offset(s[i]) = (f.start + f.quantity) % Space
  BY OffsetType DEF Joins
<1>4. g \in FrameRow(s)
  BY <1>1, <1>3 DEF FrameRow
<1> DEFINE c == [k \in 1 .. n + 1 |-> IF k = n + 1 THEN f.quantity ELSE b[k]]
<1>5. /\ DOMAIN f.members = 1 .. n /\ DOMAIN g.members = 1 .. n + 1 /\ n \in Nat \ {0}
      /\ Len(g.members) = n + 1 /\ g.members[n + 1] = i
      /\ \A k \in 1 .. n : g.members[k] = f.members[k]
  <2>1. f.members # <<>>
    BY <1>2 DEF Laid
  <2>2. g.members = Append(f.members, i)
    OBVIOUS
  <2> QED BY <1>1, <2>1, <2>2
<1>6. \A k \in 1 .. n : b[k] \in Nat /\ s[f.members[k]].words \in {1, 2}
  <2> TAKE k \in 1 .. n
  <2>1. b \in [1 .. n -> Nat]
    BY <1>2, <1>5 DEF Laid
  <2>2. f.members[k] \in DOMAIN s
    BY <1>1, <1>5
  <2> QED BY <2>1, <2>2, OffsetType
<1>7. ASSUME NEW k \in DOMAIN g.members
      PROVE  /\ Offset(s[g.members[k]]) = (g.start + c[k]) % Space
             /\ IF k = Len(g.members) THEN c[k] + s[g.members[k]].words = g.quantity
                ELSE c[k] + s[g.members[k]].words = c[k + 1]
             /\ c[k] + s[g.members[k]].words <= g.quantity
  <2>1. CASE k = n + 1
    BY <1>1, <1>3, <1>5, <2>1
  <2>2. CASE k \in 1 .. n
    <3>1. c[k] = b[k] /\ k # n + 1
      BY <1>5, <2>2
    <3>2. c[k + 1] = IF k = n THEN f.quantity ELSE b[k + 1]
      BY <1>5, <2>2
    <3>3. /\ Offset(s[f.members[k]]) = (f.start + b[k]) % Space
          /\ IF k = n THEN b[k] + s[f.members[k]].words = f.quantity
             ELSE b[k] + s[f.members[k]].words = b[k + 1]
          /\ b[k] + s[f.members[k]].words <= f.quantity
      BY <1>2, <1>5, <2>2 DEF Laid
    <3>4. g.members[k] = f.members[k] /\ Len(g.members) = n + 1 /\ g.start = f.start
          /\ g.quantity = f.quantity + w
      BY <1>5, <2>2
    <3>5. n \in Nat /\ k \in Nat /\ k <= n /\ f.quantity \in Nat /\ b[k] \in Nat
          /\ s[f.members[k]].words \in Nat /\ w \in Nat
      <4>1. n \in Nat /\ k \in Nat /\ k <= n
        BY <1>5, <2>2
      <4>2. b[k] \in Nat /\ s[f.members[k]].words \in Nat
        BY <1>6, <2>2
      <4> QED BY <1>1, <1>3, <4>1, <4>2
    <3>6. Offset(s[g.members[k]]) = (g.start + c[k]) % Space
      BY <3>1, <3>3, <3>4
    <3>7. CASE k = n
      <4>1. b[k] + s[f.members[k]].words = f.quantity
        BY <3>3, <3>7
      <4>2. c[k] + s[g.members[k]].words = c[k + 1]
        BY <3>1, <3>2, <3>4, <3>7, <4>1
      <4>3. f.quantity <= f.quantity + w
        BY <3>5
      <4>4. c[k] + s[g.members[k]].words <= g.quantity
        BY <3>1, <3>4, <4>1, <4>3
      <4> QED BY <3>1, <3>4, <3>6, <4>2, <4>4
    <3>8. CASE k # n
      <4>1. c[k] + s[g.members[k]].words = c[k + 1]
        BY <3>1, <3>2, <3>3, <3>4, <3>8
      <4> DEFINE x == b[k] + s[f.members[k]].words
      <4>2. x \in Nat /\ x <= f.quantity
        BY <3>3, <3>5
      <4>3. c[k] + s[g.members[k]].words = x
        BY <3>1, <3>4
      <4>4. c[k] + s[g.members[k]].words <= g.quantity
        <5> HIDE DEF x
        <5> QED BY <3>4, <3>5, <4>2, <4>3
      <4> QED BY <3>1, <3>4, <3>6, <4>1, <4>4
    <3> QED BY <3>7, <3>8
  <2> QED BY <1>5, <2>1, <2>2
<1>8. c \in [DOMAIN g.members -> Nat] /\ c[1] = 0 /\ g.members # <<>>
  <2>1. c \in [DOMAIN g.members -> Nat]
    BY <1>1, <1>5, <1>6
  <2>2. b[1] = 0
    BY <1>2 DEF Laid
  <2>3. c[1] = 0
    BY <1>5, <2>2
  <2>4. g.members # <<>>
    BY <1>5
  <2> QED BY <2>1, <2>3, <2>4
<1>9. Laid(s, g, c)
  <2> HIDE DEF c
  <2> QED BY <1>7, <1>8 DEF Laid
<1> QED BY <1>4, <1>9 DEF LaidFrame

\* Taking one more sensor in keeps the frames laid out.
LEMMA MergedLaid ==
  ASSUME NEW s, Configured(s), NEW i \in DOMAIN s, NEW fs \in Seq(LaidFrame(s))
  PROVE  Merged(s, fs, i) \in Seq(LaidFrame(s))
<1>1. CASE fs # <<>> /\ Joins(Last(fs), Offset(s[i]), s[i].words)
  <2> DEFINE n == Len(fs)
             f == fs[n]
             g == [start |-> f.start, quantity |-> f.quantity + s[i].words,
                   members |-> Append(f.members, i)]
  <2>1. n \in DOMAIN fs /\ f \in LaidFrame(s) /\ Last(fs) = f
    BY <1>1 DEF Last
  <2>2. Merged(s, fs, i) = [fs EXCEPT ![n] = g]
    BY <1>1, <2>1 DEF Merged
  <2>3. g \in LaidFrame(s)
    <3> HIDE DEF f
    <3> QED BY <1>1, <2>1, FrameJoined
  <2> HIDE DEF f, g
  <2> QED BY <2>1, <2>2, <2>3
<1>2. CASE ~(fs # <<>> /\ Joins(Last(fs), Offset(s[i]), s[i].words))
  <2>1. Merged(s, fs, i)
          = Append(fs, [start |-> Offset(s[i]), quantity |-> s[i].words, members |-> <<i>>])
    BY <1>2 DEF Merged
  <2> QED BY <2>1, FrameBegun
<1> QED BY <1>1, <1>2

\* j is sorted before i.
Precedes(s, j, i) ==
  \/ s[j].register_addr < s[i].register_addr
  \/ s[j].register_addr = s[i].register_addr /\ j < i

LEMMA Sorted ==
  ASSUME NEW s, Configured(s)
  PROVE  /\ \A i, j \in DOMAIN s : i = j \/ Precedes(s, i, j) \/ Precedes(s, j, i)
         /\ \A i, j, k \in DOMAIN s : Precedes(s, i, j) /\ Precedes(s, j, k) => Precedes(s, i, k)
<1>1. \A i \in DOMAIN s : i \in Nat /\ s[i].register_addr \in Nat
  BY DEF Configured
<1> QED BY <1>1 DEF Precedes

\* Sensors to be sorted have a last one.
LEMMA LastExists ==
  ASSUME NEW s, Configured(s), NEW A \in SUBSET DOMAIN s, A # {}
  PROVE  LastSorted(s, A) \in A
<1> DEFINE S == DOMAIN s
           P == {B \in SUBSET S : B = {} \/ \E i \in B : \A j \in B \ {i} : Precedes(s, j, i)}
           pick == [B \in SUBSET S |-> CHOOSE x \in B : TRUE]
<1>1. IsFiniteSet(S)
  BY DEF Configured
<1>2. Picks(pick, S)
  BY DEF Picks
<1>3. ASSUME NEW B \in SUBSET S, B = {} \/ B \ {pick[B]} \in P
      PROVE  B \in P
  <2>1. CASE B = {}
    BY <2>1
  <2>2. CASE B # {}
    <3>1. PICK x \in B : x = pick[B]
      BY <2>2
    <3>2. B \ {x} \in P
      BY <1>3, <2>2, <3>1
    <3>3. CASE B \ {x} = {}
      BY <3>3
    <3>4. CASE B \ {x} # {}
      <4>1. PICK i \in B \ {x} : \A j \in (B \ {x}) \ {i} : Precedes(s, j, i)
        BY <3>2, <3>4
      <4>2. CASE Precedes(s, x, i)
        <5>1. \A j \in B \ {i} : Precedes(s, j, i)
          BY <4>1, <4>2
        <5> QED BY <4>1, <5>1
      <4>3. CASE Precedes(s, i, x)
        <5>1. \A j \in B \ {x} : Precedes(s, j, x)
          BY <4>1, <4>3, Sorted
        <5> QED BY <5>1
      <4> QED BY <4>1, <4>2, <4>3, Sorted
    <3> QED BY <3>3, <3>4
  <2> QED BY <2>1, <2>2
<1>4. A \in P
  <2>1. IsInductive(P, S, pick)
    BY <1>3 DEF IsInductive
  <2> HIDE DEF P, pick, S
  <2>2. \A B \in SUBSET S : B \in P
    BY <1>1, <1>2, <2>1, SubsetInduction
  <2> QED BY <2>2 DEF S
<1>5. \E i \in A : \A j \in A \ {i} : Precedes(s, j, i)
  BY <1>4
<1> QED BY <1>5 DEF LastSorted, Precedes

\* The frames of the sensors of the device are laid out: the merge is a fold
\* whose every step keeps them so.
LEMMA FramesLaid ==
  ASSUME NEW s, Configured(s)
  PROVE  mergeFrames(s) \in Seq(LaidFrame(s))
<1> DEFINE S == DOMAIN s
           V == Seq(LaidFrame(s))
           pick == [A \in SUBSET S |-> LastSorted(s, A)]
           G == [p \in (SUBSET S) \X V |-> IF p[1] = {} THEN <<>> ELSE Merged(s, p[2], pick[p[1]])]
           iter == CHOOSE g : g = [A \in SUBSET S |-> IF A = {} THEN <<>>
                       ELSE Merged(s, g[A \ {LastSorted(s, A)}], LastSorted(s, A))]
<1>1. IsFiniteSet(S) /\ <<>> \in V
  BY DEF Configured
<1>2. Picks(pick, S)
  BY LastExists DEF Picks
<1>3. ASSUME NEW A \in SUBSET S, NEW fs \in V, A # {}
      PROVE  Merged(s, fs, pick[A]) \in V
  <2>1. pick[A] \in S
    <3> HIDE DEF pick
    <3> QED BY <1>2, <1>3 DEF Picks
  <2> HIDE DEF pick
  <2> QED BY <2>1, MergedLaid
<1>4. G \in [(SUBSET S) \X V -> V]
  <2> HIDE DEF pick, V, S
  <2> QED BY <1>1, <1>3
<1>5. PICK h \in [SUBSET S -> V] : IsFold(h, S, <<>>, pick, G)
  <2> HIDE DEF pick, G, V, S
  <2> QED BY <1>1, <1>2, <1>4, FoldExists
<1>6. ASSUME NEW A \in SUBSET S
      PROVE  h[A] = IF A = {} THEN <<>> ELSE Merged(s, h[A \ {pick[A]}], pick[A])
  <2>1. h[A \ {pick[A]}] \in V
    <3> HIDE DEF pick, G, V
    <3> QED OBVIOUS
  <2>2. A # {} => G[<<A, h[A \ {pick[A]}]>>] = Merged(s, h[A \ {pick[A]}], pick[A])
    <3> HIDE DEF pick, V, S
    <3> QED BY <2>1
  <2> HIDE DEF pick, V, S, G
  <2> QED BY <1>5, <2>2 DEF IsFold
<1>7. h = [A \in SUBSET S |-> IF A = {} THEN <<>>
               ELSE Merged(s, h[A \ {LastSorted(s, A)}], LastSorted(s, A))]
  <2>1. h = [A \in SUBSET S |-> IF A = {} THEN <<>> ELSE Merged(s, h[A \ {pick[A]}], pick[A])]
    <3> HIDE DEF pick, V, S
    <3> QED BY <1>6
  <2>2. \A A \in SUBSET S : pick[A] = LastSorted(s, A)
    OBVIOUS
  <2> HIDE DEF pick, V, S
  <2> QED BY <2>1, <2>2
<1>8. iter = [A \in SUBSET S |-> IF A = {} THEN <<>>
               ELSE Merged(s, iter[A \ {LastSorted(s, A)}], LastSorted(s, A))]
  <2> HIDE DEF S, V
  <2> QED BY <1>7
<1>9. mergeFrames(s) = iter[S]
  BY DEF mergeFrames, MapThenFoldSet
<1>10. S \in {A \in SUBSET S : iter[A] \in V}
  <2> DEFINE P == {A \in SUBSET S : iter[A] \in V}
  <2>1. ASSUME NEW A \in SUBSET S, A = {} \/ A \ {pick[A]} \in P
        PROVE  A \in P
    <3>1. CASE A = {}
      <4> HIDE DEF iter, V
      <4> QED BY <1>1, <1>8, <3>1
    <3>2. CASE A # {}
      <4>1. iter[A \ {pick[A]}] \in V
        <5> HIDE DEF iter, V, pick
        <5> QED BY <2>1, <3>2
      <4>2. iter[A] = Merged(s, iter[A \ {pick[A]}], pick[A])
        <5>1. pick[A] = LastSorted(s, A)
          OBVIOUS
        <5> HIDE DEF iter, V, pick
        <5> QED BY <1>8, <3>2, <5>1
      <4> HIDE DEF iter, V, pick
      <4> QED BY <1>3, <3>2, <4>1, <4>2
    <3> QED BY <3>1, <3>2
  <2>2. IsInductive(P, S, pick)
    <3> HIDE DEF P, pick, S
    <3> QED BY <2>1 DEF IsInductive
  <2>3. S \in SUBSET S
    OBVIOUS
  <2> HIDE DEF P, pick, S
  <2>4. \A A \in SUBSET S : A \in P
    BY <1>1, <1>2, <2>2, SubsetInduction
  <2> QED BY <2>3, <2>4 DEF P
<1> HIDE DEF iter, S
<1> QED BY <1>9, <1>10
-----------------------------------------------------------------------------
(* The poller, its connection and the device *)

Register == [address : Nat, round : Nat]
Reading == [round : Nat, sensor : Nat, frame : Nat, value : Seq(Register) \ {<<>>}]
Request == [txn : Word, start : Nat, quantity : Nat]
Answer == [txn : Word, data : Seq(Register)]
Position == [frame : Nat, member : Nat, offset : Nat]

PollerTypes ==
  /\ Configured(sensors)
  /\ pc \in {"top", "connect", "send", "receive", "split"}
  /\ at \in Position
  /\ txn \in Word /\ round \in Nat
  /\ request \in Seq(Request) /\ wire \in Seq(Answer)

\* a is at a member of a frame, and where its registers begin.
Located(s, a) ==
  /\ a.frame \in DOMAIN mergeFrames(s)
  /\ a.member \in DOMAIN mergeFrames(s)[a.frame].members
  /\ \E b : Laid(s, mergeFrames(s)[a.frame], b) /\ a.offset = b[a.member]

LocatedInv ==
  pc \in {"send", "receive", "split"} =>
    Located(sensors, at) /\ (pc # "split" => at.member = 1)

\* The transaction that was begun last, and the one before it.
Successor(t) == (t + 1) % Space
Expected(t) == Successor(t) = txn
Overdue(t) == Successor(Successor(t)) = txn

\* What the request of this frame is answered with.
Content == Read([start |-> Frame.start, quantity |-> Frame.quantity])

\* While no answer is awaited, the connection holds the rest of the last
\* transaction only.
QuietInv ==
  pc # "receive" =>
    /\ \A i \in DOMAIN wire : Expected(wire[i].txn)
    /\ \A i \in DOMAIN request : Expected(request[i].txn)

\* While one is awaited, what is left of the transaction before it comes first,
\* and what belongs to it is about this frame.
AwaitInv ==
  pc = "receive" =>
    /\ \A i \in DOMAIN wire : Expected(wire[i].txn) \/ Overdue(wire[i].txn)
    /\ \A i \in DOMAIN request : Expected(request[i].txn) \/ Overdue(request[i].txn)
    /\ \A i, j \in DOMAIN wire : i < j /\ Expected(wire[i].txn) => Expected(wire[j].txn)
    /\ \A i, j \in DOMAIN request :
         i < j /\ Expected(request[i].txn) => Expected(request[j].txn)
    /\ \A i \in DOMAIN wire, j \in DOMAIN request :
         Expected(wire[i].txn) => Expected(request[j].txn)
    /\ \A i \in DOMAIN request : Expected(request[i].txn) =>
         request[i].start = Frame.start /\ request[i].quantity = Frame.quantity
    /\ \A i \in DOMAIN wire : Expected(wire[i].txn) =>
         wire[i].data = <<>> \/ wire[i].data = Content

SplitInv == pc = "split" => registers = Content /\ registers # <<>>

PollerInv == PollerTypes /\ LocatedInv /\ QuietInv /\ AwaitInv /\ SplitInv

LEMMA Successors ==
  ASSUME NEW t \in Word
  PROVE  Successor(t) \in Word /\ Successor(t) # t
<1>1. Space \in Nat /\ Space > 1
  BY EdgeAssumption
<1>2. CASE t + 1 = Space
  <2>1. Successor(t) = 0
    BY <1>1, <1>2 DEF Successor
  <2> QED BY <1>1, <1>2, <2>1 DEF Word
<1>3. CASE t + 1 < Space
  <2>1. Successor(t) = t + 1
    BY <1>1, <1>3 DEF Successor, Word
  <2> QED BY <1>1, <1>3, <2>1 DEF Word
<1> QED BY <1>1, <1>2, <1>3 DEF Word

LEMMA SeqAppend ==
  ASSUME NEW R, NEW q \in Seq(R), NEW e \in R
  PROVE  /\ Append(q, e) \in Seq(R)
         /\ \A i \in DOMAIN Append(q, e) :
              \/ i \in DOMAIN q /\ Append(q, e)[i] = q[i]
              \/ i = Len(q) + 1 /\ Append(q, e)[i] = e
         /\ \A i \in DOMAIN q : i < Len(q) + 1
OBVIOUS

LEMMA SeqTail ==
  ASSUME NEW R, NEW q \in Seq(R), q # <<>>
  PROVE  /\ Tail(q) \in Seq(R)
         /\ 1 \in DOMAIN q /\ Head(q) = q[1] /\ q[1] \in R
         /\ \A i \in DOMAIN Tail(q) : i + 1 \in DOMAIN q /\ Tail(q)[i] = q[i + 1] /\ 1 < i + 1
         /\ \A i, j \in DOMAIN Tail(q) : i < j => i + 1 < j + 1
OBVIOUS

LEMMA FrameFacts ==
  ASSUME NEW s, Configured(s), NEW n \in DOMAIN mergeFrames(s), NEW f, f = mergeFrames(s)[n]
  PROVE  /\ f.start \in Word /\ f.start \in Nat /\ f.quantity \in Nat \ {0}
         /\ f.members \in Seq(DOMAIN s) /\ 1 \in DOMAIN f.members
         /\ \E b : Laid(s, f, b)
<1>1. f \in LaidFrame(s)
  BY FramesLaid
<1>2. PICK b : Laid(s, f, b)
  BY <1>1 DEF LaidFrame
<1>3. f.start \in Word /\ f.quantity \in Nat /\ f.members \in Seq(DOMAIN s)
  BY <1>1 DEF LaidFrame, FrameRow
<1>4. 1 \in DOMAIN f.members
  BY <1>2, <1>3 DEF Laid
<1>5. f.members[1] \in DOMAIN s
  BY <1>3, <1>4
<1>6. s[f.members[1]].words \in {1, 2}
  BY <1>5, OffsetType
<1>7. b[1] = 0 /\ b[1] + s[f.members[1]].words <= f.quantity
  BY <1>2, <1>4 DEF Laid
<1>8. f.quantity # 0
  BY <1>3, <1>6, <1>7
<1>9. f.start \in Nat
  BY <1>3, EdgeAssumption DEF Word
<1> QED BY <1>2, <1>3, <1>4, <1>8, <1>9

LEMMA LocatedFirst ==
  ASSUME NEW s, Configured(s), NEW n \in DOMAIN mergeFrames(s)
  PROVE  Located(s, [frame |-> n, member |-> 1, offset |-> 0])
<1> DEFINE f == mergeFrames(s)[n]
<1>1. 1 \in DOMAIN f.members /\ \E b : Laid(s, f, b)
  BY FrameFacts
<1>2. PICK b : Laid(s, f, b)
  BY <1>1
<1>3. b[1] = 0
  BY <1>2 DEF Laid
<1> QED BY <1>1, <1>2, <1>3 DEF Located

LEMMA LocatedNext ==
  ASSUME NEW s, Configured(s), NEW a \in Position, Located(s, a), NEW f,
         f = mergeFrames(s)[a.frame], a.member < Len(f.members)
  PROVE  LET c == [frame |-> a.frame, member |-> a.member + 1,
                   offset |-> a.offset + s[f.members[a.member]].words]
         IN Located(s, c) /\ c \in Position
<1> DEFINE w == s[f.members[a.member]].words
           c == [frame |-> a.frame, member |-> a.member + 1, offset |-> a.offset + w]
<1>1. f.members \in Seq(DOMAIN s) /\ a.frame \in DOMAIN mergeFrames(s) /\ a.member \in DOMAIN f.members
  BY FrameFacts DEF Located
<1>2. PICK b : Laid(s, f, b) /\ a.offset = b[a.member]
  BY DEF Located
<1>3. w \in Nat
  BY <1>1, OffsetType
<1>4. c \in Position
  <2>1. a.frame \in Nat /\ a.member \in Nat /\ a.offset \in Nat
    BY DEF Position
  <2> HIDE DEF w
  <2> QED BY <1>3, <2>1 DEF Position
<1>5. a.member # Len(f.members) /\ a.member + 1 \in DOMAIN f.members
  BY <1>1
<1>6. b[a.member] + w = b[a.member + 1]
  BY <1>1, <1>2, <1>5 DEF Laid
<1>7. Located(s, c)
  BY <1>1, <1>2, <1>5, <1>6 DEF Located
<1> QED BY <1>4, <1>7

LEMMA Loaded ==
  ASSUME NEW list \in SensorLists
  PROVE  Configured(loadConfig(list))
<1> DEFINE Sensor == [register_addr : Nat, words : {1, 2}, parses : BOOLEAN]
<1>1. list \in Seq(Sensor)
  BY EdgeAssumption
<1>2. DOMAIN list = 1 .. Len(list) /\ Len(list) \in Nat
      /\ \A i \in DOMAIN list : list[i].register_addr \in Nat /\ list[i].words \in {1, 2}
  <2>1. \A r \in Sensor : r.register_addr \in Nat /\ r.words \in {1, 2}
    OBVIOUS
  <2> HIDE DEF Sensor
  <2>2. DOMAIN list = 1 .. Len(list) /\ Len(list) \in Nat /\ \A i \in DOMAIN list : list[i] \in Sensor
    BY <1>1
  <2> QED BY <2>1, <2>2
<1>3. IsFiniteSet(DOMAIN list)
  BY <1>2, FS_Interval
<1>4. CASE loadConfig(list) = <<>>
  <2>1. DOMAIN loadConfig(list) = {}
    BY <1>4
  <2> QED BY <2>1, FS_EmptySet DEF Configured
<1>5. CASE loadConfig(list) # <<>>
  <2> DEFINE kept == {i \in DOMAIN list : list[i].register_addr > 0}
  <2>1. loadConfig(list) = [i \in kept |-> list[i]]
    BY <1>5 DEF loadConfig, RestrictValues, Restrict
  <2>2. IsFiniteSet(kept)
    BY <1>3, FS_Subset
  <2> QED BY <1>2, <2>1, <2>2 DEF Configured
<1> QED BY <1>4, <1>5

LEMMA PollerStarts == EdgeInit => PollerInv
<1> SUFFICES ASSUME EdgeInit PROVE PollerInv
  OBVIOUS
<1>1. Configured(sensors)
  BY Loaded DEF EdgeInit
<1>2. 1 \in Word
  BY EdgeAssumption DEF Word
<1>3. PollerTypes
  BY <1>1, <1>2 DEF EdgeInit, PollerTypes, Position
<1> QED BY <1>3 DEF EdgeInit, PollerInv, LocatedInv, QuietInv, AwaitInv, SplitInv

\* Actions of other threads leave the poller as it is.
LEMMA PollerStill ==
  ASSUME PollerInv,
         UNCHANGED <<sensors, pc, at, round, txn, request, wire, registers>>
  PROVE  PollerInv'
BY DEF PollerInv, PollerTypes, LocatedInv, QuietInv, AwaitInv, SplitInv, Expected, Overdue,
       Content, Frame, Frames, Read

\* A step between two reads: nothing is asked or answered.
LEMMA PollerBetween ==
  ASSUME PollerInv, pc # "receive", pc' # "receive", pc' # "split",
         UNCHANGED <<sensors, txn, request, wire>>,
         pc' \in {"top", "connect", "send"}, at' \in Position, round' \in Nat, LocatedInv'
  PROVE  PollerInv'
BY DEF PollerInv, PollerTypes, QuietInv, AwaitInv, SplitInv, Expected

LEMMA PollerBegins ==
  ASSUME PollerInv, BeginRound
  PROVE  PollerInv'
<1>1. Configured(sensors) /\ round \in Nat
  BY DEF PollerInv, PollerTypes
<1>2. Frames \in Seq(LaidFrame(sensors))
  BY <1>1, FramesLaid DEF Frames
<1>3. Frames # <<>> => 1 \in DOMAIN mergeFrames(sensors)
  BY <1>2 DEF Frames
<1>4. at' = [frame |-> 1, member |-> 1, offset |-> 0] /\ sensors' = sensors
      /\ round' = round + 1 /\ pc' = IF Frames = <<>> THEN "top" ELSE "send"
  BY DEF BeginRound
<1>5. LocatedInv'
  BY <1>1, <1>3, <1>4, LocatedFirst DEF LocatedInv
<1>6. at' \in Position
  BY <1>4 DEF Position
<1> QED BY <1>1, <1>4, <1>5, <1>6, PollerBetween DEF BeginRound

LEMMA PollerSends ==
  ASSUME PollerInv, Send
  PROVE  PollerInv'
<1> DEFINE e == [txn |-> txn, start |-> Frame.start, quantity |-> Frame.quantity]
<1>1. PollerTypes /\ Located(sensors, at) /\ at.member = 1
  BY DEF PollerInv, LocatedInv, Send
<1>2. Frame.start \in Nat /\ Frame.quantity \in Nat
  BY <1>1, FrameFacts DEF PollerTypes, Located, Frame, Frames
<1>3. e \in Request /\ txn \in Word /\ Successor(txn) \in Word /\ Successor(txn) # txn
  BY <1>1, <1>2, Successors DEF PollerTypes, Request
<1>4. /\ txn' = Successor(txn) /\ request' = Append(request, e) /\ pc = "send" /\ pc' = "receive"
      /\ UNCHANGED <<sensors, at, round, wire, registers>>
  BY DEF Send, Successor
<1>5. /\ request' \in Seq(Request)
      /\ \A i \in DOMAIN request' :
           \/ i \in DOMAIN request /\ request'[i] = request[i]
           \/ i = Len(request) + 1 /\ request'[i] = e
      /\ \A i \in DOMAIN request : i < Len(request) + 1
  BY <1>1, <1>3, <1>4, SeqAppend DEF PollerTypes
<1>6. PollerTypes'
  BY <1>1, <1>3, <1>4, <1>5 DEF PollerTypes
<1>7. LocatedInv'
  BY <1>1, <1>4 DEF LocatedInv
<1>8. /\ \A i \in DOMAIN wire : Successor(wire[i].txn) = txn
      /\ \A i \in DOMAIN request : Successor(request[i].txn) = txn
  BY <1>4 DEF PollerInv, QuietInv, Expected
<1>9. Frame' = Frame
  BY <1>4 DEF Frame, Frames
<1>10. e.txn = txn /\ e.start = Frame.start /\ e.quantity = Frame.quantity
  OBVIOUS
<1>11. AwaitInv'
  <2>1. /\ \A i \in DOMAIN wire : ~Expected(wire[i].txn)' /\ Overdue(wire[i].txn)'
        /\ \A i \in DOMAIN request : ~(Successor(request[i].txn) = txn')
                                     /\ Successor(Successor(request[i].txn)) = txn'
    BY <1>3, <1>4, <1>8 DEF Expected, Overdue
  <2> HIDE DEF e
  <2>2. \A i \in DOMAIN request' :
          \/ ~Expected(request[i].txn)' /\ Overdue(request[i].txn)' /\ i < Len(request) + 1
          \/ i = Len(request) + 1 /\ request'[i] = e /\ Expected(request[i].txn)'
    BY <1>4, <1>5, <1>10, <2>1 DEF Expected, Overdue
  <2> QED BY <1>4, <1>5, <1>9, <1>10, <2>1, <2>2 DEF AwaitInv
<1>12. QuietInv' /\ SplitInv'
  BY <1>4 DEF QuietInv, SplitInv
<1> QED BY <1>6, <1>7, <1>11, <1>12 DEF PollerInv

LEMMA PollerReceives ==
  ASSUME PollerInv, Receive
  PROVE  PollerInv'
<1>1. PollerTypes /\ Located(sensors, at) /\ at.member = 1 /\ wire # <<>>
  BY DEF PollerInv, LocatedInv, Receive
<1>2. /\ wire' = Tail(wire) /\ pc = "receive" /\ pc' = "split"
      /\ Successor(Head(wire).txn) = txn /\ Len(Head(wire).data) = Frame.quantity
      /\ registers' = Head(wire).data
      /\ UNCHANGED <<sensors, at, round, txn, request>>
  BY DEF Receive, Successor
<1>3. /\ wire' \in Seq(Answer) /\ 1 \in DOMAIN wire /\ Head(wire) = wire[1]
      /\ \A i \in DOMAIN wire' : i + 1 \in DOMAIN wire /\ wire'[i] = wire[i + 1] /\ 1 < i + 1
  BY <1>1, <1>2, SeqTail DEF PollerTypes
<1>4. /\ \A j \in DOMAIN wire : 1 < j => Expected(wire[j].txn)
      /\ \A j \in DOMAIN request : Expected(request[j].txn)
      /\ wire[1].data = <<>> \/ wire[1].data = Content
  BY <1>2, <1>3 DEF PollerInv, AwaitInv, Expected
<1>5. QuietInv'
  BY <1>2, <1>3, <1>4 DEF QuietInv, Expected
<1>6. Frame.quantity \in Nat \ {0}
  BY <1>1, FrameFacts DEF PollerTypes, Located, Frame, Frames
<1>7. wire[1].data # <<>>
  BY <1>2, <1>3, <1>6
<1>8. Content' = Content
  BY <1>2 DEF Content, Frame, Frames, Read
<1>9. SplitInv'
  BY <1>2, <1>3, <1>4, <1>7, <1>8 DEF SplitInv
<1>10. PollerTypes' /\ LocatedInv' /\ AwaitInv'
  BY <1>1, <1>2, <1>3 DEF PollerTypes, LocatedInv, AwaitInv
<1> QED BY <1>5, <1>9, <1>10 DEF PollerInv

LEMMA PollerSplits ==
  ASSUME PollerInv, Split
  PROVE  PollerInv'
<1>1. /\ PollerTypes /\ Located(sensors, at) /\ Configured(sensors) /\ at \in Position
      /\ Frame = mergeFrames(sensors)[at.frame] /\ pc = "split"
      /\ UNCHANGED <<sensors, round, txn, request, wire, registers>>
  BY DEF PollerInv, PollerTypes, LocatedInv, Split, Frame, Frames
<1>2. CASE at.member < Len(Frame.members) /\ UNCHANGED pc
           /\ at' = [frame |-> at.frame, member |-> at.member + 1,
                     offset |-> at.offset + sensors[Polled].words]
  <2>1. Located(sensors, at') /\ at' \in Position /\ at'.frame = at.frame
    BY <1>1, <1>2, LocatedNext DEF Polled
  <2>2. Content' = Content
    BY <1>1, <2>1 DEF Content, Frame, Frames, Read
  <2>3. SplitInv'
    BY <1>1, <1>2, <2>2 DEF PollerInv, SplitInv
  <2>4. QuietInv' /\ AwaitInv'
    BY <1>1, <1>2 DEF PollerInv, QuietInv, AwaitInv, Expected
  <2>5. PollerTypes' /\ LocatedInv'
    BY <1>1, <1>2, <2>1 DEF PollerTypes, LocatedInv
  <2> QED BY <2>3, <2>4, <2>5 DEF PollerInv
<1>3. CASE at.frame < Len(Frames) /\ pc' = "send"
           /\ at' = [frame |-> at.frame + 1, member |-> 1, offset |-> 0]
  <2>1. at.frame + 1 \in DOMAIN mergeFrames(sensors) /\ at.frame + 1 \in Nat
    BY <1>1, <1>3, FramesLaid DEF Located, Frames
  <2>2. Located(sensors, at') /\ at'.member = 1 /\ at' \in Position
    BY <1>1, <1>3, <2>1, LocatedFirst DEF Position
  <2>3. LocatedInv'
    BY <1>1, <2>2 DEF LocatedInv
  <2>4. round' \in Nat /\ pc # "receive" /\ pc' # "receive" /\ pc' # "split"
    BY <1>1, <1>3 DEF PollerTypes
  <2> QED BY <1>1, <1>3, <2>2, <2>3, <2>4, PollerBetween
<1>4. CASE pc' = "top" /\ UNCHANGED at
  BY <1>1, <1>4, PollerBetween DEF PollerTypes, LocatedInv
<1> QED BY <1>2, <1>3, <1>4 DEF Split

\* disconnect() and the end of the process leave nothing on the connection.
LEMMA PollerLeaves ==
  ASSUME PollerInv, pc' = "top", request' = <<>>, wire' = <<>>, UNCHANGED <<sensors, round>>,
         at' \in Position, txn' \in Word
  PROVE  PollerInv'
BY DEF PollerInv, PollerTypes, LocatedInv, QuietInv, AwaitInv, SplitInv

LEMMA PollerEnds ==
  ASSUME PollerInv, End
  PROVE  PollerInv'
<1>1. txn' \in Word
  BY EdgeAssumption DEF End, Word
<1>2. at' \in Position
  BY DEF End, Position
<1> QED BY <1>1, <1>2, PollerLeaves DEF End

LEMMA Answered ==
  ASSUME PollerTypes, request # <<>>
  PROVE  /\ Head(request) = request[1] /\ 1 \in DOMAIN request /\ request[1] \in Request
         /\ Read(Head(request)) \in Seq(Register)
         /\ [txn |-> Head(request).txn, data |-> Read(Head(request))] \in Answer
         /\ [txn |-> Head(request).txn, data |-> <<>>] \in Answer
<1>1. Head(request) = request[1] /\ 1 \in DOMAIN request /\ request[1] \in Request
  BY SeqTail DEF PollerTypes
<1>2. /\ request[1].start \in Nat /\ request[1].quantity \in Nat /\ request[1].txn \in Word
      /\ round \in Nat
  BY <1>1 DEF Request, PollerTypes
<1>3. Read(request[1]) \in Seq(Register)
  <2> DEFINE n == request[1].quantity
             a == request[1].start
             d == [k \in 1 .. n |-> [address |-> a + k - 1, round |-> round]]
  <2>1. \A k \in 1 .. n : [address |-> a + k - 1, round |-> round] \in Register
    BY <1>2 DEF Register
  <2>2. n \in Nat
    BY <1>2
  <2>3. d \in Seq(Register)
    <3> HIDE DEF n, a
    <3> QED BY <2>1, <2>2
  <2>4. Read(request[1]) = <<>> \/ Read(request[1]) = d
    BY DEF Read
  <2>5. <<>> \in Seq(Register)
    OBVIOUS
  <2> HIDE DEF d
  <2> QED BY <2>3, <2>4, <2>5
<1> QED BY <1>1, <1>2, <1>3 DEF Answer

\* An answer, whatever it says, is about the request the device is at.
LEMMA PollerAnswered ==
  ASSUME PollerInv, request # <<>>, NEW data, data = <<>> \/ data = Read(Head(request)),
         wire' = Append(wire, [txn |-> Head(request).txn, data |-> data]),
         request' = request \/ request' = Tail(request),
         UNCHANGED <<sensors, pc, at, round, txn, registers>>
  PROVE  PollerInv'
<1> DEFINE e == [txn |-> request[1].txn, data |-> data]
<1>1. PollerTypes
  BY DEF PollerInv
<1>2. Head(request) = request[1] /\ 1 \in DOMAIN request /\ e \in Answer
  BY <1>1, Answered
<1>3. /\ wire' \in Seq(Answer)
      /\ \A i \in DOMAIN wire' :
           \/ i \in DOMAIN wire /\ wire'[i] = wire[i]
           \/ i = Len(wire) + 1 /\ wire'[i] = e
      /\ \A i \in DOMAIN wire : i < Len(wire) + 1
  BY <1>1, <1>2, SeqAppend DEF PollerTypes
<1>4. e.txn = request[1].txn /\ e.data = data
  OBVIOUS
<1> HIDE DEF e
<1>5. /\ request' \in Seq(Request)
      /\ \/ request' = request
         \/ /\ \A i \in DOMAIN request' : i + 1 \in DOMAIN request /\ request'[i] = request[i + 1]
            /\ \A i, j \in DOMAIN request' : i < j => i + 1 < j + 1
  BY <1>1, SeqTail DEF PollerTypes
<1>6. \A i \in DOMAIN request' : \E j \in DOMAIN request : request'[i] = request[j]
  BY <1>5
<1>7. \A j \in DOMAIN request : j = 1 \/ 1 < j
  BY <1>1 DEF PollerTypes
<1>8. Frame' = Frame /\ Content' = Content
  BY DEF Content, Frame, Frames, Read
<1>9. PollerTypes' /\ LocatedInv' /\ SplitInv'
  BY <1>1, <1>3, <1>5, <1>8 DEF PollerInv, PollerTypes, LocatedInv, SplitInv
<1>10. QuietInv'
  BY <1>2, <1>3, <1>4, <1>6 DEF PollerInv, QuietInv, Expected
<1>11. AwaitInv'
  <2> SUFFICES ASSUME pc = "receive" PROVE AwaitInv'
    BY DEF AwaitInv
  <2>1. AwaitInv
    BY DEF PollerInv
  <2>2. Expected(e.txn) \/ Overdue(e.txn)
    BY <1>2, <1>4, <2>1 DEF AwaitInv
  <2>3. Expected(e.txn) => \A j \in DOMAIN request : Expected(request[j].txn)
    BY <1>2, <1>4, <1>7, <2>1 DEF AwaitInv
  <2>4. Expected(e.txn) => e.data = <<>> \/ e.data = Content
    <3>1. Expected(e.txn) =>
            request[1].start = Frame.start /\ request[1].quantity = Frame.quantity
      BY <1>2, <1>4, <2>1 DEF AwaitInv
    <3>2. Expected(e.txn) => Read(request[1]) = Content
      BY <3>1 DEF Content, Read
    <3> QED BY <1>2, <1>4, <3>2
  <2>5. \A i \in DOMAIN wire : Expected(wire[i].txn) => Expected(e.txn)
    BY <1>2, <1>4, <2>1 DEF AwaitInv
  <2>6. \A t : (Expected(t)' <=> Expected(t)) /\ (Overdue(t)' <=> Overdue(t))
    BY DEF Expected, Overdue
  <2>7. /\ \A i \in DOMAIN wire' : Expected(wire'[i].txn) \/ Overdue(wire'[i].txn)
        /\ \A i, j \in DOMAIN wire' : i < j /\ Expected(wire'[i].txn) => Expected(wire'[j].txn)
        /\ \A i \in DOMAIN wire' : Expected(wire'[i].txn) =>
             wire'[i].data = <<>> \/ wire'[i].data = Content
    BY <1>3, <2>1, <2>2, <2>4, <2>5 DEF AwaitInv
  <2>8. /\ \A i \in DOMAIN request' : Expected(request'[i].txn) \/ Overdue(request'[i].txn)
        /\ \A i \in DOMAIN request' : Expected(request'[i].txn) =>
             request'[i].start = Frame.start /\ request'[i].quantity = Frame.quantity
        /\ \A i \in DOMAIN wire', j \in DOMAIN request' :
             Expected(wire'[i].txn) => Expected(request'[j].txn)
    <3>1. ASSUME NEW j \in DOMAIN request'
          PROVE  /\ Expected(request'[j].txn) \/ Overdue(request'[j].txn)
                 /\ Expected(request'[j].txn) =>
                      request'[j].start = Frame.start /\ request'[j].quantity = Frame.quantity
                 /\ \A i \in DOMAIN wire : Expected(wire[i].txn) => Expected(request'[j].txn)
                 /\ Expected(e.txn) => Expected(request'[j].txn)
      <4>1. PICK k \in DOMAIN request : request'[j] = request[k]
        BY <1>6
      <4> QED BY <2>1, <2>3, <4>1 DEF AwaitInv
    <3>2. \A i \in DOMAIN wire' : wire'[i] = e \/ \E k \in DOMAIN wire : wire'[i] = wire[k]
      BY <1>3
    <3> QED BY <3>1, <3>2
  <2>9. \A i, j \in DOMAIN request' :
          i < j /\ Expected(request'[i].txn) => Expected(request'[j].txn)
    <3>1. \A i, j \in DOMAIN request :
            i < j /\ Expected(request[i].txn) => Expected(request[j].txn)
      BY <2>1 DEF AwaitInv
    <3>2. CASE request' = request
      BY <3>1, <3>2
    <3>3. CASE request' # request
      BY <1>5, <3>1, <3>3
    <3> QED BY <3>2, <3>3
  <2> QED BY <1>8, <2>6, <2>7, <2>8, <2>9 DEF AwaitInv
<1> QED BY <1>9, <1>10, <1>11 DEF PollerInv

\* Every step of the collector and of the device keeps it.
LEMMA PollerNext == PollerInv /\ [EdgeNext]_edgeVars => PollerInv'
<1> SUFFICES ASSUME PollerInv, [EdgeNext]_edgeVars PROVE PollerInv'
  OBVIOUS
<1>1. CASE UNCHANGED edgeVars
  BY <1>1, PollerStill DEF edgeVars, poller
<1>2. CASE Check \/ ConnectFails
  <2>1. /\ pc # "receive" /\ pc' \in {"top", "connect"}
        /\ UNCHANGED <<sensors, at, round, txn, request, wire>>
    BY <1>2 DEF Check, ConnectFails
  <2> QED BY <2>1, PollerBetween DEF PollerInv, PollerTypes, LocatedInv
<1>3. CASE ReadRejected \/ ReadFails
  <2>1. /\ pc' = "top" /\ request' = <<>> /\ wire' = <<>>
        /\ UNCHANGED <<sensors, round, at, txn>>
    BY <1>3 DEF ReadRejected, ReadFails, Disconnect
  <2> QED BY <2>1, PollerLeaves DEF PollerInv, PollerTypes
<1>4. CASE Respond
  <2>1. PICK data \in {Read(Head(request)), <<>>} :
          wire' = Append(wire, [txn |-> Head(request).txn, data |-> data])
    BY <1>4 DEF Respond
  <2>2. request # <<>> /\ request' = Tail(request)
        /\ UNCHANGED <<sensors, pc, at, round, txn, registers>>
    BY <1>4 DEF Respond
  <2> QED BY <2>1, <2>2, PollerAnswered
<1>5. CASE RespondTwice
  BY <1>5, PollerAnswered DEF RespondTwice
<1>6. CASE Exit \/ Crash
  BY <1>6, PollerEnds DEF Exit, Crash
<1>7. CASE \/ \E a \in Stops \cup {"cmd.stop"} : SendCommand(a)
           \/ ConsumerNext \/ LoseConsumer
           \/ Take \/ Publish \/ PublishLost \/ PublishFails
           \/ Signal \/ StopCommands \/ StopPollers \/ StartAgain
  BY <1>7, PollerStill
     DEF SendCommand, ConsumerNext, Consume, HandleCommand, Ack, LoseConsumer, Take, Publish,
         PublishLost, PublishFails, Signal, StopCommands, StopPollers, StartAgain, poller
<1> QED BY <1>1, <1>2, <1>3, <1>4, <1>5, <1>6, <1>7,
           PollerBegins, PollerSends, PollerReceives, PollerSplits DEF EdgeNext
-----------------------------------------------------------------------------
(* Readings of the collector *)

InOrder(q) == \A i, j \in DOMAIN q : i < j => Earlier(q[i], q[j])
Precede(p, q) == \A i \in DOMAIN p, j \in DOMAIN q : Earlier(p[i], q[j])

\* The reading r has the registers of its own sensor.
Own(r) ==
  r.value = [k \in 1 .. sensors[r.sensor].words |->
              [address |-> Offset(sensors[r.sensor]) + (k - 1), round |-> r.round]]

\* Whatever is read next comes later than r.
Before(r) ==
  /\ r.round <= round
  /\ pc \in {"send", "receive", "split"} /\ r.round = round =>
       \/ r.frame < at.frame
       \/ /\ r.frame = at.frame
          /\ r.value[1].address < Frame.start + at.offset

Past == {r \in Reading : Own(r) /\ Before(r)}

ReadingInv ==
  /\ queue \in Seq(Past) /\ batch \in Seq(Past) /\ arrived \in Seq(Past)
  /\ InOrder(arrived) /\ InOrder(batch) /\ InOrder(queue)
  /\ Precede(arrived, batch) /\ Precede(arrived, queue) /\ Precede(batch, queue)

\* What Split takes out of the registers of the frame is the sensor's own.
LEMMA SplitTakes ==
  ASSUME PollerInv, Split
  PROVE  LET r == [round |-> round, sensor |-> Polled, frame |-> at.frame, value |-> extractValue]
         IN /\ queue' = Append(queue, r)
            /\ r \in Reading /\ Own(r) /\ r.value[1].address = Frame.start + at.offset
            /\ sensors[Polled].words \in {1, 2}
<1> DEFINE w == sensors[Polled].words
           o == at.offset
           f == Frame
           r == [round |-> round, sensor |-> Polled, frame |-> at.frame, value |-> extractValue]
<1>1. /\ PollerTypes /\ Configured(sensors) /\ Located(sensors, at) /\ at \in Position
      /\ f = mergeFrames(sensors)[at.frame] /\ Polled = f.members[at.member]
      /\ registers = Content /\ registers # <<>> /\ round \in Nat
  BY DEF PollerInv, PollerTypes, LocatedInv, SplitInv, Split, Frame, Frames, Polled
<1>2. PICK b : Laid(sensors, f, b) /\ o = b[at.member]
  BY <1>1 DEF Located
<1>3. /\ f.start \in Nat /\ f.start \in Word /\ f.quantity \in Nat
      /\ f.members \in Seq(DOMAIN sensors) /\ at.member \in DOMAIN f.members
  BY <1>1, FrameFacts DEF Located
<1>4. Polled \in DOMAIN sensors /\ Polled \in Nat /\ w \in {1, 2}
  <2>1. Polled \in DOMAIN sensors
    BY <1>1, <1>3
  <2> QED BY <1>1, <2>1 DEF Configured
<1>5. o \in Nat /\ at.frame \in Nat
  BY <1>1 DEF Position
<1>6. o + w <= f.quantity /\ Offset(sensors[Polled]) = (f.start + o) % Space
  BY <1>1, <1>2, <1>3 DEF Laid
<1> DEFINE regs == [k \in 1 .. f.quantity |-> [address |-> f.start + k - 1, round |-> round]]
<1>7. f.start + f.quantity <= Space /\ registers = regs
  BY <1>1 DEF Content, Read
<1>8. Offset(sensors[Polled]) = f.start + o
  <2>1. f.start + o \in Word
    <3> HIDE DEF f, o, w
    <3>1. PICK q \in Nat, st \in Nat, a \in Nat, n \in {1, 2} :
            q = f.quantity /\ st = f.start /\ a = o /\ n = w
      BY <1>3, <1>4, <1>5
    <3>2. a + n <= q /\ st + q <= Space
      BY <1>6, <1>7, <3>1
    <3>3. Space \in Nat
      BY EdgeAssumption
    <3>4. st + a \in Word
      BY <3>2, <3>3 DEF Word
    <3> QED BY <3>1, <3>4
  <2> QED BY <1>6, <2>1, Modulo
<1>9. extractValue = SubSeq(regs, o + 1, o + w)
  BY <1>7 DEF extractValue
<1>10. SubSeq(regs, o + 1, o + w) = [k \in 1 .. w |-> [address |-> f.start + o + (k - 1), round |-> round]]
  <2> HIDE DEF f, o, w
  <2>1. PICK q \in Nat, st \in Nat, a \in Nat, n \in {1, 2} :
          q = f.quantity /\ st = f.start /\ a = o /\ n = w
    BY <1>3, <1>4, <1>5
  <2>2. a + n <= q
    BY <1>6, <2>1
  <2>3. SubSeq(regs, a + 1, a + n) = [k \in 1 .. n |-> regs[a + k]]
    <3>1. regs = [k \in 1 .. q |-> [address |-> f.start + k - 1, round |-> round]]
      BY <2>1
    <3> DEFINE R == {regs[k] : k \in 1 .. q}
    <3>2. regs \in [1 .. q -> R]
      BY <3>1
    <3> HIDE DEF regs, R
    <3>3. regs \in Seq(R) /\ Len(regs) = q
      BY <3>2
    <3> QED BY <2>2, <3>3
  <2>4. \A k \in 1 .. n : regs[a + k] = [address |-> st + a + (k - 1), round |-> round]
    <3> TAKE k \in 1 .. n
    <3>1. a + k \in 1 .. q /\ st + (a + k) - 1 = st + a + (k - 1)
      BY <2>2
    <3> QED BY <2>1, <3>1
  <2> HIDE DEF regs
  <2> QED BY <2>1, <2>3, <2>4
<1>11. extractValue \in Seq(Register) \ {<<>>} /\ extractValue[1].address = f.start + o
  <2> HIDE DEF f, o, w, regs
  <2>1. \A k \in 1 .. w : [address |-> f.start + o + (k - 1), round |-> round] \in Register
    BY <1>1, <1>3, <1>4, <1>5 DEF Register
  <2>2. w \in Nat /\ 1 \in 1 .. w /\ f.start + o + (1 - 1) = f.start + o
    BY <1>3, <1>4, <1>5
  <2>3. extractValue = [k \in 1 .. w |-> [address |-> f.start + o + (k - 1), round |-> round]]
    BY <1>9, <1>10
  <2>4. extractValue[1] = [address |-> f.start + o + (1 - 1), round |-> round]
    BY <2>2, <2>3
  <2> QED BY <2>1, <2>2, <2>3, <2>4
<1>12. r \in Reading
  <2> HIDE DEF f, o, w, regs
  <2> QED BY <1>1, <1>4, <1>5, <1>11 DEF Reading
<1>13. Own(r)
  <2>1. r.round = round /\ r.sensor = Polled /\ r.value = extractValue
    OBVIOUS
  <2> HIDE DEF f, o, regs, r
  <2> QED BY <1>8, <1>9, <1>10, <2>1 DEF Own
<1>14. queue' = Append(queue, r)
  BY DEF Split
<1>15. r.value[1].address = f.start + o
  BY <1>11
<1> QED BY <1>4, <1>12, <1>13, <1>14, <1>15

LEMMA SeqWider == ASSUME NEW A, NEW B, A \subseteq B PROVE Seq(A) \subseteq Seq(B)
OBVIOUS

LEMMA SeqCut ==
  ASSUME NEW R, NEW q \in Seq(R), NEW n \in 0 .. Len(q)
  PROVE  LET p == SubSeq(q, 1, n)
             s == SubSeq(q, n + 1, Len(q))
         IN /\ p \in Seq(R) /\ s \in Seq(R)
            /\ \A i \in DOMAIN p : i \in DOMAIN q /\ p[i] = q[i] /\ i <= n
            /\ \A i \in DOMAIN s : n + i \in DOMAIN q /\ s[i] = q[n + i] /\ n < n + i
            /\ \A i, j \in DOMAIN s : i < j => n + i < n + j
            /\ \A i \in Int, j \in Int : i <= n /\ n < n + j => i < n + j
OBVIOUS

\* Where the poller goes on, or leaves the round, nothing lies ahead of it.
LEMMA PastStill ==
  ASSUME UNCHANGED sensors, UNCHANGED round, UNCHANGED <<pc, at>> \/ pc' \in {"top", "connect"}
  PROVE  Past \subseteq Past'
BY DEF Past, Own, Before, Frame, Frames

LEMMA PastBegins ==
  ASSUME PollerTypes, BeginRound
  PROVE  Past \subseteq Past'
<1>1. round \in Nat /\ round' = round + 1 /\ sensors' = sensors
  BY DEF PollerTypes, BeginRound
<1>2. \A r \in Past : r.round \in Nat /\ r.round <= round' /\ r.round # round'
  BY <1>1 DEF Past, Reading, Before
<1> QED BY <1>1, <1>2 DEF Past, Own, Before

\* Requests and answers change neither the readings nor the position of the poller.
LEMMA PastReads ==
  ASSUME PollerInv, Send \/ Receive
  PROVE  Past \subseteq Past'
<1>1. /\ pc \in {"send", "receive", "split"} /\ UNCHANGED <<sensors, at, round>>
  BY DEF Send, Receive
<1> QED BY <1>1 DEF Past, Own, Before, Frame, Frames

\* Readings that stay where they are.
LEMMA ReadingsStay ==
  ASSUME ReadingInv, Past \subseteq Past', UNCHANGED publisher
  PROVE  ReadingInv'
<1>1. Seq(Past) \subseteq Seq(Past')
  BY SeqWider
<1> QED BY <1>1 DEF ReadingInv, publisher, InOrder, Precede, Earlier

\* x is not read later than the value at hand.
Passed(x) ==
  /\ x.round <= round
  /\ x.round = round => x.frame \in Nat /\ x.frame <= at.frame
  /\ x.round = round /\ x.frame = at.frame =>
       x.value[1].address \in Nat /\ x.value[1].address <= Frame.start + at.offset

\* A value split off comes after all the others, and before the next one.
LEMMA ReadingsSplit ==
  ASSUME PollerInv, ReadingInv, Split
  PROVE  ReadingInv'
<1> DEFINE r == [round |-> round, sensor |-> Polled, frame |-> at.frame, value |-> extractValue]
<1>1. /\ queue' = Append(queue, r) /\ r \in Reading /\ Own(r)
      /\ r.value[1].address = Frame.start + at.offset /\ sensors[Polled].words \in {1, 2}
  BY SplitTakes
<1>2. r.round = round /\ r.frame = at.frame
  OBVIOUS
<1> HIDE DEF r
<1>3. /\ PollerTypes /\ at \in Position /\ at.frame \in Nat /\ at.offset \in Nat /\ round \in Nat
      /\ Frame.start \in Nat /\ pc = "split" /\ UNCHANGED <<sensors, round, batch, arrived>>
  <2>1. PollerTypes /\ Located(sensors, at) /\ at \in Position
    BY DEF PollerInv, PollerTypes, LocatedInv, Split
  <2> QED BY <2>1, FrameFacts DEF PollerTypes, Located, Position, Frame, Frames, Split
<1>4. \A x \in Past : Earlier(x, r)
  <2> TAKE x \in Past
  <2>1. /\ x.round \in Nat /\ x.round <= round
        /\ x.round = round => \/ x.frame < at.frame
                              \/ x.frame = at.frame /\ x.value[1].address < Frame.start + at.offset
    BY <1>3 DEF Past, Reading, Before
  <2> QED BY <1>1, <1>2, <1>3, <2>1 DEF Earlier
<1>5. ASSUME NEW x \in Past PROVE Passed(x)
  <2>1. /\ x.frame \in Nat /\ x.round <= round
        /\ x.round = round => \/ x.frame < at.frame
                              \/ x.frame = at.frame /\ x.value[1].address < Frame.start + at.offset
    BY <1>3 DEF Past, Reading, Before
  <2>2. x.value \in Seq(Register) \ {<<>>}
    BY DEF Past, Reading
  <2>3. x.value[1] \in Register
    BY <2>2
  <2>4. x.value[1].address \in Nat /\ Frame.start + at.offset \in Nat
    BY <1>3, <2>3 DEF Register
  <2> QED BY <1>3, <2>1, <2>4 DEF Passed
<1>6. Passed(r)
  <2>1. Frame.start + at.offset \in Nat
    BY <1>3
  <2> QED BY <1>1, <1>2, <1>3, <2>1 DEF Passed
<1>7. ASSUME NEW x, Passed(x)
      PROVE  Before(x)'
  <2>1. /\ x.round <= round
        /\ x.round = round => x.frame \in Nat /\ x.frame <= at.frame
        /\ x.round = round /\ x.frame = at.frame =>
             /\ x.value[1].address \in Nat
             /\ x.value[1].address <= Frame.start + at.offset
    BY <1>7 DEF Passed
  <2>2. CASE at' = [frame |-> at.frame, member |-> at.member + 1,
                    offset |-> at.offset + sensors[Polled].words]
    <3>1. at'.frame = at.frame /\ at'.offset = at.offset + sensors[Polled].words
      BY <2>2
    <3>2. Frame' = Frame
      BY <1>3, <3>1 DEF Frame, Frames
    <3>3. at.offset + sensors[Polled].words \in Nat
          /\ \A a \in Nat : a <= Frame.start + at.offset => a < Frame.start + (at.offset + sensors[Polled].words)
      BY <1>1, <1>3
    <3>4. round' = round
      BY <1>3
    <3> QED BY <1>3, <2>1, <3>1, <3>2, <3>3, <3>4 DEF Before
  <2>3. CASE at' = [frame |-> at.frame + 1, member |-> 1, offset |-> 0]
    <3>1. at'.frame = at.frame + 1
      BY <2>3
    <3> QED BY <1>3, <2>1, <3>1 DEF Before
  <2>4. CASE pc' = "top"
    BY <1>3, <2>1, <2>4 DEF Before
  <2> QED BY <2>2, <2>3, <2>4 DEF Split
<1>8. ASSUME NEW x, x \in Past \/ x = r
      PROVE  x \in Past'
  <2>1. x \in Reading /\ Own(x)
    BY <1>1, <1>8 DEF Past
  <2>2. Own(x)'
    BY <1>3, <2>1 DEF Own
  <2>3. Before(x)'
    BY <1>5, <1>6, <1>7, <1>8
  <2> QED BY <2>1, <2>2, <2>3 DEF Past
<1>9. /\ queue \in Seq(Past') /\ batch' \in Seq(Past') /\ arrived' \in Seq(Past') /\ r \in Past'
      /\ queue \in Seq(Past) /\ batch \in Seq(Past) /\ arrived \in Seq(Past)
  <2>1. Past \subseteq Past'
    BY <1>8
  <2>2. Seq(Past) \subseteq Seq(Past')
    BY <2>1, SeqWider
  <2> QED BY <1>3, <1>8, <2>2 DEF ReadingInv
<1>10. /\ queue' \in Seq(Past')
       /\ \A i \in DOMAIN queue' :
            \/ i \in DOMAIN queue /\ queue'[i] = queue[i]
            \/ i = Len(queue) + 1 /\ queue'[i] = r
       /\ \A i \in DOMAIN queue : i < Len(queue) + 1
  BY <1>1, <1>9, SeqAppend
<1>11. /\ \A i \in DOMAIN queue : queue[i] \in Past
       /\ \A i \in DOMAIN batch : batch[i] \in Past
       /\ \A i \in DOMAIN arrived : arrived[i] \in Past
  BY <1>9
<1>12. InOrder(queue')
  <2>1. InOrder(queue)
    BY DEF ReadingInv
  <2>2. ASSUME NEW i \in DOMAIN queue', NEW j \in DOMAIN queue', i < j
        PROVE  Earlier(queue'[i], queue'[j])
    <3>1. CASE i \in DOMAIN queue /\ j \in DOMAIN queue
      <4>1. i # Len(queue) + 1 /\ j # Len(queue) + 1
        BY <1>9, <3>1
      <4>2. queue'[i] = queue[i] /\ queue'[j] = queue[j]
        BY <1>10, <4>1
      <4> QED BY <2>1, <2>2, <3>1, <4>2 DEF InOrder
    <3>2. CASE i \in DOMAIN queue /\ j = Len(queue) + 1
      <4>1. i # Len(queue) + 1 /\ j \notin DOMAIN queue
        BY <1>9, <3>2
      <4>2. queue'[i] = queue[i] /\ queue'[j] = r
        BY <1>10, <3>2, <4>1
      <4> QED BY <1>4, <1>11, <3>2, <4>2
    <3>3. CASE i = Len(queue) + 1
      <4>1. Len(queue) \in Nat /\ (j \in DOMAIN queue => j \in Nat /\ j < Len(queue) + 1)
        BY <1>9
      <4>2. CASE j \in DOMAIN queue
        BY <2>2, <3>3, <4>1, <4>2
      <4>3. CASE j = Len(queue) + 1
        BY <2>2, <3>3, <4>1, <4>3
      <4> QED BY <1>10, <4>2, <4>3
    <3> QED BY <1>10, <3>1, <3>2, <3>3
  <2> QED BY <2>2 DEF InOrder
<1>13. Precede(arrived, queue') /\ Precede(batch, queue')
  BY <1>4, <1>10, <1>11 DEF ReadingInv, Precede
<1> QED BY <1>3, <1>9, <1>10, <1>12, <1>13 DEF ReadingInv, InOrder, Precede

\* The publisher takes a batch from the front of the queue.
LEMMA ReadingsTake ==
  ASSUME ReadingInv, Past \subseteq Past', Take
  PROVE  ReadingInv'
<1>1. PICK n \in 0 .. Len(queue) : /\ batch' = SubSeq(queue, 1, n)
                                   /\ queue' = SubSeq(queue, n + 1, Len(queue))
  <2>1. Len(queue) \in Nat /\ kBatchSize \in Nat
    BY EdgeAssumption DEF ReadingInv
  <2> DEFINE k == IF Len(queue) < kBatchSize THEN Len(queue) ELSE kBatchSize
  <2>2. k \in 0 .. Len(queue)
    BY <2>1
  <2>3. batch' = SubSeq(queue, 1, k) /\ queue' = SubSeq(queue, k + 1, Len(queue))
    BY DEF Take
  <2> HIDE DEF k
  <2> QED BY <2>2, <2>3
<1>2. arrived' = arrived /\ Seq(Past) \subseteq Seq(Past')
  BY SeqWider DEF Take
<1>3. /\ batch' \in Seq(Past) /\ queue' \in Seq(Past)
      /\ \A i \in DOMAIN batch' : i \in DOMAIN queue /\ batch'[i] = queue[i] /\ i <= n
      /\ \A i \in DOMAIN queue' : n + i \in DOMAIN queue /\ queue'[i] = queue[n + i] /\ n < n + i
      /\ \A i, j \in DOMAIN queue' : i < j => n + i < n + j
      /\ \A i \in Int, j \in Int : i <= n /\ n < n + j => i < n + j
  BY <1>1, SeqCut DEF ReadingInv
<1>4. DOMAIN batch' \subseteq Int /\ DOMAIN queue' \subseteq Int
  BY <1>3
<1>5. /\ batch' \in Seq(Past') /\ queue' \in Seq(Past') /\ arrived' \in Seq(Past')
  BY <1>2, <1>3 DEF ReadingInv
<1>6. /\ InOrder(batch') /\ InOrder(queue')
      /\ Precede(arrived, batch') /\ Precede(arrived, queue') /\ Precede(batch', queue')
  BY <1>3, <1>4 DEF ReadingInv, InOrder, Precede
<1> QED BY <1>2, <1>5, <1>6 DEF ReadingInv, InOrder, Precede

\* The first of the batch leaves it, for the broker or for nowhere.
LEMMA ReadingsPublish ==
  ASSUME ReadingInv, Past \subseteq Past', batch # <<>>, batch' = Tail(batch), queue' = queue,
         arrived' = Append(arrived, Head(batch)) \/ arrived' = arrived
  PROVE  ReadingInv'
<1>1. Seq(Past) \subseteq Seq(Past')
  BY SeqWider
<1>2. /\ batch \in Seq(Past) /\ queue \in Seq(Past) /\ arrived \in Seq(Past)
      /\ InOrder(arrived) /\ InOrder(batch) /\ InOrder(queue)
      /\ Precede(arrived, batch) /\ Precede(arrived, queue) /\ Precede(batch, queue)
  BY DEF ReadingInv
<1>3. /\ batch' \in Seq(Past) /\ 1 \in DOMAIN batch /\ Head(batch) = batch[1] /\ batch[1] \in Past
      /\ \A i \in DOMAIN batch' : i + 1 \in DOMAIN batch /\ batch'[i] = batch[i + 1] /\ 1 < i + 1
      /\ \A i, j \in DOMAIN batch' : i < j => i + 1 < j + 1
  BY <1>2, SeqTail
<1>4. InOrder(batch') /\ Precede(batch', queue) /\ Precede(arrived, batch')
  BY <1>2, <1>3 DEF InOrder, Precede
<1>5. CASE arrived' = arrived
  BY <1>1, <1>2, <1>3, <1>4, <1>5 DEF ReadingInv, InOrder, Precede
<1>6. CASE arrived' = Append(arrived, batch[1])
  <2>1. /\ arrived' \in Seq(Past)
        /\ \A i \in DOMAIN arrived' :
             \/ i \in DOMAIN arrived /\ arrived'[i] = arrived[i]
             \/ i = Len(arrived) + 1 /\ arrived'[i] = batch[1]
        /\ \A i \in DOMAIN arrived : i < Len(arrived) + 1
    BY <1>2, <1>3, <1>6, SeqAppend
  <2>2. Precede(arrived', queue) /\ Precede(arrived', batch')
    BY <1>2, <1>3, <1>4, <2>1 DEF Precede, InOrder
  <2>3. ASSUME NEW i \in DOMAIN arrived', NEW j \in DOMAIN arrived', i < j
        PROVE  Earlier(arrived'[i], arrived'[j])
    <3>1. CASE i \in DOMAIN arrived /\ j \in DOMAIN arrived
      <4>1. i # Len(arrived) + 1 /\ j # Len(arrived) + 1
        BY <1>2, <3>1
      <4>2. arrived'[i] = arrived[i] /\ arrived'[j] = arrived[j]
        BY <2>1, <4>1
      <4> QED BY <1>2, <2>3, <3>1, <4>2 DEF InOrder
    <3>2. CASE i \in DOMAIN arrived /\ j = Len(arrived) + 1
      <4>1. i # Len(arrived) + 1 /\ j \notin DOMAIN arrived
        BY <1>2, <3>2
      <4>2. arrived'[i] = arrived[i] /\ arrived'[j] = batch[1]
        BY <2>1, <3>2, <4>1
      <4> QED BY <1>2, <1>3, <3>2, <4>2 DEF Precede
    <3>3. CASE i = Len(arrived) + 1
      BY <1>2, <2>1, <2>3, <3>3
    <3> QED BY <2>1, <3>1, <3>2, <3>3
  <2>4. InOrder(arrived')
    BY <2>3 DEF InOrder
  <2> QED BY <1>1, <1>2, <1>3, <1>4, <2>1, <2>2, <2>4 DEF ReadingInv, InOrder, Precede
<1> QED BY <1>3, <1>5, <1>6

\* Readings that are dropped take nothing with them.
LEMMA ReadingsDrop ==
  ASSUME ReadingInv, Past \subseteq Past', batch' = <<>>, queue' = queue \/ queue' = <<>>,
         arrived' = arrived
  PROVE  ReadingInv'
<1>1. Seq(Past) \subseteq Seq(Past')
  BY SeqWider
<1>2. /\ DOMAIN batch' = {} /\ batch' \in Seq(Past')
      /\ queue' \in Seq(Past') /\ (queue' = queue \/ DOMAIN queue' = {})
  <2>1. <<>> \in Seq(Past') /\ DOMAIN <<>> = {}
    OBVIOUS
  <2>2. queue \in Seq(Past')
    BY <1>1 DEF ReadingInv
  <2> QED BY <2>1, <2>2
<1> QED BY <1>1, <1>2 DEF ReadingInv, InOrder, Precede

LEMMA ReadingsNext == PollerInv /\ ReadingInv /\ [EdgeNext]_edgeVars => ReadingInv'
<1> SUFFICES ASSUME PollerInv, ReadingInv, [EdgeNext]_edgeVars PROVE ReadingInv'
  OBVIOUS
<1>1. CASE UNCHANGED edgeVars
  BY <1>1, PastStill, ReadingsStay DEF edgeVars, poller
<1>2. CASE BeginRound
  BY <1>2, PastBegins, ReadingsStay DEF BeginRound, PollerInv
<1>3. CASE Send \/ Receive
  BY <1>3, PastReads, ReadingsStay DEF Send, Receive
<1>4. CASE Check \/ ConnectFails \/ ReadRejected \/ ReadFails
  <2>1. pc' \in {"top", "connect"} /\ UNCHANGED <<sensors, round, publisher>>
    BY <1>4 DEF Check, ConnectFails, ReadRejected, ReadFails
  <2> QED BY <2>1, PastStill, ReadingsStay
<1>5. CASE \/ Respond \/ RespondTwice
           \/ \E a \in Stops \cup {"cmd.stop"} : SendCommand(a)
           \/ ConsumerNext \/ LoseConsumer
           \/ Signal \/ StopCommands \/ StopPollers \/ StartAgain
  <2>1. UNCHANGED <<sensors, round, pc, at, publisher>>
    BY <1>5 DEF Respond, RespondTwice, SendCommand, ConsumerNext, Consume, HandleCommand, Ack,
                LoseConsumer, Signal, StopCommands, StopPollers, StartAgain, poller
  <2> QED BY <2>1, PastStill, ReadingsStay
<1>6. CASE Take
  BY <1>6, PastStill, ReadingsTake DEF Take, poller
<1>7. CASE Publish \/ PublishLost
  BY <1>7, PastStill, ReadingsPublish DEF Publish, PublishLost, poller
<1>8. CASE PublishFails
  BY <1>8, PastStill, ReadingsDrop DEF PublishFails, poller
<1>9. CASE Exit \/ Crash
  BY <1>9, PastStill, ReadingsDrop DEF Exit, Crash, End
<1> QED BY <1>1, <1>2, <1>3, <1>4, <1>5, <1>6, <1>7, <1>8, <1>9, ReadingsSplit DEF EdgeNext

LEMMA ReadingsStart == EdgeInit => ReadingInv
BY DEF EdgeInit, ReadingInv, InOrder, Precede

LEMMA ReadingsHold == EdgeSpec => []ReadingInv
<1>1. EdgeInit => PollerInv /\ ReadingInv
  BY PollerStarts, ReadingsStart
<1>2. (PollerInv /\ ReadingInv) /\ [EdgeNext]_edgeVars => (PollerInv /\ ReadingInv)'
  BY PollerNext, ReadingsNext
<1> QED BY <1>1, <1>2, PTL DEF EdgeSpec

\* A reading carries the registers of its own sensor, read in its own round.
THEOREM OwnRegisters == EdgeSpec => []ValuesFromOwnRegisters
<1>1. ReadingInv => ValuesFromOwnRegisters
  <2> SUFFICES ASSUME ReadingInv,
                      NEW r \in ToSet(queue) \cup ToSet(batch) \cup ToSet(arrived)
               PROVE  Own(r)
    BY DEF ValuesFromOwnRegisters, Own
  <2>1. r \in Past
    BY DEF ReadingInv, ToSet
  <2> QED BY <2>1 DEF Past
<1> QED BY <1>1, ReadingsHold, PTL

\* The broker gets the readings in the order in which they were read.
THEOREM InOrderOfReading == EdgeSpec => []PublishedInOrder
<1>1. ReadingInv => PublishedInOrder
  BY DEF ReadingInv, InOrder, PublishedInOrder
<1> QED BY <1>1, ReadingsHold, PTL
-----------------------------------------------------------------------------
(* Commands of the collector *)

\* The stop or resume at k is the last one of the queue.
LastTold(q, k) == k \in Told(q) /\ \A l \in Told(q) : l <= k

\* The last command queued is what is owed, and the one being handled has been
\* carried out; with none queued the poller is as the last one said.
CommandInv ==
  /\ cmds \in Seq(Stops \cup {"cmd.stop"})
  /\ paused \in BOOLEAN
  /\ consumer = "handled" =>
       cmds # <<>> /\ (Head(cmds) \in Stops => paused = (Head(cmds) = "stop"))
  /\ \A k \in DOMAIN cmds : LastTold(cmds, k) => owed = cmds[k]
  /\ Told(cmds) = {} => paused = (owed = "stop")

LEMMA CommandSent ==
  ASSUME CommandInv, NEW a \in Stops \cup {"cmd.stop"}, SendCommand(a)
  PROVE  CommandInv'
<1>1. /\ cmds' = Append(cmds, a) /\ paused' = paused /\ consumer' = consumer
      /\ owed' = IF a \in Stops THEN a ELSE owed
  BY DEF SendCommand
<1>2. /\ cmds' \in Seq(Stops \cup {"cmd.stop"})
      /\ DOMAIN cmds' = DOMAIN cmds \cup {Len(cmds) + 1}
      /\ \A k \in DOMAIN cmds : cmds'[k] = cmds[k] /\ k < Len(cmds) + 1 /\ k \in Nat
      /\ cmds'[Len(cmds) + 1] = a /\ Len(cmds) \in Nat
      /\ cmds # <<>> => cmds' # <<>> /\ Head(cmds') = Head(cmds)
  BY <1>1 DEF CommandInv
<1>3. Told(cmds') = IF a \in Stops THEN Told(cmds) \cup {Len(cmds) + 1} ELSE Told(cmds)
  BY <1>2 DEF Told
<1>4. ASSUME NEW k \in DOMAIN cmds', LastTold(cmds', k) PROVE owed' = cmds'[k]
  <2>1. CASE a \in Stops
    <3>1. Len(cmds) + 1 \in Told(cmds') /\ Told(cmds') \subseteq DOMAIN cmds'
      BY <1>3, <2>1 DEF Told
    <3>2. Len(cmds) + 1 <= k
      BY <1>4, <3>1 DEF LastTold
    <3>3. k = Len(cmds) + 1
      BY <1>2, <3>2
    <3> QED BY <1>1, <1>2, <2>1, <3>3
  <2>2. CASE a \notin Stops
    <3>1. k \in DOMAIN cmds /\ LastTold(cmds, k)
      BY <1>3, <1>4, <2>2 DEF LastTold, Told
    <3> QED BY <1>1, <1>2, <2>2, <3>1 DEF CommandInv
  <2> QED BY <2>1, <2>2
<1>5. Told(cmds') = {} => paused' = (owed' = "stop")
  <2> SUFFICES ASSUME Told(cmds') = {} PROVE paused' = (owed' = "stop")
    OBVIOUS
  <2>1. a \notin Stops /\ Told(cmds) = {}
    BY <1>3
  <2> QED BY <1>1, <2>1 DEF CommandInv
<1> QED BY <1>1, <1>2, <1>4, <1>5 DEF CommandInv

LEMMA CommandHandled == ASSUME CommandInv, HandleCommand PROVE CommandInv'
<1>1. /\ cmds' = cmds /\ owed' = owed /\ consumer' = "handled" /\ cmds # <<>>
      /\ paused' = IF Head(cmds) \in Stops THEN Head(cmds) = "stop" ELSE paused
  BY DEF HandleCommand
<1>2. Head(cmds) \notin Stops => paused' = paused
  BY <1>1
<1>3. Head(cmds) \in Stops => Told(cmds) # {}
  BY <1>1 DEF CommandInv, Told
<1>4. paused' \in BOOLEAN /\ (Head(cmds) \in Stops => paused' = (Head(cmds) = "stop"))
  BY <1>1, <1>2 DEF CommandInv
<1>5. Told(cmds) = {} => paused' = (owed = "stop")
  BY <1>2, <1>3 DEF CommandInv
<1> QED BY <1>1, <1>4, <1>5 DEF CommandInv

\* What was acknowledged has been carried out, so the rest of the queue decides.
LEMMA CommandAcked == ASSUME CommandInv, Ack PROVE CommandInv'
<1>1. /\ cmds' = Tail(cmds) /\ owed' = owed /\ paused' = paused /\ consumer' = "waiting"
      /\ cmds # <<>> /\ (Head(cmds) \in Stops => paused = (Head(cmds) = "stop"))
  BY DEF Ack, CommandInv
<1>2. /\ cmds' \in Seq(Stops \cup {"cmd.stop"})
      /\ DOMAIN cmds' \subseteq Nat /\ DOMAIN cmds \subseteq Nat
      /\ \A k \in DOMAIN cmds' : k + 1 \in DOMAIN cmds /\ cmds'[k] = cmds[k + 1]
      /\ \A k \in DOMAIN cmds : k = 1 \/ k - 1 \in DOMAIN cmds'
      /\ 1 \in DOMAIN cmds /\ Head(cmds) = cmds[1]
  BY <1>1 DEF CommandInv
<1>3. ASSUME NEW k \in DOMAIN cmds', LastTold(cmds', k) PROVE owed' = cmds'[k]
  <2>1. k + 1 \in Told(cmds)
    BY <1>2, <1>3 DEF LastTold, Told
  <2>2. ASSUME NEW l \in Told(cmds) PROVE l <= k + 1
    <3>1. CASE l = 1
      BY <1>2, <3>1
    <3>2. CASE l # 1
      <4>1. l - 1 \in DOMAIN cmds' /\ cmds'[l - 1] = cmds[l - 1 + 1] /\ l \in Nat
        BY <1>2, <3>2 DEF Told
      <4>2. l - 1 \in Told(cmds')
        BY <4>1 DEF Told
      <4>3. l - 1 <= k
        BY <1>3, <4>2 DEF LastTold
      <4> QED BY <1>2, <4>1, <4>3
    <3> QED BY <3>1, <3>2
  <2>3. LastTold(cmds, k + 1) /\ k + 1 \in DOMAIN cmds
    BY <2>1, <2>2 DEF LastTold, Told
  <2> QED BY <1>1, <1>2, <2>3 DEF CommandInv
<1>4. ASSUME Told(cmds') = {} PROVE paused' = (owed' = "stop")
  <2>1. \A l \in Told(cmds) : l = 1
    <3> TAKE l \in Told(cmds)
    <3>1. l # 1 => l - 1 \in DOMAIN cmds' /\ cmds'[l - 1] = cmds[l - 1 + 1] /\ l \in Nat
      BY <1>2 DEF Told
    <3>2. l # 1 => l - 1 \in Told(cmds')
      BY <3>1 DEF Told
    <3> QED BY <1>4, <3>2
  <2>2. CASE Head(cmds) \in Stops
    <3>1. LastTold(cmds, 1)
      BY <1>2, <2>1, <2>2 DEF LastTold, Told
    <3>2. owed = Head(cmds)
      BY <1>2, <3>1 DEF CommandInv
    <3> QED BY <1>1, <2>2, <3>2
  <2>3. CASE Head(cmds) \notin Stops
    <3>1. Told(cmds) = {}
      BY <1>2, <2>1, <2>3 DEF Told
    <3> QED BY <1>1, <3>1 DEF CommandInv
  <2> QED BY <2>2, <2>3
<1> QED BY <1>1, <1>2, <1>3, <1>4 DEF CommandInv

\* A process that ends leaves the commands that are queued to the next one.
LEMMA CommandsLeft == ASSUME CommandInv, End PROVE CommandInv'
<1>1. /\ cmds' = cmds /\ paused' = FALSE /\ consumer' = "off"
      /\ owed' = IF Told(cmds) = {} THEN "resume" ELSE cmds[Max(Told(cmds))]
  BY DEF End
<1>2. ASSUME NEW k \in DOMAIN cmds, LastTold(cmds, k) PROVE owed' = cmds[k]
  <2>1. Told(cmds) \subseteq Nat
    BY DEF Told, CommandInv
  <2>2. k \in Told(cmds) /\ \A l \in Told(cmds) : k >= l
    BY <1>2, <2>1 DEF LastTold
  <2>3. Max(Told(cmds)) \in Told(cmds) /\ \A l \in Told(cmds) : Max(Told(cmds)) >= l
    BY <2>2 DEF Max
  <2>4. Max(Told(cmds)) = k
    BY <2>1, <2>2, <2>3
  <2> QED BY <1>1, <2>2, <2>4
<1>3. Told(cmds) = {} => paused' = (owed' = "stop")
  BY <1>1
<1> QED BY <1>1, <1>2, <1>3 DEF CommandInv

LEMMA CommandNext == CommandInv /\ [EdgeNext]_edgeVars => CommandInv'
<1> SUFFICES ASSUME CommandInv, [EdgeNext]_edgeVars PROVE CommandInv'
  OBVIOUS
<1>1. CASE cmds' = cmds /\ paused' = paused /\ owed' = owed
           /\ (consumer' = consumer \/ consumer' # "handled")
  BY <1>1 DEF CommandInv
<1>2. CASE \E a \in Stops \cup {"cmd.stop"} : SendCommand(a)
  BY <1>2, CommandSent
<1>3. CASE HandleCommand
  BY <1>3, CommandHandled
<1>4. CASE Ack
  BY <1>4, CommandAcked
<1>5. CASE Exit \/ Crash
  BY <1>5, CommandsLeft DEF Exit, Crash
<1>6. CASE Consume \/ LoseConsumer \/ StopCommands
  BY <1>1, <1>6 DEF Consume, LoseConsumer, StopCommands
<1>7. CASE \/ Check \/ BeginRound \/ ConnectFails \/ Send \/ Receive \/ Split
           \/ ReadRejected \/ ReadFails \/ Respond \/ RespondTwice
  BY <1>1, <1>7 DEF Check, BeginRound, ConnectFails, Send, Receive, Split, ReadRejected,
     ReadFails, Respond, RespondTwice, command
<1>8. CASE Take \/ Publish \/ PublishLost \/ PublishFails \/ Signal \/ StopPollers \/ StartAgain
  BY <1>1, <1>8 DEF Take, Publish, PublishLost, PublishFails, Signal, StopPollers,
     StartAgain, command
<1>9. CASE UNCHANGED edgeVars
  BY <1>1, <1>9 DEF edgeVars, command
<1> QED BY <1>2, <1>3, <1>4, <1>5, <1>6, <1>7, <1>8, <1>9 DEF EdgeNext, ConsumerNext

\* Once no stop or resume is queued any more, the poller is paused exactly if the
\* last one that its process can know of was a stop: a command handled twice, or
\* delivered again behind a later one, undoes nothing (CmdConsumer::consumeLoop).
CommandsObeyed == Told(cmds) = {} => paused = (owed = "stop")

\* The safety half of LastCommandWins.
THEOREM Obeyed == EdgeSpec => []CommandsObeyed
<1>1. EdgeInit => CommandInv
  <2> SUFFICES ASSUME EdgeInit PROVE CommandInv
    OBVIOUS
  <2>1. cmds = <<>> /\ paused = FALSE /\ owed = "resume" /\ consumer = "off"
    BY DEF EdgeInit
  <2>2. DOMAIN cmds = {} /\ cmds \in Seq(Stops \cup {"cmd.stop"})
    BY <2>1
  <2> QED BY <2>1, <2>2 DEF CommandInv
<1>2. CommandInv => CommandsObeyed
  BY DEF CommandInv, CommandsObeyed
<1> QED BY <1>1, <1>2, CommandNext, PTL DEF EdgeSpec
=============================================================================
