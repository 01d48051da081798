-------------------------- MODULE DataIngestProofs --------------------------
(***************************************************************************)
(* Theorems about DataIngest, for any readings, sensors, batch sizes and   *)
(* prefetch, and any number of channels and failures.                      *)
(***************************************************************************)
EXTENDS DataIngest, TLAPS

Delivery == [m : Messages, retry : 0 .. kMaxRetry, tag : Nat, conn : Nat]
Result == [tag : Nat, ok : BOOLEAN, m : Messages]
Row == {d \in Delivery : d.m \notin Malformed}

TypeOK ==
  /\ DOMAIN queue \subseteq Copy /\ DOMAIN retrying \subseteq Copy
  /\ unacked \subseteq Delivery
  /\ lastTag \in Nat /\ connects \in Nat
  /\ buffer \in Seq(Delivery)
  /\ rows \in Seq(Row) /\ inserts \subseteq Seq(Row)
  /\ acks \in Seq(Result) /\ ackQueue \in Seq(Result)
-----------------------------------------------------------------------------
(* Bags and queues *)

LEMMA Bagged ==
  ASSUME NEW B, NEW x
  PROVE  /\ DOMAIN BagAdd(B, x) = DOMAIN B \cup {x}
         /\ DOMAIN BagRemove(B, x) \subseteq DOMAIN B
         /\ DOMAIN B \subseteq DOMAIN BagRemove(B, x) \cup {x}
BY DEF BagAdd, BagRemove

LEMMA Readied ==
  ASSUME NEW ds
  PROVE  \A c : c \in DOMAIN Ready(ds) <=> c \in DOMAIN queue \/ \E d \in ds : c = CopyOf(d)
<1>1. DOMAIN Ready(ds) = DOMAIN queue \cup {CopyOf(d) : d \in ds}
  BY DEF Ready, (+)
<1> QED BY <1>1

LEMMA InBag == ASSUME NEW B, NEW c PROVE BagIn(c, B) <=> c \in DOMAIN B
BY DEF BagIn, BagToSet

LEMMA Appended ==
  ASSUME NEW R, NEW q \in Seq(R), NEW e \in R
  PROVE  Append(q, e) \in Seq(R) /\ Elems(Append(q, e)) = Elems(q) \cup {e}
<1>1. /\ Append(q, e) \in Seq(R)
      /\ DOMAIN Append(q, e) = DOMAIN q \cup {Len(q) + 1}
      /\ \A i \in DOMAIN q : Append(q, e)[i] = q[i]
      /\ Append(q, e)[Len(q) + 1] = e
  OBVIOUS
<1> QED BY <1>1 DEF Elems

LEMMA Taken ==
  ASSUME NEW R, NEW q \in Seq(R), q # <<>>
  PROVE  /\ Head(q) \in R /\ Tail(q) \in Seq(R)
         /\ Head(q) \in Elems(q) /\ Elems(Tail(q)) \subseteq Elems(q)
<1>1. /\ Head(q) \in R /\ Tail(q) \in Seq(R)
      /\ 1 \in DOMAIN q /\ Head(q) = q[1]
      /\ \A i \in DOMAIN Tail(q) : i + 1 \in DOMAIN q /\ Tail(q)[i] = q[i + 1]
  OBVIOUS
<1> QED BY <1>1 DEF Elems

LEMMA Joined ==
  ASSUME NEW R, NEW q \in Seq(R), NEW p \in Seq(R)
  PROVE  q \o p \in Seq(R) /\ Elems(q \o p) \subseteq Elems(q) \cup Elems(p)
<1>1. /\ q \o p \in Seq(R)
      /\ \A i \in DOMAIN (q \o p) :
           \/ i \in DOMAIN q /\ (q \o p)[i] = q[i]
           \/ i - Len(q) \in DOMAIN p /\ (q \o p)[i] = p[i - Len(q)]
  OBVIOUS
<1> QED BY <1>1 DEF Elems

LEMMA Empty == Elems(<<>>) = {}
BY DEF Elems

LEMMA Elements == ASSUME NEW R, NEW q \in Seq(R) PROVE Elems(q) \subseteq R
BY DEF Elems

\* The results of a batch are about its rows.
LEMMA Resulted ==
  ASSUME NEW b \in Seq(Row), NEW ok \in BOOLEAN
  PROVE  /\ Results(b, ok) \in Seq(Result)
         /\ \A r \in Elems(Results(b, ok)) : r.ok = ok /\ \E d \in Elems(b) : r.m = d.m
<1>1. ASSUME NEW i \in DOMAIN b
      PROVE  /\ [tag |-> b[i].tag, ok |-> ok, m |-> b[i].m] \in Result
             /\ b[i] \in Elems(b)
  BY DEF Result, Row, Delivery, Elems
<1>2. \E n \in Nat : DOMAIN b = 1 .. n
  OBVIOUS
<1>3. Results(b, ok) \in Seq(Result)
  BY <1>1, <1>2 DEF Results
<1>4. ASSUME NEW r \in Elems(Results(b, ok))
      PROVE  r.ok = ok /\ \E d \in Elems(b) : r.m = d.m
  <2> PICK i \in DOMAIN b : r = [tag |-> b[i].tag, ok |-> ok, m |-> b[i].m]
    BY DEF Elems, Results
  <2>1. r.m = b[i].m
    OBVIOUS
  <2>2. r.ok = ok
    OBVIOUS
  <2> QED BY <1>1, <2>1, <2>2
<1> QED BY <1>3, <1>4
-----------------------------------------------------------------------------
(* Type correctness *)

LEMMA TypeInit == Init => TypeOK
<1> SUFFICES ASSUME Init PROVE TypeOK
  OBVIOUS
<1> DEFINE S == {[m |-> m, retry |-> 0] : m \in Messages}
<1>1. S \subseteq Copy
  BY ParametersAssumption DEF Copy
<1>2. DOMAIN SetToBag(S) = S /\ DOMAIN EmptyBag = {}
  BY DEF SetToBag, EmptyBag
<1>3. DOMAIN queue \subseteq Copy /\ DOMAIN retrying \subseteq Copy
  BY <1>1, <1>2 DEF Init
<1>4. /\ unacked = {} /\ lastTag = 0 /\ connects = 0 /\ inserts = {}
      /\ buffer = <<>> /\ rows = <<>> /\ acks = <<>> /\ ackQueue = <<>>
  BY DEF Init
<1> QED BY <1>3, <1>4 DEF TypeOK

LEMMA Copies == ASSUME NEW d \in Delivery PROVE CopyOf(d) \in Copy /\ CopyOf(d).m = d.m
BY DEF Delivery, CopyOf, Copy

LEMMA ReadyCopies ==
  ASSUME TypeOK, NEW ds \in SUBSET Delivery
  PROVE  DOMAIN Ready(ds) \subseteq Copy
<1>1. DOMAIN queue \subseteq Copy
  BY DEF TypeOK
<1>2. \A d \in ds : CopyOf(d) \in Copy
  BY Copies
<1>3. ASSUME NEW c \in DOMAIN Ready(ds) PROVE c \in Copy
  <2>1. c \in DOMAIN queue \/ \E d \in ds : c = CopyOf(d)
    BY <1>3, Readied
  <2> QED BY <1>1, <1>2, <2>1
<1> QED BY <1>3

LEMMA Requeued ==
  ASSUME TypeOK, Requeue
  PROVE  DOMAIN queue' \subseteq Copy /\ unacked' \subseteq Delivery
<1>1. unacked \subseteq Delivery
  BY DEF TypeOK
<1> QED BY <1>1, ReadyCopies DEF Requeue

LEMMA TypePush ==
  ASSUME TypeOK, NEW c \in Copy, Push(c)
  PROVE  TypeOK'
<1> DEFINE d == [m |-> c.m, retry |-> c.retry, tag |-> lastTag + 1, conn |-> connects]
<1>1. /\ unacked' = unacked \cup {d} /\ buffer' = Append(buffer, d)
      /\ queue' = BagRemove(queue, c) /\ lastTag' = lastTag + 1
      /\ UNCHANGED <<retrying, connects, acks, rows, ackQueue, inserts>>
  BY DEF Push, database
<1>2. d \in Delivery
  BY DEF TypeOK, Copy, Delivery
<1> HIDE DEF d
<1>3. buffer' \in Seq(Delivery) /\ unacked' \subseteq Delivery /\ lastTag' \in Nat
  BY <1>1, <1>2 DEF TypeOK
<1>4. DOMAIN queue' \subseteq Copy
  <2>1. DOMAIN BagRemove(queue, c) \subseteq DOMAIN queue
    BY Bagged
  <2> QED BY <1>1, <2>1 DEF TypeOK
<1> QED BY <1>1, <1>3, <1>4 DEF TypeOK

LEMMA TypeInvalid ==
  ASSUME TypeOK, NEW d, Invalid(d) \/ InvalidThrows(d)
  PROVE  TypeOK'
<1>1. d \in Delivery /\ buffer # <<>> /\ d = Head(buffer)
  <2>1. buffer # <<>> /\ d = Head(buffer)
    BY DEF Invalid, InvalidThrows, Consumes
  <2>2. buffer \in Seq(Delivery)
    BY DEF TypeOK
  <2> QED BY <2>1, <2>2, Taken
<1>2. UNCHANGED <<queue, lastTag, connects, rows, ackQueue, inserts>>
  BY DEF Invalid, InvalidThrows, Reset, database
<1>3. /\ buffer' \in Seq(Delivery) /\ acks' \in Seq(Result)
      /\ unacked' \subseteq Delivery
  <2>1. Tail(buffer) \in Seq(Delivery) /\ <<>> \in Seq(Delivery) /\ <<>> \in Seq(Result)
    BY <1>1 DEF TypeOK
  <2>2. /\ buffer' = Tail(buffer) \/ buffer' = <<>>
        /\ acks' = acks \/ acks' = <<>>
        /\ unacked' \subseteq unacked
    BY DEF Invalid, InvalidThrows, Reset
  <2> QED BY <2>1, <2>2 DEF TypeOK
<1>4. \/ retrying' = retrying
      \/ /\ d.retry < kMaxRetry
         /\ retrying' = BagAdd(retrying, [CopyOf(d) EXCEPT !.retry = @ + 1])
  BY <1>1, ParametersAssumption DEF Invalid, InvalidThrows, Delivery
<1>5. d.retry < kMaxRetry => [CopyOf(d) EXCEPT !.retry = @ + 1] \in Copy
  BY <1>1, ParametersAssumption DEF Delivery, CopyOf, Copy
<1>6. DOMAIN retrying' \subseteq Copy
  <2>1. DOMAIN retrying \subseteq Copy
    BY DEF TypeOK
  <2>2. ASSUME NEW c \in Copy, retrying' = BagAdd(retrying, c)
        PROVE  DOMAIN retrying' \subseteq Copy
    <3>1. DOMAIN retrying' = DOMAIN retrying \cup {c}
      BY <2>2, Bagged
    <3> QED BY <2>1, <3>1
  <2> QED BY <1>4, <1>5, <2>1, <2>2
<1> QED BY <1>2, <1>3, <1>6 DEF TypeOK

\* A reading joins the rows being collected.
LEMMA Collected ==
  ASSUME TypeOK, NEW d, Reading(d)
  PROVE  /\ d \in Row /\ Append(rows, d) \in Seq(Row)
         /\ Elems(Append(rows, d)) = Elems(rows) \cup {d}
         /\ \/ inserts' = inserts \cup {Append(rows, d)} /\ rows' = <<>>
            \/ inserts' = inserts /\ rows' = Append(rows, d)
<1>1. d \in Row
  <2>1. buffer # <<>> /\ d = Head(buffer) /\ d.m \notin Malformed
    BY DEF Reading, Consumes, validate
  <2>2. buffer \in Seq(Delivery)
    BY DEF TypeOK
  <2>3. d \in Delivery
    BY <2>1, <2>2, Taken
  <2> QED BY <2>1, <2>3 DEF Row
<1>2. rows \in Seq(Row)
  BY DEF TypeOK
<1>3. /\ Append(rows, d) \in Seq(Row)
      /\ Elems(Append(rows, d)) = Elems(rows) \cup {d}
  BY <1>1, <1>2, Appended
<1> QED BY <1>1, <1>3 DEF Reading, Collect

LEMMA TypeNext ==
  ASSUME TypeOK, [Next]_vars
  PROVE  TypeOK'
<1>1. CASE UNCHANGED vars \/ LoadThresholds
           \/ \E s \in Sensors : \/ WindowEnds(s) \/ HandleAlert(s) \/ AlertInsertFails(s)
                                 \/ AlertInserted(s)
  <2>1. UNCHANGED <<broker, thread, ackQueue, inserts>>
    BY <1>1 DEF vars, database, LoadThresholds, WindowEnds, HandleAlert, AlertInsertFails,
                AlertInserted
  <2> QED BY <2>1 DEF TypeOK, broker, thread
<1>2. ASSUME NEW c \in Copy, Return(c) PROVE TypeOK'
  <2>1. /\ DOMAIN retrying' \subseteq DOMAIN retrying
        /\ DOMAIN queue' = DOMAIN queue \cup {c}
    BY <1>2, Bagged DEF Return
  <2>2. UNCHANGED <<unacked, lastTag, thread, ackQueue, inserts>>
    BY <1>2 DEF Return, database
  <2> QED BY <2>1, <2>2 DEF TypeOK, thread
<1>3. CASE LoseConnection
  BY <1>3, Requeued DEF LoseConnection, TypeOK, database
<1>4. CASE Connect
  BY <1>4 DEF Connect, TypeOK, database
<1>5. CASE TakeAcks
  BY <1>5 DEF TakeAcks, TypeOK, broker, database
<1>6. ASSUME NEW d \in unacked, Settle(d) PROVE TypeOK'
  <2>1. DOMAIN queue' \subseteq Copy
    <3>1. {d} \in SUBSET Delivery
      BY DEF TypeOK
    <3>2. DOMAIN Ready({d}) \subseteq Copy
      BY <3>1, ReadyCopies
    <3>3. queue' = queue \/ queue' = Ready({d})
      BY <1>6 DEF Settle
    <3> QED BY <3>2, <3>3 DEF TypeOK
  <2>2. acks' \in Seq(Result) /\ unacked' \subseteq Delivery
    BY <1>6 DEF Settle, TypeOK
  <2>3. UNCHANGED <<retrying, lastTag, connects, buffer, rows, ackQueue, inserts>>
    BY <1>6 DEF Settle, database
  <2> QED BY <2>1, <2>2, <2>3 DEF TypeOK
<1>7. CASE SettleUnknown
  BY <1>7, Requeued DEF SettleUnknown, TypeOK, database
<1>8. CASE Notice
  BY <1>8 DEF Notice, Reset, TypeOK, broker, database
<1>9. ASSUME NEW d, Reading(d) PROVE TypeOK'
  <2>1. rows' \in Seq(Row) /\ inserts' \subseteq Seq(Row)
    <3>1. <<>> \in Seq(Row) /\ inserts \subseteq Seq(Row)
      BY DEF TypeOK
    <3> QED BY <1>9, <3>1, Collected
  <2>2. buffer' \in Seq(Delivery)
    BY <1>9 DEF Reading, Consumes, TypeOK
  <2> QED BY <1>9, <2>1, <2>2 DEF Reading, TypeOK, broker
<1>10. ASSUME NEW d, AlarmThrows(d) PROVE TypeOK'
  BY <1>10 DEF AlarmThrows, Reset, TypeOK, broker, database
<1>11. CASE Idle
  BY <1>11 DEF Idle, TypeOK, broker, database
<1>12. CASE Flush
  BY <1>12 DEF Flush, TypeOK, broker
<1>13. ASSUME NEW b \in inserts, Inserted(b) \/ InsertFails(b) PROVE TypeOK'
  <2>1. ackQueue' = ackQueue \o Results(b, TRUE) \/ ackQueue' = ackQueue \o Results(b, FALSE)
    BY <1>13 DEF Inserted, InsertFails
  <2>2. Results(b, TRUE) \in Seq(Result) /\ Results(b, FALSE) \in Seq(Result)
    BY Resulted DEF TypeOK
  <2>3. ackQueue' \in Seq(Result)
    BY <2>1, <2>2, Joined DEF TypeOK
  <2> QED BY <1>13, <2>3 DEF Inserted, InsertFails, TypeOK, broker, thread
<1>14. CASE Crash
  BY <1>14, Requeued DEF Crash, TypeOK
<1>15. CASE Next
  <2>1. CASE Broker
    BY <1>2, <2>1, TypePush DEF Broker
  <2>2. CASE Thread
    BY <1>4, <1>5, <1>6, <1>7, <1>8, <1>9, <1>10, <1>11, <1>12, <2>2, TypeInvalid DEF Thread
  <2>3. CASE Database
    BY <1>1, <1>13, <2>3 DEF Database
  <2> QED BY <1>1, <1>3, <1>13, <1>14, <1>15, <2>1, <2>2, <2>3 DEF Next
<1> QED BY <1>1, <1>15

\* Every queue, batch and result keeps to its type; no batch has a malformed row.
THEOREM TypeCorrect == Spec => []TypeOK
BY TypeInit, TypeNext, PTL DEF Spec
-----------------------------------------------------------------------------
(* Readings *)

\* What ReadingsAccounted asks of one reading.
Placed(m) ==
  \/ m \in stored \cup dlq \cup mistaken
  \/ \E c \in DOMAIN queue \cup DOMAIN retrying : c.m = m
  \/ \E d \in unacked : d.m = m

\* A result that acknowledges is about a reading the database has.
OkStored == \A r \in Elems(acks) \cup Elems(ackQueue) : r.ok = TRUE => r.m \in stored

RInv ==
  /\ OkStored
  /\ \A m \in Messages : Placed(m)
  /\ dlq \subseteq Malformed
  /\ stored \cap Malformed = {}

LEMMA Places == TypeOK /\ RInv => ReadingsAccounted
<1> SUFFICES ASSUME TypeOK, RInv PROVE ReadingsAccounted
  OBVIOUS
<1>1. DOMAIN queue \subseteq Copy /\ DOMAIN retrying \subseteq Copy
  BY DEF TypeOK
<1>2. \A c : (BagIn(c, queue) <=> c \in DOMAIN queue) /\ (BagIn(c, retrying) <=> c \in DOMAIN retrying)
  BY InBag
<1> QED BY <1>1, <1>2 DEF ReadingsAccounted, RInv, Placed

\* A step keeps every reading placed if it takes nothing that is settled and
\* leaves the reading of every copy and every delivery somewhere.
LEMMA Kept ==
  ASSUME stored \subseteq stored', dlq \subseteq dlq', mistaken \subseteq mistaken',
         \A c \in DOMAIN queue \cup DOMAIN retrying : Placed(c.m)',
         \A d \in unacked : Placed(d.m)',
         NEW m, Placed(m)
  PROVE  Placed(m)'
<1>1. CASE m \in stored \cup dlq \cup mistaken
  BY <1>1 DEF Placed
<1>2. CASE \E c \in DOMAIN queue \cup DOMAIN retrying : c.m = m
  BY <1>2
<1>3. CASE \E d \in unacked : d.m = m
  BY <1>3
<1> QED BY <1>1, <1>2, <1>3 DEF Placed

LEMMA ReadingsInit == Init => RInv
<1> SUFFICES ASSUME Init PROVE RInv
  OBVIOUS
<1>2. DOMAIN queue = {[m |-> m, retry |-> 0] : m \in Messages}
  BY DEF Init, SetToBag
<1>3. \A m \in Messages : Placed(m)
  <2> TAKE m \in Messages
  <2>1. [m |-> m, retry |-> 0] \in DOMAIN queue /\ [m |-> m, retry |-> 0].m = m
    BY <1>2
  <2> QED BY <2>1 DEF Placed
<1>4. dlq = {} /\ stored = {} /\ acks = <<>> /\ ackQueue = <<>>
  BY DEF Init
<1>5. OkStored
  BY <1>4, Empty DEF OkStored
<1> QED BY <1>3, <1>4, <1>5 DEF RInv

\* What a step owes; its effect on the results is stated apart.
LEMMA Accounted ==
  ASSUME RInv, OkStored',
         stored \subseteq stored', dlq \subseteq dlq', mistaken \subseteq mistaken',
         \A c \in DOMAIN queue \cup DOMAIN retrying : Placed(c.m)',
         \A d \in unacked : Placed(d.m)',
         dlq' \subseteq Malformed, stored' \cap Malformed = {}
  PROVE  RInv'
BY Kept DEF RInv

\* A step that moves no reading and produces no result that acknowledges.
LEMMA Still ==
  ASSUME RInv, UNCHANGED <<broker, stored, mistaken>>,
         \A r \in Elems(acks') \cup Elems(ackQueue') :
           r.ok = TRUE => r \in Elems(acks) \cup Elems(ackQueue)
  PROVE  RInv'
<1>1. OkStored'
  BY DEF RInv, OkStored
<1> QED BY <1>1 DEF RInv, Placed, broker

\* A channel that closes with its deliveries put back.
LEMMA Closed ==
  ASSUME TypeOK, RInv, OkStored', Requeue, UNCHANGED <<retrying, dlq, mistaken>>,
         stored \subseteq stored', stored' \cap Malformed = {}
  PROVE  RInv'
<1>1. ASSUME NEW c \in DOMAIN queue \cup DOMAIN retrying PROVE Placed(c.m)'
  <2>1. c \in DOMAIN queue' \cup DOMAIN retrying'
    BY <1>1, Readied DEF Requeue
  <2> QED BY <2>1 DEF Placed
<1>2. ASSUME NEW d \in unacked PROVE Placed(d.m)'
  <2>1. CopyOf(d) \in DOMAIN queue' /\ CopyOf(d).m = d.m
    BY <1>2, Readied DEF Requeue, CopyOf
  <2> QED BY <2>1 DEF Placed
<1> QED BY <1>1, <1>2, Accounted DEF RInv

LEMMA ReadingsMove ==
  ASSUME TypeOK, RInv, NEW c \in Copy, Push(c) \/ Return(c)
  PROVE  RInv'
<1>1. UNCHANGED <<dlq, stored, mistaken, acks, ackQueue>>
  BY DEF Push, Return, thread, database
<1>2. OkStored'
  BY <1>1 DEF RInv, OkStored
<1>3. CASE Push(c)
  <2> DEFINE d == [m |-> c.m, retry |-> c.retry, tag |-> lastTag + 1, conn |-> connects]
  <2>1. d \in unacked' /\ d.m = c.m /\ unacked \subseteq unacked' /\ retrying' = retrying
    BY <1>3 DEF Push
  <2>2. DOMAIN queue \subseteq DOMAIN queue' \cup {c}
    BY <1>3, Bagged DEF Push
  <2> HIDE DEF d
  <2>3. ASSUME NEW e \in DOMAIN queue \cup DOMAIN retrying PROVE Placed(e.m)'
    BY <2>1, <2>2 DEF Placed
  <2>4. ASSUME NEW e \in unacked PROVE Placed(e.m)'
    BY <2>1 DEF Placed
  <2> QED BY <1>1, <1>2, <2>3, <2>4, Accounted DEF RInv
<1>4. CASE Return(c)
  <2>1. DOMAIN queue' = DOMAIN queue \cup {c} /\ unacked' = unacked
    BY <1>4, Bagged DEF Return
  <2>2. DOMAIN retrying \subseteq DOMAIN retrying' \cup {c}
    BY <1>4, Bagged DEF Return
  <2>3. ASSUME NEW e \in DOMAIN queue \cup DOMAIN retrying PROVE Placed(e.m)'
    BY <2>1, <2>2 DEF Placed
  <2>4. ASSUME NEW e \in unacked PROVE Placed(e.m)'
    BY <2>1 DEF Placed
  <2> QED BY <1>1, <1>2, <2>3, <2>4, Accounted DEF RInv
<1> QED BY <1>3, <1>4

\* An acknowledgement is of a stored reading, or takes another's place.
LEMMA ReadingsSettle ==
  ASSUME TypeOK, RInv, NEW d \in unacked, Settle(d)
  PROVE  RInv'
<1> PICK r : r = Head(acks)
  OBVIOUS
<1>1. /\ acks # <<>> /\ acks' = Tail(acks)
      /\ unacked' = unacked \ {d}
      /\ queue' = IF r.ok THEN queue ELSE Ready({d})
      /\ mistaken' = IF r.m = d.m THEN mistaken ELSE mistaken \cup {d.m}
      /\ UNCHANGED <<retrying, dlq, stored, ackQueue>>
  BY DEF Settle, database
<1>2. r \in Elems(acks) /\ r \in Result /\ Elems(acks') \subseteq Elems(acks)
  <2>1. acks \in Seq(Result)
    BY DEF TypeOK
  <2> QED BY <1>1, <2>1, Taken
<1>3. OkStored'
  BY <1>1, <1>2 DEF RInv, OkStored
<1>4. DOMAIN queue \subseteq DOMAIN queue' /\ mistaken \subseteq mistaken'
  BY <1>1, Readied
<1>5. Placed(d.m)'
  <2>1. CASE r.m # d.m
    BY <1>1, <2>1 DEF Placed
  <2>2. CASE r.m = d.m /\ r.ok = TRUE
    BY <1>1, <1>2, <2>2 DEF Placed, RInv, OkStored
  <2>3. CASE r.ok = FALSE
    <3>1. queue' = Ready({d})
      BY <1>1, <2>3
    <3>2. CopyOf(d) \in DOMAIN queue' /\ CopyOf(d).m = d.m
      BY <3>1, Readied DEF CopyOf
    <3> QED BY <3>2 DEF Placed
  <2>4. r.ok \in BOOLEAN
    BY <1>2 DEF Result
  <2> QED BY <2>1, <2>2, <2>3, <2>4
<1>6. ASSUME NEW c \in DOMAIN queue \cup DOMAIN retrying PROVE Placed(c.m)'
  BY <1>1, <1>4 DEF Placed
<1>7. ASSUME NEW e \in unacked PROVE Placed(e.m)'
  BY <1>1, <1>5 DEF Placed
<1> QED BY <1>1, <1>3, <1>4, <1>6, <1>7, Accounted DEF RInv

\* A malformed delivery goes on to the retry queue or the dead-letter queue.
LEMMA ReadingsInvalid ==
  ASSUME TypeOK, RInv, NEW d, Invalid(d) \/ InvalidThrows(d)
  PROVE  RInv'
<1>1. PICK c : /\ c.m = d.m
               /\ retrying' = retrying \/ retrying' = BagAdd(retrying, c)
               /\ \/ unacked' = unacked
                  \/ d.m \in dlq'
                  \/ retrying' = BagAdd(retrying, c)
  <2> DEFINE n == [CopyOf(d) EXCEPT !.retry = @ + 1]
  <2>1. n.m = d.m
    BY DEF CopyOf
  <2>2. /\ retrying' = retrying \/ retrying' = BagAdd(retrying, n)
        /\ \/ unacked' = unacked
           \/ d.m \in dlq'
           \/ retrying' = BagAdd(retrying, n)
    BY DEF Invalid, InvalidThrows
  <2> HIDE DEF n
  <2> QED BY <2>1, <2>2
<1>2. DOMAIN BagAdd(retrying, c) = DOMAIN retrying \cup {c}
  BY Bagged
<1>3. UNCHANGED <<queue, stored, mistaken, ackQueue>> /\ (acks' = acks \/ acks' = <<>>)
  BY DEF Invalid, InvalidThrows, Reset, database
<1>4. OkStored'
  BY <1>3, Empty DEF RInv, OkStored
<1>5. d.m \in Malformed
  <2>1. buffer # <<>> /\ d = Head(buffer) /\ ~validate(d.m)
    BY DEF Invalid, InvalidThrows, Consumes
  <2>2. buffer \in Seq(Delivery)
    BY DEF TypeOK
  <2>3. d \in Delivery
    BY <2>1, <2>2, Taken
  <2> QED BY <2>1, <2>3 DEF validate, Delivery
<1>6. /\ DOMAIN retrying \subseteq DOMAIN retrying' /\ dlq \subseteq dlq'
      /\ dlq' \subseteq Malformed
      /\ \A e \in unacked : e = d \/ e \in unacked'
  <2>1. DOMAIN retrying \subseteq DOMAIN retrying'
    BY <1>1, <1>2
  <2>2. dlq' = dlq \/ dlq' = dlq \cup {d.m}
    BY DEF Invalid, InvalidThrows
  <2>3. \A e \in unacked : e = d \/ e \in unacked'
    BY DEF Invalid, InvalidThrows
  <2> QED BY <1>5, <2>1, <2>2, <2>3 DEF RInv
<1>7. unacked' = unacked \/ Placed(d.m)'
  <2>1. CASE d.m \in dlq'
    BY <2>1 DEF Placed
  <2>2. CASE retrying' = BagAdd(retrying, c)
    <3>1. c \in DOMAIN retrying'
      BY <2>2, <1>2
    <3> QED BY <1>1, <3>1 DEF Placed
  <2> QED BY <1>1, <2>1, <2>2
<1>8. ASSUME NEW e \in DOMAIN queue \cup DOMAIN retrying PROVE Placed(e.m)'
  BY <1>3, <1>6 DEF Placed
<1>9. ASSUME NEW e \in unacked PROVE Placed(e.m)'
  BY <1>6, <1>7 DEF Placed
<1> QED BY <1>3, <1>4, <1>6, <1>8, <1>9, Accounted DEF RInv

\* A batch is well-formed readings: what it stores is not malformed.
LEMMA Stores ==
  ASSUME TypeOK, RInv,
         \A m \in stored' : m \in stored \/ \E b \in inserts : \E d \in Elems(b) : d.m = m
  PROVE  stored' \cap Malformed = {}
<1>1. \A b \in inserts : b \in Seq(Row)
  BY DEF TypeOK
<1>2. \A b \in inserts : Elems(b) \subseteq Row
  BY <1>1, Elements
<1> QED BY <1>2 DEF RInv, Row

LEMMA ReadingsAnswered ==
  ASSUME TypeOK, RInv, NEW b \in inserts, Inserted(b) \/ InsertFails(b)
  PROVE  RInv'
<1>1. b \in Seq(Row) /\ ackQueue \in Seq(Result)
  BY DEF TypeOK
<1>2. UNCHANGED <<broker, mistaken, acks>>
  BY DEF Inserted, InsertFails, thread
<1>3. ASSUME NEW ok \in BOOLEAN
      PROVE  /\ Elems(ackQueue \o Results(b, ok)) \subseteq Elems(ackQueue) \cup Elems(Results(b, ok))
             /\ \A r \in Elems(Results(b, ok)) : r.ok = ok /\ \E d \in Elems(b) : r.m = d.m
  <2>1. Results(b, ok) \in Seq(Result)
    BY <1>1, Resulted
  <2>2. \A r \in Elems(Results(b, ok)) : r.ok = ok /\ \E d \in Elems(b) : r.m = d.m
    BY <1>1, Resulted
  <2>3. Elems(ackQueue \o Results(b, ok)) \subseteq Elems(ackQueue) \cup Elems(Results(b, ok))
    BY <1>1, <2>1, Joined
  <2> QED BY <2>2, <2>3
<1>4. CASE Inserted(b)
  <2>1. stored' = stored \cup {d.m : d \in Elems(b)} /\ ackQueue' = ackQueue \o Results(b, TRUE)
    BY <1>4 DEF Inserted
  <2>2. stored \subseteq stored' /\ \A m \in stored' : m \in stored \/ \E d \in Elems(b) : d.m = m
    BY <2>1
  <2>3. stored \subseteq stored' /\ stored' \cap Malformed = {}
    BY <2>2, Stores
  <2>4. OkStored'
    BY <1>2, <1>3, <2>1 DEF RInv, OkStored
  <2>5. \A m : Placed(m) => Placed(m)'
    BY <1>2, <2>3 DEF Placed, broker
  <2> QED BY <1>2, <2>3, <2>4, <2>5 DEF RInv, broker
<1>5. CASE InsertFails(b)
  <2>1. stored' = stored /\ ackQueue' = ackQueue \o Results(b, FALSE)
    BY <1>5 DEF InsertFails
  <2>2. \A r \in Elems(ackQueue') : r \in Elems(ackQueue) \/ r.ok = FALSE
    BY <1>3, <2>1
  <2> QED BY <1>2, <2>1, <2>2, Still
<1> QED BY <1>4, <1>5

LEMMA ReadingsClose ==
  ASSUME TypeOK, RInv, LoseConnection \/ SettleUnknown \/ Crash
  PROVE  RInv'
<1>1. Requeue /\ UNCHANGED <<retrying, dlq, mistaken>>
  BY DEF LoseConnection, SettleUnknown, Crash
<1>2. CASE LoseConnection
  <2>1. UNCHANGED <<stored, acks, ackQueue>>
    BY <1>2 DEF LoseConnection, database
  <2> QED BY <1>1, <2>1, Closed DEF RInv, OkStored
<1>3. CASE SettleUnknown
  <2>1. acks # <<>> /\ acks' = Tail(acks) /\ UNCHANGED <<stored, ackQueue>>
    BY <1>3 DEF SettleUnknown, database
  <2>2. acks \in Seq(Result)
    BY DEF TypeOK
  <2>3. Elems(acks') \subseteq Elems(acks)
    BY <2>1, <2>2, Taken
  <2>4. OkStored'
    BY <2>1, <2>3 DEF RInv, OkStored
  <2> QED BY <1>1, <2>1, <2>4, Closed DEF RInv
<1>4. CASE Crash
  <2>1. acks' = <<>> /\ ackQueue' = <<>>
    BY <1>4 DEF Crash
  <2>2. OkStored'
    BY <2>1, Empty DEF OkStored
  <2>3. PICK bs \in SUBSET inserts :
               stored' = stored \cup {d.m : d \in UNION {Elems(b) : b \in bs}}
    BY <1>4 DEF Crash
  <2>4. /\ stored \subseteq stored'
        /\ \A m \in stored' : m \in stored \/ \E b \in inserts : \E d \in Elems(b) : d.m = m
    BY <2>3
  <2>5. stored' \cap Malformed = {}
    BY <2>4, Stores
  <2> QED BY <1>1, <2>2, <2>4, <2>5, Closed
<1> QED BY <1>2, <1>3, <1>4

LEMMA ReadingsNext ==
  ASSUME TypeOK, RInv, [Next]_vars
  PROVE  RInv'
<1>1. ASSUME UNCHANGED <<broker, stored, mistaken>>,
             acks' \in {acks, ackQueue, <<>>}, ackQueue' \in {ackQueue, <<>>}
      PROVE  RInv'
  <2>1. Elems(acks') \cup Elems(ackQueue') \subseteq Elems(acks) \cup Elems(ackQueue)
    BY <1>1, Empty
  <2> QED BY <1>1, <2>1, Still
<1>2. CASE UNCHANGED vars \/ LoadThresholds
           \/ \E s \in Sensors : \/ WindowEnds(s) \/ HandleAlert(s) \/ AlertInsertFails(s)
                                 \/ AlertInserted(s)
  BY <1>1, <1>2 DEF vars, database, thread, LoadThresholds, WindowEnds, HandleAlert,
                    AlertInsertFails, AlertInserted
<1>3. CASE TakeAcks \/ Notice \/ Idle \/ Flush
  BY <1>1, <1>3 DEF database, TakeAcks, Notice, Reset, Idle, Flush
<1>4. CASE Connect
  <2>1. UNCHANGED <<queue, retrying, dlq, unacked, stored, mistaken, acks, ackQueue>>
    BY <1>4 DEF Connect, database
  <2> QED BY <2>1 DEF RInv, OkStored, Placed
<1>5. ASSUME NEW d, Reading(d) \/ AlarmThrows(d) PROVE RInv'
  BY <1>1, <1>5 DEF database, Reading, AlarmThrows, Reset
<1>6. CASE Next
  <2>1. CASE Broker
    BY <2>1, ReadingsMove DEF Broker
  <2>2. CASE Thread
    BY <1>3, <1>4, <1>5, <2>2, ReadingsSettle, ReadingsInvalid, ReadingsClose DEF Thread
  <2>3. CASE Database
    BY <1>2, <2>3, ReadingsAnswered DEF Database
  <2> QED BY <1>2, <1>6, <2>1, <2>2, <2>3, ReadingsAnswered, ReadingsClose DEF Next
<1> QED BY <1>2, <1>6

\* No reading is lost on its way to the database.
THEOREM ReadingsTracked == Spec => []ReadingsAccounted
<1>1. Init => TypeOK /\ RInv
  BY TypeInit, ReadingsInit
<1>2. TypeOK /\ RInv /\ [Next]_vars => (TypeOK /\ RInv)'
  BY TypeNext, ReadingsNext
<1> QED BY <1>1, <1>2, Places, PTL DEF Spec
-----------------------------------------------------------------------------
(* Alerts *)

Announced == alerts \cup alertJobs \cup recorded \cup lostAlerts
Told(m) == m \in blind \/ Alarm[m] \in Announced

\* A row of m has been collected and is not stored yet.
Held(m) ==
  \/ \E d \in Elems(rows) : d.m = m
  \/ \E b \in inserts : \E d \in Elems(b) : d.m = m

\* A sensor in the window was announced, and so was every alarm from the moment
\* its row is collected.
AInv ==
  /\ window \subseteq Announced
  /\ \A m \in DOMAIN Alarm : m \in stored \/ Held(m) => Told(m)

LEMMA AlertsInit == Init => AInv
<1> SUFFICES ASSUME Init PROVE AInv
  OBVIOUS
<1>1. window = {} /\ stored = {} /\ rows = <<>> /\ inserts = {}
  BY DEF Init
<1> QED BY <1>1, Empty DEF AInv, Held

\* An announced sensor stays so; a row that appears must have been told.
LEMMA Announcing ==
  ASSUME AInv, Announced \subseteq Announced', blind \subseteq blind',
         window' \subseteq window \cup Announced',
         \A m \in DOMAIN Alarm : m \in stored' \/ Held(m)' => m \in stored \/ Held(m) \/ Told(m)'
  PROVE  AInv'
<1>1. \A m \in DOMAIN Alarm : Told(m) => Told(m)'
  BY DEF Told
<1> QED BY <1>1 DEF AInv

\* A step of no alarm that only moves rows towards the database or drops them.
LEMMA Quiet ==
  ASSUME AInv, UNCHANGED alarms,
         \A m \in DOMAIN Alarm : m \in stored' \/ Held(m)' => m \in stored \/ Held(m)
  PROVE  AInv'
<1>1. Announced' = Announced /\ blind' = blind /\ window' = window
  BY DEF alarms, Announced
<1> QED BY <1>1, Announcing

\* A step that moves no row.
LEMMA Unmoved ==
  ASSUME UNCHANGED <<rows, inserts, stored>>
  PROVE  \A m \in DOMAIN Alarm : m \in stored' \/ Held(m)' => m \in stored \/ Held(m)
BY DEF Held

\* The alert path: from the queue to iot_alerts or to a loss.
LEMMA AlertsMove ==
  ASSUME AInv, NEW s \in Sensors,
         WindowEnds(s) \/ HandleAlert(s) \/ AlertInserted(s) \/ AlertInsertFails(s)
  PROVE  AInv'
<1>1. UNCHANGED <<rows, inserts, stored, blind>> /\ window' \subseteq window
  BY DEF WindowEnds, HandleAlert, AlertInserted, AlertInsertFails, thread, database
<1>2. Announced \subseteq Announced'
  BY DEF WindowEnds, HandleAlert, AlertInserted, AlertInsertFails, Announced
<1> QED BY <1>1, <1>2, Unmoved, Announcing

LEMMA AlertsCrash ==
  ASSUME AInv, Crash
  PROVE  AInv'
<1>1. window' = {} /\ blind' = blind /\ rows' = <<>> /\ inserts' = {}
  BY DEF Crash
<1>2. Announced \subseteq Announced'
  BY DEF Crash, Announced
<1>3. PICK bs \in SUBSET inserts :
             stored' = stored \cup {d.m : d \in UNION {Elems(b) : b \in bs}}
  BY DEF Crash
<1>4. \A m : m \in stored' \/ Held(m)' => m \in stored \/ Held(m)
  <2>1. \A m : ~Held(m)'
    BY <1>1, Empty DEF Held
  <2> QED BY <1>3, <2>1 DEF Held
<1> QED BY <1>1, <1>2, <1>4, Announcing

LEMMA AlertsAnswered ==
  ASSUME AInv, NEW b \in inserts, Inserted(b) \/ InsertFails(b)
  PROVE  AInv'
<1>1. /\ UNCHANGED alarms /\ rows' = rows /\ inserts' \subseteq inserts
      /\ \/ stored' = stored
         \/ stored' = stored \cup {d.m : d \in Elems(b)}
  BY DEF Inserted, InsertFails, thread
<1>2. \A m : m \in stored' \/ Held(m)' => m \in stored \/ Held(m)
  BY <1>1 DEF Held
<1> QED BY <1>1, <1>2, Quiet

\* The window is entered before the publication that may throw, and the alert
\* is then at the broker or lost.
LEMMA AlertsReading ==
  ASSUME TypeOK, AInv, NEW d, Reading(d)
  PROVE  AInv'
<1>1. UNCHANGED <<stored, alertJobs, recorded, lostAlerts, loaded>>
  BY DEF Reading
<1>2. \/ /\ Announces(d.m)
         /\ window' = window \cup {Alarm[d.m]}
         /\ alerts' = alerts \cup {Alarm[d.m]}
         /\ blind' = blind
      \/ /\ ~Announces(d.m)
         /\ blind' = IF d.m \in DOMAIN Alarm /\ ~loaded THEN blind \cup {d.m} ELSE blind
         /\ window' = window /\ alerts' = alerts
  BY DEF Reading
<1>3. Announced \subseteq Announced' /\ blind \subseteq blind' /\ window' \subseteq window \cup Announced'
  BY <1>1, <1>2 DEF Announced
<1>4. d.m \in DOMAIN Alarm => Told(d.m)'
  <2>1. CASE Announces(d.m)
    BY <1>2, <2>1 DEF Told, Announced
  <2>2. CASE ~Announces(d.m) /\ ~loaded
    BY <1>2, <2>2 DEF Told
  <2>3. CASE ~Announces(d.m) /\ loaded
    BY <1>3, <2>3 DEF Told, Announces, AInv
  <2> QED BY <2>1, <2>2, <2>3
<1>5. ASSUME NEW m, Held(m)' PROVE Held(m) \/ m = d.m
  <2>1. PICK new : /\ Elems(new) = Elems(rows) \cup {d}
                   /\ \/ inserts' = inserts \cup {new} /\ rows' = <<>>
                      \/ inserts' = inserts /\ rows' = new
    BY Collected
  <2> QED BY <1>5, <2>1, Empty DEF Held
<1> QED BY <1>1, <1>3, <1>4, <1>5, Announcing

LEMMA AlertsThrow ==
  ASSUME AInv, NEW d, AlarmThrows(d)
  PROVE  AInv'
<1>1. UNCHANGED <<rows, inserts, stored, blind>>
  BY DEF AlarmThrows, Reset, database
<1>2. Announced \subseteq Announced' /\ window' \subseteq window \cup Announced'
  BY DEF AlarmThrows, Announced
<1> QED BY <1>1, <1>2, Unmoved, Announcing

LEMMA AlertsNext ==
  ASSUME TypeOK, AInv, [Next]_vars
  PROVE  AInv'
<1>1. ASSUME UNCHANGED <<rows, inserts, stored, alarms>> PROVE AInv'
  BY <1>1, Unmoved, Quiet
<1>2. CASE UNCHANGED vars \/ LoseConnection
  BY <1>1, <1>2 DEF vars, thread, database, LoseConnection
<1>3. CASE LoadThresholds
  <2>1. UNCHANGED <<rows, inserts, stored, blind, window>> /\ Announced' = Announced
    BY <1>3 DEF LoadThresholds, thread, database, Announced
  <2> QED BY <2>1, Unmoved, Announcing
<1>4. ASSUME NEW c \in Copy, Push(c) \/ Return(c) PROVE AInv'
  BY <1>1, <1>4 DEF Push, Return, thread, database
<1>5. CASE Connect \/ TakeAcks \/ SettleUnknown \/ Notice \/ Idle
  BY <1>1, <1>5 DEF Connect, TakeAcks, SettleUnknown, Notice, Reset, Idle, database
<1>6. ASSUME NEW d, Settle(d) \/ Invalid(d) \/ InvalidThrows(d) PROVE AInv'
  BY <1>1, <1>6 DEF Settle, Invalid, InvalidThrows, Reset, database
<1>7. CASE Flush
  <2>1. UNCHANGED <<stored, alarms>> /\ inserts' = inserts \cup {rows} /\ rows' = <<>>
    BY <1>7 DEF Flush
  <2>2. \A m : Held(m)' => Held(m)
    BY <2>1, Empty DEF Held
  <2> QED BY <2>1, <2>2, Quiet
<1>8. CASE Next
  <2>1. CASE Broker
    BY <1>4, <2>1 DEF Broker
  <2>2. CASE Thread
    BY <1>5, <1>6, <1>7, <2>2, AlertsReading, AlertsThrow DEF Thread
  <2>3. CASE Database
    BY <2>3, AlertsAnswered, AlertsMove DEF Database
  <2> QED BY <1>2, <1>3, <1>8, <2>1, <2>2, <2>3, AlertsAnswered, AlertsMove, AlertsCrash DEF Next
<1> QED BY <1>2, <1>8

\* A stored reading beyond its threshold is told of, except where the code is
\* known to lose the alert.
THEOREM AlertsTracked == Spec => []AlertsAccounted
<1>1. Init => TypeOK /\ AInv
  BY TypeInit, AlertsInit
<1>2. TypeOK /\ AInv /\ [Next]_vars => (TypeOK /\ AInv)'
  BY TypeNext, AlertsNext
<1>3. AInv => AlertsAccounted
  BY DEF AInv, AlertsAccounted, Told, Announced
<1> QED BY <1>1, <1>2, <1>3, PTL DEF Spec
=============================================================================
