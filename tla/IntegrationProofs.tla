-------------------------- MODULE IntegrationProofs --------------------------
(***************************************************************************)
(* Theorems about Integration, for any number of requests and attempts,    *)
(* any threshold and any quantities.                                       *)
(*                                                                         *)
(* The mark "converted" is never taken back, so a conversion that begins   *)
(* finds every earlier one rejected, under way or without its mark         *)
(* (ReaderInv); a mark of repetition goes with the request that set it     *)
(* (MarkIsLive itself); and in CLOSED the breaker's count is that of the   *)
(* failures in a row.                                                      *)
(***************************************************************************)
EXTENDS Integration, TLAPS

TaskTypes ==
  /\ DOMAIN task = Requests
  /\ \A r \in Requests :
       /\ DOMAIN task[r] = {"op", "at", "system", "attempt", "quantity", "log"}
       /\ task[r].system \in Systems \cup {None}
       /\ task[r].at \in {"call", "sent"} => task[r].system \in Systems
       /\ task[r].op \in {"sync", "wms", "retry"} => task[r].system \in Systems
       /\ task[r].op = "retry" => task[r].log \in Requests

RowTypes ==
  /\ DOMAIN order = {"exists", "status", "quantity"}
  /\ order.status \in {0, 1}
  /\ DOMAIN logs = Requests
  /\ \A r \in Requests : DOMAIN logs[r] = {"system", "status"}
  /\ \A r \in Requests : logs[r] = NoLog \/ logs[r].system \in Systems
  /\ \A r \in Requests : task[r].op = "retry" => logs[task[r].log].system \in Systems
  /\ DOMAIN workOrders = Requests /\ DOMAIN beside = Requests

\* A conversion that has read the order and was not rejected.
Reader(r) == workOrders[r] # 0 \/ At(r, "convert", "create")

\* What ConvertedOnce says of two of them.
Excused(r, t) == r \in beside[t] \/ t \in beside[r] \/ {r, t} \cap orphaned # {}

ReaderInv ==
  /\ \A r \in Requests : Reader(r) => Converting(r) \/ r \in orphaned \/ order.status = 1
  /\ \A r \in Requests :
       /\ task[r].at = "idle" \/ At(r, "convert", "create") => workOrders[r] = 0
       /\ At(r, "convert", "mark") => workOrders[r] # 0
  /\ \A r, t \in Requests : (r # t /\ Reader(r) /\ Reader(t)) => Excused(r, t)
  /\ order.status = 1 => \E r \in Requests : workOrders[r] # 0

\* In CLOSED the breaker counts the failures in a row.
CountInv ==
  /\ DOMAIN breaker = Systems /\ failures \in [Systems -> Nat]
  /\ \A s \in Systems :
       /\ DOMAIN breaker[s] = {"state", "failureCount", "cooled"}
       /\ breaker[s].state \in {"CLOSED", "OPEN", "HALF_OPEN"}
       /\ breaker[s].failureCount \in Nat
       /\ breaker[s].state = "CLOSED" =>
            breaker[s].failureCount = failures[s] /\ failures[s] < FailThreshold

Trips ==
  \A s \in Systems :
    /\ (breaker[s].state = "CLOSED" /\ breaker'[s].state # "CLOSED")
         => failures'[s] >= FailThreshold
    /\ breaker'[s].state = "CLOSED" => failures'[s] < FailThreshold

IInv == TaskTypes /\ RowTypes /\ ReaderInv /\ MarkIsLive /\ CountInv
-----------------------------------------------------------------------------
LEMMA InitIInv == Init => IInv
<1> SUFFICES ASSUME Init PROVE IInv
  OBVIOUS
<1>1. TaskTypes
  BY DEF Init, TaskTypes, Idle, None
<1>0. DOMAIN order = {"exists", "status", "quantity"} /\ order.status = 0
  <2>1. CASE order = NoOrder BY <2>1 DEF NoOrder
  <2>2. CASE order \in [exists : {TRUE}, status : {0}, quantity : Quantities] BY <2>2
  <2> QED BY <2>1, <2>2 DEF Init
<1>2. RowTypes
  BY <1>0 DEF Init, RowTypes, NoLog, Idle, None
<1>3. ReaderInv
  BY <1>0 DEF Init, ReaderInv, Reader, At, Idle, None
<1>4. MarkIsLive
  BY DEF Init, MarkIsLive
<1>5. CountInv
  BY IntegrationAssumption DEF Init, CountInv, Breaker!Closed
<1> QED BY <1>1, <1>2, <1>3, <1>4, <1>5 DEF IInv

\* A coroutine goes from one place to another.
LEMMA GoesStep ==
  ASSUME TaskTypes, NEW r \in Requests, NEW place, Goes(r, place),
         place \in {"call", "sent"} => task[r].system \in Systems
  PROVE  /\ TaskTypes'
         /\ task'[r].at = place
         /\ task'[r].op = task[r].op /\ task'[r].log = task[r].log
         /\ \A q \in Requests : q # r => task'[q] = task[q]
<1>1. /\ task' = [task EXCEPT ![r] = [task[r] EXCEPT !.at = place]]
      /\ DOMAIN task = Requests
      /\ DOMAIN task[r] = {"op", "at", "system", "attempt", "quantity", "log"}
  BY DEF Goes, TaskTypes
<1>2. /\ DOMAIN task' = Requests
      /\ task'[r] = [task[r] EXCEPT !.at = place]
      /\ \A q \in Requests : q # r => task'[q] = task[q]
  BY <1>1
<1>3. /\ DOMAIN task'[r] = {"op", "at", "system", "attempt", "quantity", "log"}
      /\ task'[r].at = place /\ task'[r].op = task[r].op
      /\ task'[r].system = task[r].system /\ task'[r].log = task[r].log
  BY <1>1, <1>2
<1>4. TaskTypes'
  BY <1>2, <1>3 DEF TaskTypes
<1> QED BY <1>2, <1>3, <1>4

\* An idle coroutine begins an operation.
LEMMA BeginStep ==
  ASSUME TaskTypes, NEW r \in Requests, NEW new,
         task' = [task EXCEPT ![r] = new],
         DOMAIN new = {"op", "at", "system", "attempt", "quantity", "log"},
         new.system \in Systems \cup {None},
         new.at \in {"call", "sent"} => new.system \in Systems,
         new.op \in {"sync", "wms", "retry"} => new.system \in Systems,
         new.op = "retry" => new.log \in Requests
  PROVE  /\ TaskTypes' /\ task'[r] = new
         /\ \A q \in Requests : q # r => task'[q] = task[q]
BY DEF TaskTypes

\* What keeps ReaderInv where no conversion begins, creates or marks.
LEMMA ReaderKept ==
  ASSUME IInv, UNCHANGED <<workOrders, beside>>, orphaned \subseteq orphaned',
         order'.status = order.status,
         \A q \in Requests :
           /\ task'[q].at = "idle" => task[q].at = "idle"
           /\ At(q, "convert", "create")' => At(q, "convert", "create")
           /\ At(q, "convert", "mark")' => At(q, "convert", "mark")
           /\ At(q, "convert", "mark") => At(q, "convert", "mark")' \/ q \in orphaned'
  PROVE  ReaderInv'
<1>1. \A q \in Requests : Reader(q)' => Reader(q)
  BY DEF Reader
<1>2. \A r, t \in Requests : Excused(r, t) => Excused(r, t)'
  BY DEF Excused
<1>3. \A q \in Requests : Reader(q)' => Converting(q)' \/ q \in orphaned' \/ order'.status = 1
  <2> SUFFICES ASSUME NEW q \in Requests, Reader(q)'
               PROVE  Converting(q)' \/ q \in orphaned' \/ order'.status = 1
    OBVIOUS
  <2>1. CASE At(q, "convert", "create")'
    BY <2>1 DEF Converting
  <2>2. CASE workOrders[q] # 0
    <3>1. ~At(q, "convert", "create")
      BY <2>2 DEF IInv, ReaderInv
    <3>2. At(q, "convert", "mark") \/ q \in orphaned \/ order.status = 1
      BY <1>1, <3>1 DEF IInv, ReaderInv, Converting
    <3> QED BY <3>2 DEF Converting
  <2> QED BY <2>1, <2>2 DEF Reader
<1>4. \A q \in Requests :
        /\ task'[q].at = "idle" \/ At(q, "convert", "create")' => workOrders'[q] = 0
        /\ At(q, "convert", "mark")' => workOrders'[q] # 0
  BY DEF IInv, ReaderInv
<1>5. \A r, t \in Requests : (r # t /\ Reader(r)' /\ Reader(t)') => Excused(r, t)'
  BY <1>1, <1>2 DEF IInv, ReaderInv
<1>6. order'.status = 1 => \E r \in Requests : workOrders'[r] # 0
  BY DEF IInv, ReaderInv
<1> QED BY <1>3, <1>4, <1>5, <1>6 DEF ReaderInv

\* What keeps MarkIsLive where no log is written.
LEMMA MarkKept ==
  ASSUME IInv, UNCHANGED logs, abandoned \subseteq abandoned',
         \A q \in Requests : Marked(q) =>
           (Marked(q)' /\ task'[q].log = task[q].log) \/ task[q].log \in abandoned'
  PROVE  MarkIsLive'
BY DEF IInv, MarkIsLive

LEMMA CountKept ==
  ASSUME IInv, UNCHANGED <<breaker, failures>>
  PROVE  CountInv' /\ Trips
BY DEF IInv, CountInv, Trips
-----------------------------------------------------------------------------
(* Calls *)

\* A request begins to call, with nothing else changed.
LEMMA CallsStep ==
  ASSUME IInv, NEW r \in Requests, NEW op \in {"sync", "wms"}, NEW s \in Systems, Calls(r, op, s)
  PROVE  IInv' /\ Trips
<1> DEFINE new == [Idle EXCEPT !.op = op, !.at = "call", !.system = s]
<1>1. /\ new.op = op /\ new.at = "call" /\ new.system = s
      /\ DOMAIN new = {"op", "at", "system", "attempt", "quantity", "log"}
  BY DEF Idle
<1>2. /\ task[r].at = "idle" /\ task' = [task EXCEPT ![r] = new]
      /\ UNCHANGED <<breaker, order, workOrders, logs, failures, beside, orphaned, abandoned>>
  BY DEF Calls, tables, history
<1> HIDE DEF new
<1>3. /\ TaskTypes' /\ task'[r] = new /\ \A q \in Requests : q # r => task'[q] = task[q]
  BY <1>1, <1>2, BeginStep DEF IInv
<1>4. ReaderInv'
  BY <1>1, <1>2, <1>3, ReaderKept DEF At
<1>5. MarkIsLive'
  BY <1>2, <1>3, MarkKept DEF Marked
<1>6. RowTypes'
  BY <1>1, <1>2, <1>3 DEF IInv, RowTypes
<1> QED BY <1>2, <1>3, <1>4, <1>5, <1>6, CountKept DEF IInv

\* What a step on the way of a call does to everything but the breaker.
OnTheWay(r) ==
  /\ UNCHANGED <<order, workOrders, logs, beside, orphaned, abandoned>>
  /\ TaskTypes'
  /\ task[r].at \in {"call", "sent"} /\ task'[r].at \in {"call", "sent", "answered", "failed"}
  /\ task'[r].op = task[r].op /\ task'[r].log = task[r].log
  /\ \A q \in Requests : q # r => task'[q] = task[q]

LEMMA WayStep ==
  ASSUME IInv, NEW r \in Requests, OnTheWay(r), CountInv'
  PROVE  IInv'
<1>1. ReaderInv'
  BY ReaderKept DEF At, OnTheWay
<1>2. MarkIsLive'
  BY MarkKept DEF OnTheWay, Marked
<1>3. RowTypes'
  BY DEF IInv, RowTypes, OnTheWay
<1> QED BY <1>1, <1>2, <1>3 DEF IInv, OnTheWay

\* The breaker of one system and its count change.
LEMMA BreakerStep ==
  ASSUME IInv, NEW s \in Systems, NEW b, NEW n \in Nat,
         breaker' = [breaker EXCEPT ![s] = b], failures' = [failures EXCEPT ![s] = n],
         DOMAIN b = {"state", "failureCount", "cooled"},
         b.state \in {"CLOSED", "OPEN", "HALF_OPEN"}, b.failureCount \in Nat,
         b.state = "CLOSED" => b.failureCount = n /\ n < FailThreshold,
         (breaker[s].state = "CLOSED" /\ b.state # "CLOSED") => n >= FailThreshold
  PROVE  CountInv' /\ Trips
<1>1. /\ breaker'[s] = b /\ failures'[s] = n
      /\ \A t \in Systems : t # s => breaker'[t] = breaker[t] /\ failures'[t] = failures[t]
  BY DEF IInv, CountInv
<1>2. CountInv'
  BY <1>1 DEF IInv, CountInv
<1>3. Trips
  BY <1>1 DEF IInv, CountInv, Trips
<1> QED BY <1>2, <1>3

LEMMA CallStep ==
  ASSUME IInv, NEW r \in Requests, FailFast(r) \/ Send(r) \/ Succeeds(r) \/ Fails(r)
  PROVE  IInv' /\ Trips
<1> DEFINE s == task[r].system
           b == breaker[s]
           n == failures[s]
<1>1. s \in Systems
  BY DEF IInv, TaskTypes, FailFast, Send, Succeeds, Fails
<1>2. /\ FailThreshold \in Nat /\ FailThreshold > 0
      /\ DOMAIN b = {"state", "failureCount", "cooled"}
      /\ b.state \in {"CLOSED", "OPEN", "HALF_OPEN"}
      /\ b.failureCount \in Nat /\ n \in Nat
      /\ b.state = "CLOSED" => b.failureCount = n /\ n < FailThreshold
      /\ failures = [failures EXCEPT ![s] = n]
  BY <1>1, IntegrationAssumption DEF IInv, CountInv
<1>3. CASE FailFast(r)
  <2>1. OnTheWay(r)
    BY <1>1, <1>3, GoesStep DEF FailFast, OnTheWay, IInv, tables, history
  <2>2. CountInv' /\ Trips
    BY <1>3, CountKept DEF FailFast
  <2> QED BY <2>1, <2>2, WayStep
<1>4. CASE Send(r)
  <2>1. /\ task' = [task EXCEPT ![r].at = "sent", ![r].attempt = 1] /\ task[r].at = "call"
        /\ breaker' = [breaker EXCEPT ![s] = Breaker!allowRequest(b)]
        /\ UNCHANGED <<order, workOrders, logs, failures, beside, orphaned, abandoned>>
    BY <1>4 DEF Send, tables, history
  <2>2. OnTheWay(r)
    <3> DEFINE new == [task[r] EXCEPT !.at = "sent", !.attempt = 1]
    <3>1. /\ DOMAIN new = {"op", "at", "system", "attempt", "quantity", "log"}
          /\ new.at = "sent" /\ new.op = task[r].op /\ new.system = s /\ new.log = task[r].log
      BY DEF IInv, TaskTypes
    <3>2. task' = [task EXCEPT ![r] = new]
      BY <2>1 DEF IInv, TaskTypes
    <3> HIDE DEF new
    <3>3. TaskTypes' /\ task'[r] = new /\ \A q \in Requests : q # r => task'[q] = task[q]
      BY <1>1, <3>1, <3>2, BeginStep DEF IInv, TaskTypes
    <3> QED BY <2>1, <3>1, <3>3 DEF OnTheWay
  <2>3. CountInv' /\ Trips
    <3>1. CASE b.state = "OPEN"
      <4>1. Breaker!allowRequest(b) = [b EXCEPT !.state = "HALF_OPEN"]
        BY <3>1 DEF Breaker!allowRequest
      <4>2. /\ DOMAIN [b EXCEPT !.state = "HALF_OPEN"] = {"state", "failureCount", "cooled"}
            /\ [b EXCEPT !.state = "HALF_OPEN"].state = "HALF_OPEN"
            /\ [b EXCEPT !.state = "HALF_OPEN"].failureCount = b.failureCount
        BY <1>2
      <4> DEFINE c == [b EXCEPT !.state = "HALF_OPEN"]
      <4>3. breaker' = [breaker EXCEPT ![s] = c] /\ failures' = [failures EXCEPT ![s] = n]
        BY <1>2, <2>1, <4>1
      <4>4. /\ DOMAIN c = {"state", "failureCount", "cooled"}
            /\ c.state = "HALF_OPEN" /\ c.failureCount \in Nat
        BY <1>2, <4>2
      <4> HIDE DEF c
      <4> QED BY <1>1, <1>2, <3>1, <4>3, <4>4, BreakerStep
    <3>2. CASE b.state # "OPEN"
      <4>1. Breaker!allowRequest(b) = b
        BY <3>2 DEF Breaker!allowRequest
      <4> QED BY <1>1, <1>2, <2>1, <4>1, BreakerStep
    <3> QED BY <3>1, <3>2
  <2> QED BY <2>2, <2>3, WayStep
<1>5. CASE Succeeds(r)
  <2>1. /\ Goes(r, "answered") /\ task[r].at = "sent"
        /\ breaker' = [breaker EXCEPT ![s] = Breaker!recordSuccess(b)]
        /\ failures' = [failures EXCEPT ![s] = 0]
        /\ UNCHANGED <<order, workOrders, logs, beside, orphaned, abandoned>>
    BY <1>5 DEF Succeeds, tables, history
  <2>2. OnTheWay(r)
    BY <2>1, GoesStep DEF OnTheWay, IInv
  <2> DEFINE f == Breaker!recordSuccess(b)
  <2>3. /\ DOMAIN f = {"state", "failureCount", "cooled"}
        /\ f.failureCount = 0
        /\ f.state = IF b.state = "HALF_OPEN" THEN "CLOSED" ELSE b.state
    BY <1>2 DEF Breaker!recordSuccess
  <2> HIDE DEF f
  <2>4. CountInv' /\ Trips
    <3>1. /\ f.state \in {"CLOSED", "OPEN", "HALF_OPEN"}
          /\ b.state = "CLOSED" => f.state = "CLOSED"
          /\ f.state = "CLOSED" => f.failureCount = 0 /\ 0 < FailThreshold
          /\ f.failureCount \in Nat /\ 0 \in Nat
      BY <1>2, <2>3
    <3>2. breaker' = [breaker EXCEPT ![s] = f] /\ failures' = [failures EXCEPT ![s] = 0]
      BY <2>1 DEF f
    <3> QED BY <1>1, <1>2, <2>3, <3>1, <3>2, BreakerStep
  <2> QED BY <2>2, <2>4, WayStep
<1>6. CASE Fails(r)
  <2> DEFINE m == IF n < FailThreshold THEN n + 1 ELSE n
             f == Breaker!recordFailure(b)
  <2>1. /\ task[r].at = "sent"
        /\ breaker' = [breaker EXCEPT ![s] = f]
        /\ failures' = [failures EXCEPT ![s] = m]
        /\ task' = IF task[r].attempt < Attempts
                   THEN [task EXCEPT ![r].attempt = @ + 1]
                   ELSE [task EXCEPT ![r].at = "failed"]
        /\ UNCHANGED <<order, workOrders, logs, beside, orphaned, abandoned>>
    BY <1>6 DEF Fails, tables, history
  <2>2. OnTheWay(r)
    <3>1. CASE task[r].attempt < Attempts
      <4> DEFINE new == [task[r] EXCEPT !.attempt = @ + 1]
      <4>1. /\ DOMAIN new = {"op", "at", "system", "attempt", "quantity", "log"}
            /\ new.at = "sent" /\ new.op = task[r].op /\ new.system = s /\ new.log = task[r].log
        BY <2>1 DEF IInv, TaskTypes
      <4>2. task' = [task EXCEPT ![r] = new]
        BY <2>1, <3>1 DEF IInv, TaskTypes
      <4> HIDE DEF new
      <4>3. TaskTypes' /\ task'[r] = new /\ \A q \in Requests : q # r => task'[q] = task[q]
        BY <1>1, <4>1, <4>2, BeginStep DEF IInv, TaskTypes
      <4> QED BY <2>1, <4>1, <4>3 DEF OnTheWay
    <3>2. CASE ~(task[r].attempt < Attempts)
      <4>1. Goes(r, "failed")
        BY <2>1, <3>2 DEF Goes
      <4> QED BY <2>1, <4>1, GoesStep DEF OnTheWay, IInv
    <3> QED BY <3>1, <3>2
  <2>3. m \in Nat /\ (n < FailThreshold => m = n + 1)
    BY <1>2
  <2>4. /\ DOMAIN f = {"state", "failureCount", "cooled"}
        /\ f.state \in {"CLOSED", "OPEN", "HALF_OPEN"} /\ f.failureCount \in Nat
        /\ f.state = "CLOSED" => b.state = "CLOSED" /\ n + 1 < FailThreshold
                                 /\ f.failureCount = n + 1
        /\ (b.state = "CLOSED" /\ f.state # "CLOSED") => n + 1 >= FailThreshold
    <3> DEFINE c == [b EXCEPT !.failureCount = IF @ < FailThreshold THEN @ + 1 ELSE @]
    <3>1. /\ DOMAIN c = {"state", "failureCount", "cooled"} /\ c.state = b.state
          /\ c.failureCount = IF b.failureCount < FailThreshold THEN b.failureCount + 1
                              ELSE b.failureCount
      BY <1>2
    <3>2. f = IF b.state = "HALF_OPEN" THEN Breaker!Opened(b)
              ELSE IF c.failureCount >= FailThreshold THEN Breaker!Opened(c) ELSE c
      BY DEF Breaker!recordFailure
    <3> HIDE DEF c, f
    <3>3. \A x : DOMAIN x = {"state", "failureCount", "cooled"} =>
            /\ DOMAIN Breaker!Opened(x) = {"state", "failureCount", "cooled"}
            /\ Breaker!Opened(x).state = "OPEN"
            /\ Breaker!Opened(x).failureCount = x.failureCount
      BY DEF Breaker!Opened
    <3>4. CASE b.state = "HALF_OPEN"
      BY <1>2, <3>2, <3>3, <3>4
    <3>5. CASE b.state # "HALF_OPEN" /\ c.failureCount >= FailThreshold
      BY <1>2, <3>1, <3>2, <3>3, <3>5
    <3>6. CASE b.state # "HALF_OPEN" /\ ~(c.failureCount >= FailThreshold)
      BY <1>2, <3>1, <3>2, <3>6
    <3> QED BY <3>4, <3>5, <3>6
  <2> HIDE DEF f, m
  <2>5. CountInv' /\ Trips
    <3>1. f.state = "CLOSED" => f.failureCount = m /\ m < FailThreshold
      BY <1>2, <2>3, <2>4
    <3>2. (b.state = "CLOSED" /\ f.state # "CLOSED") => m >= FailThreshold
      BY <1>2, <2>3, <2>4
    <3> QED BY <1>1, <1>2, <2>1, <2>3, <2>4, <3>1, <3>2, BreakerStep
  <2> QED BY <2>2, <2>5, WayStep
<1> QED BY <1>3, <1>4, <1>5, <1>6

LEMMA CoolStep == ASSUME IInv, NEW s \in Systems, Cool(s) PROVE IInv' /\ Trips
<1> DEFINE b == breaker[s]
           c == [b EXCEPT !.cooled = TRUE]
<1>1. /\ breaker' = [breaker EXCEPT ![s].cooled = TRUE] /\ b.state = "OPEN"
      /\ UNCHANGED <<order, workOrders, logs, task, failures, beside, orphaned, abandoned>>
  BY DEF Cool, Breaker!Refuses, tables, history
<1>2. /\ DOMAIN breaker = Systems /\ DOMAIN b = {"state", "failureCount", "cooled"}
      /\ b.failureCount \in Nat /\ failures[s] \in Nat
      /\ failures = [failures EXCEPT ![s] = failures[s]]
  BY DEF IInv, CountInv
<1>3. /\ breaker' = [breaker EXCEPT ![s] = c]
      /\ DOMAIN c = {"state", "failureCount", "cooled"}
      /\ c.state = "OPEN" /\ c.failureCount = b.failureCount
  BY <1>1, <1>2
<1> HIDE DEF c
<1>4. CountInv' /\ Trips
  <2>1. failures' = [failures EXCEPT ![s] = failures[s]]
    BY <1>1, <1>2
  <2>2. failures[s] \in Nat /\ c.failureCount \in Nat /\ b.state # "CLOSED"
    BY <1>1, <1>2, <1>3
  <2> QED BY <1>3, <2>1, <2>2, BreakerStep
<1>5. TaskTypes' /\ RowTypes'
  BY <1>1 DEF IInv, TaskTypes, RowTypes
<1>6. ReaderInv'
  BY <1>1, ReaderKept DEF At
<1>7. MarkIsLive'
  BY <1>1, MarkKept DEF Marked
<1> QED BY <1>4, <1>5, <1>6, <1>7 DEF IInv
-----------------------------------------------------------------------------
(* Statements *)

\* A coroutine that is no repetition goes on, with the logs and marks left alone.
LEMMA PlainMove ==
  ASSUME IInv, NEW r \in Requests, NEW place, Goes(r, place),
         place \in {"log", "done", "mark"},
         task[r].op # "retry", UNCHANGED <<logs, abandoned>>
  PROVE  /\ TaskTypes' /\ MarkIsLive'
         /\ task'[r].at = place /\ task'[r].op = task[r].op
         /\ \A q \in Requests : q # r => task'[q] = task[q]
<1>1. /\ TaskTypes' /\ task'[r].at = place /\ task'[r].op = task[r].op
      /\ \A q \in Requests : q # r => task'[q] = task[q]
  BY GoesStep DEF IInv
<1>2. MarkIsLive'
  BY <1>1, MarkKept DEF Marked
<1> QED BY <1>1, <1>2

LEMMA AnswerStep ==
  ASSUME IInv, NEW r \in Requests,
         InsertInventory(r) \/ \E q \in Quantities : Upsert(r, q)
  PROVE  IInv' /\ Trips
<1>1. /\ Goes(r, "log") /\ task[r].op \in {"sync", "wms"}
      /\ UNCHANGED <<breaker, workOrders, logs, failures, beside, orphaned, abandoned>>
  BY DEF InsertInventory, Upsert, At, tables, history
<1>2. DOMAIN order' = {"exists", "status", "quantity"} /\ order'.status = order.status
  <2>1. CASE UNCHANGED order
    BY <2>1 DEF IInv, RowTypes
  <2>2. ASSUME NEW q \in Quantities, order' = Synced(order, q)
        PROVE  DOMAIN order' = {"exists", "status", "quantity"} /\ order'.status = order.status
    BY <2>2 DEF Synced
  <2> QED BY <2>1, <2>2 DEF InsertInventory, Upsert, tables
<1>3. /\ TaskTypes' /\ MarkIsLive' /\ task'[r].at = "log" /\ task'[r].op = task[r].op
      /\ \A q \in Requests : q # r => task'[q] = task[q]
  BY <1>1, PlainMove
<1>4. ReaderInv'
  BY <1>1, <1>2, <1>3, ReaderKept DEF At
<1>5. RowTypes'
  BY <1>1, <1>2, <1>3 DEF IInv, RowTypes
<1> QED BY <1>1, <1>3, <1>4, <1>5, CountKept DEF IInv

LEMMA LogStep ==
  ASSUME IInv, NEW r \in Requests, NEW place \in {"log", "failed"}, NEW status \in {0, 1},
         writeLog(r, place, status)
  PROVE  IInv' /\ Trips
<1> DEFINE new == [system |-> task[r].system, status |-> status]
<1>1. /\ Goes(r, "done") /\ task[r].op \in {"sync", "wms"}
      /\ logs' = [logs EXCEPT ![r] = new]
      /\ UNCHANGED <<breaker, order, workOrders, failures, beside, orphaned, abandoned>>
  BY DEF writeLog, history
<1>2. /\ TaskTypes' /\ task'[r].at = "done" /\ task'[r].op = task[r].op
      /\ \A q \in Requests : q # r => task'[q] = task[q]
  BY <1>1, GoesStep DEF IInv
<1>3. /\ DOMAIN logs' = Requests /\ logs'[r] = new
      /\ \A q \in Requests : q # r => logs'[q] = logs[q]
  BY <1>1 DEF IInv, RowTypes
<1>4. RowTypes'
  <2>1. new.system \in Systems /\ DOMAIN new = {"system", "status"}
    BY <1>1 DEF IInv, TaskTypes
  <2> HIDE DEF new
  <2> QED BY <1>1, <1>2, <1>3, <2>1, GoesStep DEF IInv, RowTypes
<1>5. ReaderInv'
  BY <1>1, <1>2, ReaderKept DEF At
<1>6. MarkIsLive'
  <2>1. \A q \in Requests : Marked(q) => Marked(q)' /\ task'[q].log = task[q].log
    BY <1>1, <1>2 DEF Marked
  <2>2. new.status # 2
    OBVIOUS
  <2> HIDE DEF new
  <2> QED BY <1>1, <1>3, <2>1, <2>2 DEF IInv, MarkIsLive
<1> QED BY <1>1, <1>2, <1>4, <1>5, <1>6, CountKept DEF IInv
-----------------------------------------------------------------------------
(* Conversion *)

LEMMA ConvertStep == ASSUME IInv, NEW r \in Requests, convertErpOrder(r) PROVE IInv' /\ Trips
<1> DEFINE new == [Idle EXCEPT !.op = "convert", !.at = "create", !.quantity = order.quantity]
<1>1. /\ new.op = "convert" /\ new.at = "create" /\ new.system = None
      /\ DOMAIN new = {"op", "at", "system", "attempt", "quantity", "log"}
  BY DEF Idle
<1>2. /\ task[r].at = "idle" /\ order.status = 0 /\ task' = [task EXCEPT ![r] = new]
      /\ beside' = [beside EXCEPT ![r] = {t \in Requests : Converting(t)}]
      /\ UNCHANGED <<breaker, order, workOrders, logs, failures, orphaned, abandoned>>
  BY DEF convertErpOrder, tables
<1> HIDE DEF new
<1>3. /\ TaskTypes' /\ task'[r] = new /\ \A q \in Requests : q # r => task'[q] = task[q]
  BY <1>1, <1>2, BeginStep DEF IInv
<1>4. RowTypes'
  BY <1>1, <1>2, <1>3 DEF IInv, RowTypes
<1>5. MarkIsLive'
  BY <1>1, <1>2, <1>3, MarkKept DEF Marked
<1>6. /\ beside'[r] = {t \in Requests : Converting(t)}
      /\ \A q \in Requests : q # r =>
           /\ beside'[q] = beside[q] /\ (Reader(q)' <=> Reader(q))
           /\ Converting(q)' <=> Converting(q)
           /\ At(q, "convert", "mark")' <=> At(q, "convert", "mark")
           /\ At(q, "convert", "create")' <=> At(q, "convert", "create")
      /\ At(r, "convert", "create")' /\ ~At(r, "convert", "mark")'
  BY <1>1, <1>2, <1>3 DEF IInv, RowTypes, Reader, Converting, At
<1>7. \A q \in Requests : Reader(q) => q \in beside'[r] \/ q \in orphaned
  BY <1>2, <1>6 DEF IInv, ReaderInv
<1>8. ReaderInv'
  <2>1. \A q \in Requests : Reader(q)' => Converting(q)' \/ q \in orphaned' \/ order'.status = 1
    BY <1>2, <1>6 DEF IInv, ReaderInv, Converting
  <2>2. \A q \in Requests :
          /\ task'[q].at = "idle" \/ At(q, "convert", "create")' => workOrders'[q] = 0
          /\ At(q, "convert", "mark")' => workOrders'[q] # 0
    BY <1>2, <1>3, <1>6 DEF IInv, ReaderInv
  <2>3. ASSUME NEW q \in Requests, NEW t \in Requests, q # t, Reader(q)', Reader(t)'
        PROVE  Excused(q, t)'
    <3>1. CASE t = r BY <1>2, <1>6, <1>7, <2>3, <3>1 DEF Excused
    <3>2. CASE q = r BY <1>2, <1>6, <1>7, <2>3, <3>2 DEF Excused
    <3>3. CASE q # r /\ t # r
      <4>1. Excused(q, t)
        BY <1>6, <2>3, <3>3 DEF IInv, ReaderInv
      <4> QED BY <1>2, <1>6, <3>3, <4>1 DEF Excused
    <3> QED BY <3>1, <3>2, <3>3
  <2>4. order'.status # 1
    BY <1>2
  <2> QED BY <2>1, <2>2, <2>3, <2>4 DEF ReaderInv
<1> QED BY <1>2, <1>3, <1>4, <1>5, <1>8, CountKept DEF IInv

LEMMA CreateRejectedStep == ASSUME IInv, NEW r \in Requests, CreateRejected(r) PROVE IInv' /\ Trips
<1>1. /\ Goes(r, "done") /\ task[r].op = "convert" /\ task[r].at = "create"
      /\ UNCHANGED <<breaker, order, workOrders, logs, failures, beside, orphaned, abandoned>>
  BY DEF CreateRejected, At, tables, history
<1>2. /\ TaskTypes' /\ MarkIsLive' /\ task'[r].at = "done" /\ task'[r].op = task[r].op
      /\ \A q \in Requests : q # r => task'[q] = task[q]
  BY <1>1, PlainMove
<1>3. ReaderInv'
  BY <1>1, <1>2, ReaderKept DEF At
<1>4. RowTypes'
  BY <1>1, <1>2 DEF IInv, RowTypes
<1> QED BY <1>1, <1>2, <1>3, <1>4, CountKept DEF IInv

LEMMA CreateStep == ASSUME IInv, NEW r \in Requests, Create(r) PROVE IInv' /\ Trips
<1>1. /\ Goes(r, "mark") /\ task[r].op = "convert" /\ task[r].at = "create"
      /\ workOrders' = [workOrders EXCEPT ![r] = task[r].quantity] /\ task[r].quantity > 0
      /\ UNCHANGED <<breaker, order, logs, failures, beside, orphaned, abandoned>>
  BY DEF Create, At, history
<1>2. /\ TaskTypes' /\ MarkIsLive' /\ task'[r].at = "mark" /\ task'[r].op = task[r].op
      /\ \A q \in Requests : q # r => task'[q] = task[q]
  BY <1>1, PlainMove
<1>3. /\ workOrders'[r] # 0
      /\ \A q \in Requests : q # r => workOrders'[q] = workOrders[q]
  BY <1>1 DEF IInv, RowTypes
<1>4. /\ Reader(r) /\ Converting(r)' /\ ~At(r, "convert", "create")'
      /\ \A q \in Requests : (Reader(q)' => Reader(q)) /\ (Converting(q) => Converting(q)')
  BY <1>1, <1>2, <1>3 DEF Reader, Converting, At
<1>5. ReaderInv'
  <2>1. \A q \in Requests : Reader(q)' => Converting(q)' \/ q \in orphaned' \/ order'.status = 1
    BY <1>1, <1>4 DEF IInv, ReaderInv
  <2>2. \A q \in Requests :
          /\ task'[q].at = "idle" \/ At(q, "convert", "create")' => workOrders'[q] = 0
          /\ At(q, "convert", "mark")' => workOrders'[q] # 0
    BY <1>2, <1>3, <1>4 DEF IInv, ReaderInv, At
  <2>3. \A q, t \in Requests : (q # t /\ Reader(q)' /\ Reader(t)') => Excused(q, t)'
    BY <1>1, <1>4 DEF IInv, ReaderInv, Excused
  <2>4. order'.status = 1 => \E q \in Requests : workOrders'[q] # 0
    BY <1>3
  <2> QED BY <2>1, <2>2, <2>3, <2>4 DEF ReaderInv
<1>6. RowTypes'
  BY <1>1, <1>2 DEF IInv, RowTypes
<1> QED BY <1>1, <1>2, <1>5, <1>6, CountKept DEF IInv

LEMMA MarkConvertedStep == ASSUME IInv, NEW r \in Requests, MarkConverted(r) PROVE IInv' /\ Trips
<1>1. /\ Goes(r, "done") /\ task[r].op = "convert" /\ task[r].at = "mark"
      /\ order' = [order EXCEPT !.status = 1]
      /\ UNCHANGED <<breaker, workOrders, logs, failures, beside, orphaned, abandoned>>
  BY DEF MarkConverted, At, history
<1>2. /\ TaskTypes' /\ MarkIsLive' /\ task'[r].at = "done" /\ task'[r].op = task[r].op
      /\ \A q \in Requests : q # r => task'[q] = task[q]
  BY <1>1, PlainMove
<1>3. DOMAIN order' = {"exists", "status", "quantity"} /\ order'.status = 1
  BY <1>1 DEF IInv, RowTypes
<1>4. /\ \A q \in Requests : Reader(q)' => Reader(q)
      /\ workOrders[r] # 0
  BY <1>1, <1>2 DEF Reader, At, IInv, ReaderInv
<1>5. ReaderInv'
  <2>1. \A q \in Requests :
          /\ task'[q].at = "idle" \/ At(q, "convert", "create")' => workOrders'[q] = 0
          /\ At(q, "convert", "mark")' => workOrders'[q] # 0
    BY <1>1, <1>2 DEF IInv, ReaderInv, At
  <2>2. \A q, t \in Requests : (q # t /\ Reader(q)' /\ Reader(t)') => Excused(q, t)'
    BY <1>1, <1>4 DEF IInv, ReaderInv, Excused
  <2> QED BY <1>1, <1>3, <1>4, <2>1, <2>2 DEF ReaderInv
<1>6. RowTypes'
  BY <1>1, <1>2, <1>3 DEF IInv, RowTypes
<1> QED BY <1>1, <1>2, <1>5, <1>6, CountKept DEF IInv
-----------------------------------------------------------------------------
(* Repetition *)

LEMMA RetryStep ==
  ASSUME IInv, NEW r \in Requests, NEW l \in Requests, retryLog(r, l)
  PROVE  IInv' /\ Trips
<1> DEFINE new == [Idle EXCEPT !.op = "retry", !.at = "mark", !.system = logs[l].system, !.log = l]
<1>1. /\ new.op = "retry" /\ new.at = "mark" /\ new.system = logs[l].system /\ new.log = l
      /\ DOMAIN new = {"op", "at", "system", "attempt", "quantity", "log"}
  BY DEF Idle
<1>2. /\ task[r].at = "idle" /\ task' = [task EXCEPT ![r] = new]
      /\ UNCHANGED <<breaker, order, workOrders, logs, failures, beside, orphaned, abandoned>>
  BY DEF retryLog, tables, history
<1> HIDE DEF new
<1>3. logs[l].system \in Systems
  BY DEF retryLog, IInv, RowTypes
<1>4. /\ TaskTypes' /\ task'[r] = new /\ \A q \in Requests : q # r => task'[q] = task[q]
  BY <1>1, <1>2, <1>3, BeginStep DEF IInv
<1>5. ReaderInv'
  BY <1>1, <1>2, <1>4, ReaderKept DEF At
<1>6. MarkIsLive'
  BY <1>2, <1>4, MarkKept DEF Marked
<1>7. RowTypes'
  BY <1>1, <1>2, <1>4, <1>3 DEF IInv, RowTypes
<1> QED BY <1>2, <1>4, <1>5, <1>6, <1>7, CountKept DEF IInv

\* The status of one log is written.
LEMMA StatusStep ==
  ASSUME IInv, NEW l \in Requests, NEW st, logs[l].system \in Systems,
         logs' = [logs EXCEPT ![l].status = st],
         UNCHANGED <<order, workOrders, beside>>,
         \A q \in Requests : task'[q].op = "retry" => task[q].op = "retry" /\ task'[q].log = task[q].log
  PROVE  /\ RowTypes' /\ logs'[l].status = st
         /\ \A q \in Requests : q # l => logs'[q] = logs[q]
<1>1. /\ DOMAIN logs = Requests /\ DOMAIN logs[l] = {"system", "status"}
      /\ logs' = [logs EXCEPT ![l] = [logs[l] EXCEPT !.status = st]]
  BY DEF IInv, RowTypes
<1>2. /\ DOMAIN logs' = Requests /\ DOMAIN logs'[l] = {"system", "status"}
      /\ logs'[l].status = st /\ logs'[l].system = logs[l].system
      /\ \A q \in Requests : q # l => logs'[q] = logs[q]
  BY <1>1
<1>3. \A q \in Requests : logs[q].system \in Systems => logs'[q].system \in Systems
  BY <1>2
<1>4. \A q \in Requests : task[q].op = "retry" => task[q].log \in Requests
  BY DEF IInv, TaskTypes
<1> QED BY <1>2, <1>3, <1>4 DEF IInv, RowTypes

\* Two steps that write the status of a log under repetition; the second one
\* ends the repetition.
LEMMA RetriedStep ==
  ASSUME IInv, NEW r \in Requests, MarkRetried(r) \/ LogRetried(r)
  PROVE  IInv' /\ Trips
<1> DEFINE l == task[r].log
<1>1. /\ task[r].op = "retry" /\ l \in Requests
      /\ UNCHANGED <<breaker, order, workOrders, failures, beside, orphaned, abandoned>>
      /\ logs[l].system \in Systems /\ task[r].system \in Systems
  BY DEF MarkRetried, LogRetried, At, history, IInv, TaskTypes, RowTypes
<1>2. PICK place \in {"call", "done"}, st \in {0, 1, 2} :
        /\ Goes(r, place) /\ logs' = [logs EXCEPT ![l].status = st]
        /\ st = 2 <=> place = "call"
  <2>1. CASE MarkRetried(r)
    BY <2>1 DEF MarkRetried
  <2>2. CASE LogRetried(r)
    <3>1. CASE task[r].at = "answered"
      <4>1. Goes(r, "done") /\ logs' = [logs EXCEPT ![l].status = 1]
        BY <2>2, <3>1 DEF LogRetried
      <4> QED BY <4>1
    <3>2. CASE task[r].at # "answered"
      <4>1. Goes(r, "done") /\ logs' = [logs EXCEPT ![l].status = 0]
        BY <2>2, <3>2 DEF LogRetried
      <4> QED BY <4>1
    <3> QED BY <3>1, <3>2
  <2> QED BY <2>1, <2>2
<1>3. /\ TaskTypes' /\ task'[r].at = place
      /\ task'[r].op = task[r].op /\ task'[r].log = task[r].log
      /\ \A q \in Requests : q # r => task'[q] = task[q]
  BY <1>1, <1>2, GoesStep DEF IInv
<1>4. \A q \in Requests :
        task'[q].op = "retry" => task[q].op = "retry" /\ task'[q].log = task[q].log
  BY <1>3
<1> HIDE DEF l
<1>5. /\ RowTypes' /\ logs'[l].status = st
      /\ \A q \in Requests : q # l => logs'[q] = logs[q]
  BY <1>1, <1>2, <1>4, StatusStep
<1>6. ReaderInv'
  BY <1>1, <1>3, ReaderKept DEF At
<1>7. MarkIsLive'
  <2>1. st = 2 => Marked(r)' /\ task'[r].log = l
    BY <1>1, <1>2, <1>3 DEF Marked, l
  <2>2. \A q \in Requests : (Marked(q) /\ task[q].log # l) => Marked(q)' /\ task'[q].log = task[q].log
    BY <1>3 DEF Marked, l
  <2> QED BY <1>1, <1>5, <2>1, <2>2 DEF IInv, MarkIsLive
<1> QED BY <1>1, <1>3, <1>5, <1>6, <1>7, CountKept DEF IInv

LEMMA StatementFailsStep ==
  ASSUME IInv, NEW r \in Requests, StatementFails(r)
  PROVE  IInv' /\ Trips
<1>1. /\ Goes(r, "done")
      /\ orphaned' = IF At(r, "convert", "mark") THEN orphaned \cup {r} ELSE orphaned
      /\ abandoned' = IF Marked(r) THEN abandoned \cup {task[r].log} ELSE abandoned
      /\ UNCHANGED <<breaker, order, workOrders, logs, failures, beside>>
  BY DEF StatementFails, tables
<1>2. /\ TaskTypes' /\ task'[r].at = "done"
      /\ task'[r].op = task[r].op /\ task'[r].log = task[r].log
      /\ \A q \in Requests : q # r => task'[q] = task[q]
  BY <1>1, GoesStep DEF IInv
<1>3. ReaderInv'
  BY <1>1, <1>2, ReaderKept DEF At
<1>4. MarkIsLive'
  BY <1>1, <1>2, MarkKept DEF Marked
<1>5. RowTypes'
  BY <1>1, <1>2 DEF IInv, RowTypes
<1> QED BY <1>1, <1>2, <1>3, <1>4, <1>5, CountKept DEF IInv

LEMMA CrashStep == ASSUME IInv, Crash PROVE IInv' /\ Trips
<1>1. /\ task' = [r \in Requests |-> IF task[r].at = "idle" THEN Idle ELSE [Idle EXCEPT !.at = "done"]]
      /\ breaker' = [s \in Systems |-> Breaker!Closed] /\ failures' = [s \in Systems |-> 0]
      /\ orphaned' = orphaned \cup {r \in Requests : At(r, "convert", "mark")}
      /\ abandoned' = abandoned \cup {task[r].log : r \in {r \in Requests : Marked(r)}}
      /\ UNCHANGED <<order, workOrders, logs, beside>>
  BY DEF Crash, tables
<1>2. /\ DOMAIN task' = Requests
      /\ \A r \in Requests :
           /\ DOMAIN task'[r] = {"op", "at", "system", "attempt", "quantity", "log"}
           /\ task'[r].op = None /\ task'[r].system = None
           /\ task'[r].at = IF task[r].at = "idle" THEN "idle" ELSE "done"
  BY <1>1 DEF Idle
<1>3. TaskTypes' /\ RowTypes'
  BY <1>1, <1>2 DEF IInv, RowTypes, TaskTypes, None
<1>4. ReaderInv'
  BY <1>1, <1>2, ReaderKept DEF At, None
<1>5. MarkIsLive'
  BY <1>1, MarkKept
<1>6. CountInv' /\ Trips
  BY <1>1, IntegrationAssumption DEF CountInv, Trips, Breaker!Closed
<1> QED BY <1>3, <1>4, <1>5, <1>6 DEF IInv

LEMMA NextStep == ASSUME IInv, [Next]_vars PROVE IInv' /\ Trips
<1>1. CASE UNCHANGED vars
  BY <1>1, CountKept, ReaderKept, MarkKept
  DEF At, vars, tables, history, IInv, TaskTypes, RowTypes, Marked
<1>2. ASSUME NEW r \in Requests,
             syncErpOrders(r) \/ wmsCall(r) \/ LogSuccess(r) \/ failExternal(r)
      PROVE  IInv' /\ Trips
  BY <1>2, CallsStep, LogStep DEF syncErpOrders, wmsCall, LogSuccess, failExternal, Systems
<1>3. CASE Next
  BY <1>2, <1>3, CallStep, CoolStep, AnswerStep, ConvertStep, CreateRejectedStep, CreateStep,
     MarkConvertedStep, RetryStep, RetriedStep, StatementFailsStep, CrashStep DEF Next
<1> QED BY <1>1, <1>3
-----------------------------------------------------------------------------
\* An ERP order marked converted has a work order, and one only unless two
\* conversions overlapped or the mark of one was lost, for any number of requests
\* and whatever is synchronised, rejected or lost in between
\* (IntegrationService.cc:240-276).
THEOREM ConvertedOncePerOrder == Spec => []ConvertedOnce
<1>1. IInv => ConvertedOnce
  BY DEF IInv, ReaderInv, Reader, Excused, ConvertedOnce
<1> QED BY <1>1, InitIInv, NextStep, PTL DEF Spec

\* A log is marked for repetition only while one runs or after one was lost, for
\* any number of repetitions of one log (IntegrationService.cc:498-508).
THEOREM MarksAreLive == Spec => []MarkIsLive
<1>1. IInv => MarkIsLive BY DEF IInv
<1> QED BY <1>1, InitIInv, NextStep, PTL DEF Spec

\* The breaker leaves CLOSED exactly at the threshold of failures in a row, for
\* any threshold and any number of requests in flight (CircuitBreaker.hh:37-53).
THEOREM Trip == Spec => TripsOnFailuresInARow
<1>1. ASSUME IInv, [Next]_vars
      PROVE  [\A s \in Systems :
                /\ (breaker[s].state = "CLOSED" /\ breaker'[s].state # "CLOSED")
                     => failures'[s] >= FailThreshold
                /\ breaker'[s].state = "CLOSED" => failures'[s] < FailThreshold]_vars
  BY <1>1, NextStep DEF Trips
<1> QED BY <1>1, InitIInv, NextStep, PTL DEF Spec, TripsOnFailuresInARow
=============================================================================
