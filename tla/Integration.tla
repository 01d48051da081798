----------------------------- MODULE Integration -----------------------------
(***************************************************************************)
(* The requests of services/IntegrationService.cc other than the saga: the *)
(* synchronisation of ERP orders, their conversion to work orders, the     *)
(* calls to the WMS and the repetition of a failed log.  Each is a         *)
(* coroutine: it gives up its thread at every statement and every call, so *)
(* two requests interleave at each of them, and the breakers are shared.   *)
(*                                                                         *)
(* A request that is refused changes nothing and is left out, as are the   *)
(* rows of integ_wms_inventory, which nothing reads back.                  *)
(***************************************************************************)
EXTENDS Naturals, FiniteSets

CONSTANTS
  Requests,       \* HTTP requests; each runs one operation
  Attempts,       \* retry_count of integ_api_configs, at least one
  FailThreshold,  \* failThreshold_ of the breakers
  Quantities      \* quantities the ERP may tell for the order, also zero

ASSUME IntegrationAssumption ==
  /\ {Attempts, FailThreshold} \subseteq Nat \ {0}
  /\ Quantities \subseteq Nat

Breaker == INSTANCE CircuitBreaker

Systems == {"ERP", "WMS"}

VARIABLES
  breaker,     \* breakerOf: one breaker per system
  order,       \* the row of one ERP order in integ_erp_orders
  workOrders,  \* the quantity of the work order a request created, or 0
  logs,        \* the row a request wrote to integ_sync_logs, or NoLog
  task,        \* where each coroutine is
  failures,    \* history: failures in a row the system has given (capped)
  beside,      \* history: conversions under way when a conversion read the order
  orphaned,    \* history: conversions that made a work order and lost the mark
  abandoned    \* history: logs whose repetition was lost after the mark

tables == <<order, workOrders, logs>>
history == <<beside, orphaned, abandoned>>
vars == <<breaker, tables, task, failures, history>>

None == "none"
NoOrder == [exists |-> FALSE, status |-> 0, quantity |-> 0]
NoLog == [system |-> None, status |-> 0]
Idle == [op |-> None, at |-> "idle", system |-> None, attempt |-> 0,
         quantity |-> 0, log |-> None]

\* The order may have been synchronised before.
Init ==
  /\ breaker = [s \in Systems |-> Breaker!Closed]
  /\ order \in {NoOrder} \cup [exists : {TRUE}, status : {0}, quantity : Quantities]
  /\ workOrders = [r \in Requests |-> 0]
  /\ logs = [r \in Requests |-> NoLog]
  /\ task = [r \in Requests |-> Idle]
  /\ failures = [s \in Systems |-> 0]
  /\ beside = [r \in Requests |-> {}]
  /\ orphaned = {}
  /\ abandoned = {}

At(r, op, place) == task[r].op = op /\ task[r].at = place
Goes(r, place) == task' = [task EXCEPT ![r].at = place]

-----------------------------------------------------------------------------
(* Calling an external system: callExternal. *)

\* The configuration is there and the operation comes to its call.
Calls(r, op, s) ==
  /\ task[r].at = "idle"
  /\ task' = [task EXCEPT ![r] = [Idle EXCEPT !.op = op, !.at = "call", !.system = s]]
  /\ UNCHANGED <<breaker, tables, failures, history>>

syncErpOrders(r) == Calls(r, "sync", "ERP")

wmsCall(r) == Calls(r, "wms", "WMS")

FailFast(r) ==
  /\ task[r].at = "call"
  /\ Breaker!Refuses(breaker[task[r].system])
  /\ Goes(r, "failed")
  /\ UNCHANGED <<breaker, tables, failures, history>>

Send(r) ==
  LET s == task[r].system IN
  /\ task[r].at = "call"
  /\ ~Breaker!Refuses(breaker[s])
  /\ breaker' = [breaker EXCEPT ![s] = Breaker!allowRequest(@)]
  /\ task' = [task EXCEPT ![r].at = "sent", ![r].attempt = 1]
  /\ UNCHANGED <<tables, failures, history>>

\* A status of 200 to 299.
Succeeds(r) ==
  LET s == task[r].system IN
  /\ task[r].at = "sent"
  /\ breaker' = [breaker EXCEPT ![s] = Breaker!recordSuccess(@)]
  /\ failures' = [failures EXCEPT ![s] = 0]
  /\ Goes(r, "answered")
  /\ UNCHANGED <<tables, history>>

\* Another status, a timeout or a lost connection: the next attempt does not
\* ask the breaker again.
Fails(r) ==
  LET s == task[r].system IN
  /\ task[r].at = "sent"
  /\ breaker' = [breaker EXCEPT ![s] = Breaker!recordFailure(@)]
  /\ failures' = [failures EXCEPT ![s] = IF @ < FailThreshold THEN @ + 1 ELSE @]
  /\ task' = IF task[r].attempt < Attempts
             THEN [task EXCEPT ![r].attempt = @ + 1]
             ELSE [task EXCEPT ![r].at = "failed"]
  /\ UNCHANGED <<tables, history>>

Cool(s) ==
  /\ Breaker!Refuses(breaker[s])
  /\ breaker' = [breaker EXCEPT ![s].cooled = TRUE]
  /\ UNCHANGED <<tables, task, failures, history>>

-----------------------------------------------------------------------------
(* The end of a synchronisation or of a call to the WMS. *)

\* ON CONFLICT: a later answer replaces the quantity and leaves the status.
SyncedMutant(row, q) == [exists |-> TRUE, status |-> 0, quantity |-> q]

Synced(row, q) == [exists |-> TRUE, status |-> row.status, quantity |-> q]

\* The answer need not have this order in it.
Upsert(r, q) ==
  /\ At(r, "sync", "answered")
  /\ order' \in {order, Synced(order, q)}
  /\ Goes(r, "log")
  /\ UNCHANGED <<breaker, workOrders, logs, failures, history>>

InsertInventory(r) ==
  /\ At(r, "wms", "answered")
  /\ Goes(r, "log")
  /\ UNCHANGED <<breaker, tables, failures, history>>

writeLog(r, place, status) ==
  /\ task[r].op \in {"sync", "wms"} /\ task[r].at = place
  /\ logs' = [logs EXCEPT ![r] = [system |-> task[r].system, status |-> status]]
  /\ Goes(r, "done")
  /\ UNCHANGED <<breaker, order, workOrders, failures, history>>

LogSuccess(r) == writeLog(r, "log", 1)

failExternal(r) == writeLog(r, "failed", 0)

-----------------------------------------------------------------------------
(* Conversion of the ERP order to a work order. *)

\* It has read the order and has not ended.
Converting(r) == At(r, "convert", "create") \/ At(r, "convert", "mark")

convertErpOrder(r) ==
  /\ task[r].at = "idle"
  /\ order.exists /\ order.status = 0
  /\ task' = [task EXCEPT ![r] =
       [Idle EXCEPT !.op = "convert", !.at = "create", !.quantity = order.quantity]]
  /\ beside' = [beside EXCEPT ![r] = {t \in Requests : Converting(t)}]
  /\ UNCHANGED <<breaker, tables, failures, orphaned, abandoned>>

\* The product has no route, create refuses a quantity of zero, or a statement
\* of its transaction fails.
CreateRejected(r) ==
  /\ At(r, "convert", "create")
  /\ Goes(r, "done")
  /\ UNCHANGED <<breaker, tables, failures, history>>

Create(r) ==
  /\ At(r, "convert", "create")
  /\ task[r].quantity > 0
  /\ workOrders' = [workOrders EXCEPT ![r] = task[r].quantity]
  /\ Goes(r, "mark")
  /\ UNCHANGED <<breaker, order, logs, failures, history>>

MarkConverted(r) ==
  /\ At(r, "convert", "mark")
  /\ order' = [order EXCEPT !.status = 1]
  /\ Goes(r, "done")
  /\ UNCHANGED <<breaker, workOrders, logs, failures, history>>

-----------------------------------------------------------------------------
(* Repetition of a log. *)

retryLog(r, l) ==
  /\ task[r].at = "idle"
  /\ logs[l] # NoLog /\ logs[l].status # 1
  /\ task' = [task EXCEPT ![r] =
       [Idle EXCEPT !.op = "retry", !.at = "mark", !.system = logs[l].system, !.log = l]]
  /\ UNCHANGED <<breaker, tables, failures, history>>

MarkRetried(r) ==
  /\ At(r, "retry", "mark")
  /\ logs' = [logs EXCEPT ![task[r].log].status = 2]
  /\ Goes(r, "call")
  /\ UNCHANGED <<breaker, order, workOrders, failures, history>>

\* Whatever the outcome, a refusal of the breaker included.
LogRetriedMutant(r) ==
  /\ task[r].op = "retry" /\ task[r].at \in {"answered", "failed"}
  /\ logs' = IF task[r].at = "answered"
             THEN [logs EXCEPT ![task[r].log].status = 1] ELSE logs
  /\ Goes(r, "done")
  /\ UNCHANGED <<breaker, order, workOrders, failures, history>>

LogRetried(r) ==
  /\ task[r].op = "retry" /\ task[r].at \in {"answered", "failed"}
  /\ logs' = [logs EXCEPT ![task[r].log].status = IF task[r].at = "answered" THEN 1 ELSE 0]
  /\ Goes(r, "done")
  /\ UNCHANGED <<breaker, order, workOrders, failures, history>>

-----------------------------------------------------------------------------
Marked(r) == task[r].op = "retry" /\ task[r].at \in {"call", "sent", "answered", "failed"}

\* A statement fails, or the COMMIT of create is lost after it was carried out:
\* the coroutine throws and nothing is undone.
StatementFails(r) ==
  /\ task[r].at \in {"mark", "answered", "log", "failed"}
  /\ Goes(r, "done")
  /\ orphaned' = IF At(r, "convert", "mark") THEN orphaned \cup {r} ELSE orphaned
  /\ abandoned' = IF Marked(r) THEN abandoned \cup {task[r].log} ELSE abandoned
  /\ UNCHANGED <<breaker, tables, failures, beside>>

\* The process dies with every coroutine in it; the breakers start anew.
Crash ==
  /\ \E r \in Requests : task[r].at \notin {"idle", "done"}
  /\ task' = [r \in Requests |-> IF task[r].at = "idle" THEN Idle ELSE [Idle EXCEPT !.at = "done"]]
  /\ breaker' = [s \in Systems |-> Breaker!Closed]
  /\ failures' = [s \in Systems |-> 0]
  /\ orphaned' = orphaned \cup {r \in Requests : At(r, "convert", "mark")}
  /\ abandoned' = abandoned \cup {task[r].log : r \in {r \in Requests : Marked(r)}}
  /\ UNCHANGED <<tables, beside>>

Next ==
  \/ \E r \in Requests :
       \/ syncErpOrders(r) \/ wmsCall(r) \/ FailFast(r) \/ Send(r) \/ Succeeds(r) \/ Fails(r)
       \/ InsertInventory(r) \/ LogSuccess(r) \/ failExternal(r)
       \/ convertErpOrder(r) \/ CreateRejected(r) \/ Create(r) \/ MarkConverted(r)
       \/ MarkRetried(r) \/ LogRetried(r) \/ StatementFails(r)
       \/ \E q \in Quantities : Upsert(r, q)
       \/ \E l \in Requests : retryLog(r, l)
  \/ \E s \in Systems : Cool(s)
  \/ Crash

Spec == Init /\ [][Next]_vars

-----------------------------------------------------------------------------
(* Properties. *)

\* An ERP order that is marked converted has a work order, and one only, unless
\* a conversion read the order while another one had read it and not ended, or
\* the mark of one was lost after its work order was made.  Neither is prevented:
\* the SELECT takes no lock, the UPDATE does not look at the status, and the work
\* order is committed on its own (IntegrationService.cc:240-276).  What is
\* synchronised in between makes no further one.
ConvertedOnce ==
  /\ order.status = 1 => \E r \in Requests : workOrders[r] # 0
  /\ \A r, t \in Requests :
       (r # t /\ workOrders[r] # 0 /\ workOrders[t] # 0)
         => (r \in beside[t] \/ t \in beside[r] \/ {r, t} \cap orphaned # {})

\* A log is marked "to be repeated" only while a repetition of it is running,
\* or after one was lost: two repetitions of one log leave no mark behind.
MarkIsLive ==
  \A l \in Requests :
    (logs[l] # NoLog /\ logs[l].status = 2)
      => (l \in abandoned \/ \E r \in Requests : Marked(r) /\ task[r].log = l)

\* The breaker leaves CLOSED exactly when as many calls in a row have failed
\* as the threshold says, in the order their answers came, whichever requests
\* they belong to and however late they were sent.
TripsOnFailuresInARow ==
  [][\A s \in Systems :
       /\ (breaker[s].state = "CLOSED" /\ breaker'[s].state # "CLOSED")
            => failures'[s] >= FailThreshold
       /\ breaker'[s].state = "CLOSED" => failures'[s] < FailThreshold]_vars
=============================================================================
