--------------------------- MODULE CompletionSaga ---------------------------
(***************************************************************************)
(* The completion saga of mes-backend (services/IntegrationService.cc):    *)
(* a request completes a work order locally (T1), reports it to the ERP    *)
(* (T2), books its goods into the WMS (T3) and records both (T4).  A call  *)
(* that fails is compensated in reverse order.  The saga's state lives in  *)
(* one coroutine and nowhere else.                                         *)
(*                                                                         *)
(* It runs beside the transactions of WorkOrderService, on the same rows:  *)
(* the module extends WorkOrder with it, and SagaSpec composes both.  The  *)
(* ERP and the WMS are external.                                           *)
(***************************************************************************)
EXTENDS WorkOrder

CONSTANTS
  Sagas,           \* requests POST /integration/erp/report
  NoWorkOrder,     \* the work order of a saga that has not begun
  Attempts,        \* integ_api_configs.retry_count, the attempts of a call
  MaxDbFailures,   \* bound: statements of sagas that fail
  MaxCommitsLost   \* bound: COMMITs of T1 that fail

ASSUME SagaAssumption ==
  /\ NoWorkOrder \notin WorkOrders
  /\ Attempts \in Nat \ {0}
  /\ {MaxDbFailures, MaxCommitsLost} \subseteq Nat

VARIABLES
  saga,         \* saga[p]: program counter, work order, quantity read, result
  erp,          \* erp[w]: the quantity the ERP holds as completed, or NotReported
  stockIns,     \* stockIns[w]: how often the WMS booked the goods of w
  dbFailures,   \* statements that failed so far
  commitsLost   \* COMMITs of T1 that failed so far

rows == <<order, op, inspected, stopRows>>   \* those of WorkOrder
external == <<erp, stockIns>>
faults == <<dbFailures, commitsLost>>
sagaVars == <<rows, saga, external, faults>>

NotReported == -1

Start == [pc |-> "idle", w |-> NoWorkOrder, qty |-> 0, result |-> "none"]

SagaInit ==
  /\ Init
  /\ saga = [p \in Sagas |-> Start]
  /\ erp = [w \in WorkOrders |-> NotReported]
  /\ stockIns = [w \in WorkOrders |-> 0]
  /\ dbFailures = 0
  /\ commitsLost = 0

At(p, pc) == saga[p].pc = pc
Goto(p, pc) == saga' = [saga EXCEPT ![p].pc = pc]
Return(p, result) == saga' = [saga EXCEPT ![p].pc = "over", ![p].result = result]

\* A saga between T1 and its end.
InFlight(p) == saga[p].pc \in {"erp", "wms", "cancel", "rollback", "record"}
-----------------------------------------------------------------------------
\* Mutant: the ERP is told the planned quantity.
BeginMutant(p, w) ==
  /\ At(p, "idle")
  /\ order[w].status = kInProgress
  /\ saga' = [saga EXCEPT ![p] =
       [pc |-> "t1", w |-> w, qty |-> order[w].plan, result |-> "none"]]
  /\ UNCHANGED <<rows, external, faults>>

\* The first SELECT: the quantity the ERP will be told is read here.
Begin(p, w) ==
  /\ At(p, "idle")
  /\ order[w].status = kInProgress
  /\ saga' = [saga EXCEPT ![p] =
       [pc |-> "t1", w |-> w, qty |-> order[w].completed, result |-> "none"]]
  /\ UNCHANGED <<rows, external, faults>>

\* Mutant: the UPDATE of T1 without "AND status = $3".
T1HitsMutant(w) == TRUE

T1Hits(w) == order[w].status = kInProgress

\* T1: complete the order and enqueue stop_collection, in one transaction.
Complete(p) ==
  LET w == saga[p].w IN
  /\ At(p, "t1")
  /\ T1Hits(w)
  /\ order' = [order EXCEPT ![w] =
       [status |-> kCompleted, plan |-> order[w].plan, completed |-> order[w].completed,
        times |-> order[w].times \cup {"actual_end_at"}]]
  /\ stopRows' = [stopRows EXCEPT ![w] = @ + 1]
  /\ Goto(p, "erp")
  /\ UNCHANGED <<op, inspected, external, faults>>

\* The COMMIT of T1 fails: the result of commitAwait is not looked at.
CompleteNotCommitted(p) ==
  /\ At(p, "t1")
  /\ T1Hits(saga[p].w)
  /\ commitsLost < MaxCommitsLost
  /\ commitsLost' = commitsLost + 1
  /\ Goto(p, "erp")
  /\ UNCHANGED <<rows, external, dbFailures>>

\* T1 hits no row: the status has changed since Begin.
StatusChanged(p) ==
  /\ At(p, "t1")
  /\ ~T1Hits(saga[p].w)
  /\ Return(p, "conflict")
  /\ UNCHANGED <<rows, external, faults>>

\* callExternal, as <<how often the other side did it, does the call succeed>>.
\* It sends the request up to Attempts times; an attempt that times out or
\* whose answer is lost may have been carried out.
CallOutcomes ==
  {outcome \in (0 .. Attempts) \X BOOLEAN : outcome[2] => outcome[1] > 0}

\* T2: the completion report.  It is not cancelled when it fails.
ReportToErp(p) ==
  /\ At(p, "erp")
  /\ \E outcome \in CallOutcomes :
       /\ erp' = [erp EXCEPT ![saga[p].w] = IF outcome[1] > 0 THEN saga[p].qty ELSE @]
       /\ Goto(p, IF outcome[2] THEN "wms" ELSE "rollback")
  /\ UNCHANGED <<rows, stockIns, faults>>

\* T3: the finished goods.
StockIn(p) ==
  /\ At(p, "wms")
  /\ \E outcome \in CallOutcomes :
       /\ stockIns' = [stockIns EXCEPT ![saga[p].w] = @ + outcome[1]]
       /\ Goto(p, IF outcome[2] THEN "record" ELSE "cancel")
  /\ UNCHANGED <<rows, erp, faults>>

\* Compensation of T2: whether it succeeds is only logged.
CancelReport(p) ==
  /\ At(p, "cancel")
  /\ \E outcome \in CallOutcomes :
       erp' = [erp EXCEPT ![saga[p].w] = IF outcome[1] > 0 THEN NotReported ELSE @]
  /\ Goto(p, "rollback")
  /\ UNCHANGED <<rows, stockIns, faults>>

\* Compensation of T1: the status, whatever it is by now; the end time and the
\* stop_collection row stay.
RollbackT1(p) ==
  /\ At(p, "rollback")
  /\ order' = [order EXCEPT ![saga[p].w].status = kInProgress]
  /\ Return(p, "failed")
  /\ UNCHANGED <<op, inspected, stopRows, external, faults>>

\* requireConfig throws: the system was disabled.  Nothing is compensated.
NotConfigured(p) ==
  /\ At(p, "erp") \/ At(p, "wms")
  /\ Return(p, "failed")
  /\ UNCHANGED <<rows, external, faults>>

\* A statement fails: one of T1 (the database rolls T1 back), the SELECT of a
\* configuration, the compensation of T1, or an INSERT of T4.  The saga throws,
\* or logs and throws.
StatementFails(p) ==
  /\ saga[p].pc \in {"t1", "erp", "wms", "rollback", "record"}
  /\ dbFailures < MaxDbFailures
  /\ dbFailures' = dbFailures + 1
  /\ Return(p, "failed")
  /\ UNCHANGED <<rows, external, commitsLost>>

\* T4: the inventory row and the logs.
Record(p) ==
  /\ At(p, "record")
  /\ Return(p, "done")
  /\ UNCHANGED <<rows, external, faults>>

\* The process dies; nothing of the saga is left to resume it.
Crash(p) ==
  /\ At(p, "t1") \/ InFlight(p)
  /\ Return(p, "lost")
  /\ UNCHANGED <<rows, external, faults>>

Saga(p) ==
  \/ Complete(p) \/ CompleteNotCommitted(p) \/ StatusChanged(p)
  \/ ReportToErp(p) \/ StockIn(p) \/ Record(p)
  \/ CancelReport(p) \/ RollbackT1(p)
  \/ NotConfigured(p) \/ StatementFails(p)

Service == Next /\ UNCHANGED <<saga, external, faults>>

SagaNext ==
  \/ Service
  \/ \E p \in Sagas :
       \/ \E w \in WorkOrders : Begin(p, w)
       \/ Saga(p)
       \/ Crash(p)

SagaSpec == SagaInit /\ [][SagaNext]_sagaVars
-----------------------------------------------------------------------------
(* Properties *)

SagaRow ==
  [pc : {"idle", "t1", "erp", "wms", "cancel", "rollback", "record", "over"},
   w : WorkOrders \cup {NoWorkOrder}, qty : Nat,
   result : {"none", "conflict", "failed", "lost", "done"}]

\* Rows and sagas keep their types.
SagaTypeOK ==
  /\ TypeOK
  /\ saga \in [Sagas -> SagaRow]
  /\ erp \in [WorkOrders -> Nat \cup {NotReported}]
  /\ stockIns \in [WorkOrders -> Nat]
  /\ dbFailures \in 0 .. MaxDbFailures
  /\ commitsLost \in 0 .. MaxCommitsLost

\* T1 is the lock of an order: two requests for it are never both past it,
\* unless a COMMIT failed unnoticed.
OneSagaPerOrder ==
  commitsLost = 0 =>
    \A p, q \in Sagas : InFlight(p) /\ InFlight(q) /\ saga[p].w = saga[q].w => p = q

\* What a saga answered with success stays so, whatever other sagas and
\* requests do later: the ERP holds its quantity, the WMS its goods, the order
\* stays finished and its devices were told to stop.
DoneIsLasting ==
  commitsLost = 0 =>
    \A p \in Sagas : saga[p].result = "done" =>
      LET w == saga[p].w IN
        /\ erp[w] = saga[p].qty
        /\ stockIns[w] > 0
        /\ order[w].status \in {kCompleted, kClosed}
        /\ stopRows[w] > 0

\* The compensation never puts an order back to work that has nothing left to
\* report: such an order could not be completed by a report any more. After a lost
\* COMMIT of T1, which is not noticed, nothing is claimed.
RestoredOrderIsOpen == commitsLost = 0 => FullOrderIsFinished

\* The ERP is never told more than was reported on the order.
ErpBacked ==
  \A w \in WorkOrders : erp[w] # NotReported => erp[w] <= order[w].completed
=============================================================================
