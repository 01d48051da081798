------------------------------ MODULE WorkOrder ------------------------------
(***************************************************************************)
(* The work order aggregate of mes-backend: one row of prod_work_orders,   *)
(* its rows of prod_work_order_operations (one per process step) and the   *)
(* stop_collection rows its reports put in mq_outbox.                      *)
(*                                                                         *)
(* A step is one committed transaction of WorkOrderService.  update and    *)
(* transit lock the order row first, and report changes a row only under   *)
(* its lock and a WHERE that is evaluated again after the wait, so the     *)
(* transactions of one order are serialised; a report that found the order *)
(* not in progress in its snapshot, and only then waits for the operation  *)
(* row, leaves what it would have left at the time of the snapshot.        *)
(* A transaction that Drogon rolls back (a                                 *)
(* statement failed, or the COMMIT did) leaves no trace: it is a           *)
(* stuttering step.  A transaction whose C++ code throws AFTER a statement *)
(* succeeded is not rolled back: the destructor of drogon::orm::           *)
(* Transaction sends COMMIT (HANDOVER.md:195, common/SqlParam.hh:53).      *)
(* ReportRejectedAfterUpdate is that case.                                 *)
(***************************************************************************)
EXTENDS Integers, FiniteSets, Functions

CONSTANTS
  WorkOrders,   \* ids of prod_work_orders rows that may be created
  Steps,        \* step_seq values of the process route
  GatedSteps,   \* steps whose prod_process_steps.quality_check is true
  GateEnabled,  \* sys_configs.quality_gate_enabled
  Quantities,   \* the integers a request body may carry as a quantity
  AnyStep       \* an inspection whose operation_id is NULL

\* The code needs no more of its parameters: create refuses a route without
\* steps and inserts one row per step, and a quantity is whatever integer the
\* JSON body holds.
ASSUME ParametersAssumption ==
  /\ Steps # {}
  /\ IsFiniteSet(Steps)
  /\ GatedSteps \subseteq Steps
  /\ GateEnabled \in BOOLEAN
  /\ Quantities \subseteq Int
  /\ AnyStep \notin Steps

VARIABLES
  order,      \* order[w]: status, plan, completed, and the time columns set
  op,         \* op[w][s]: status, plan, completed
  inspected,  \* <<w, s>> with an inspection of result 1 or 3
  stopRows    \* stopRows[w]: stop_collection rows enqueued for w

vars == <<order, op, inspected, stopRows>>
-----------------------------------------------------------------------------
(* models/WorkOrderStateMachine.hh *)

Absent == -1   \* no row
kPendingSchedule == 0
kScheduled == 1
kReleased == 2
kInProgress == 3
kPaused == 4
kCompleted == 5
kClosed == 6
kCancelled == 7

Status == kPendingSchedule .. kCancelled

Event == {"schedule", "release", "start", "pause", "complete", "close", "cancel"}

kTable ==
  { <<kPendingSchedule, "schedule", kScheduled>>,
    <<kScheduled,       "release",  kReleased>>,
    <<kReleased,        "start",    kInProgress>>,
    <<kInProgress,      "pause",    kPaused>>,
    <<kPaused,          "start",    kInProgress>>,
    <<kInProgress,      "complete", kCompleted>>,
    <<kCompleted,       "close",    kClosed>>,
    <<kPendingSchedule, "cancel",   kCancelled>>,
    <<kScheduled,       "cancel",   kCancelled>>,
    <<kReleased,        "cancel",   kCancelled>> }

\* The statuses an event leads to: at most one, none where next() returns -1.
next(from, event) == {to \in Status : <<from, event, to>> \in kTable}

canTransition(from, to) ==
  from = to \/ \E event \in Event : <<from, event, to>> \in kTable

\* The columns actual_start_at and actual_end_at, by whether they are set.
TimeColumn == {"actual_start_at", "actual_end_at"}

\* prod_work_order_operations.status; 3 (skipped) is written by no code.
OpPending == 0
OpActive == 1
OpDone == 2
-----------------------------------------------------------------------------
NoOrder == [status |-> Absent, plan |-> 0, completed |-> 0,
            times |-> {}]

NoOp == [status |-> OpPending, plan |-> 0, completed |-> 0]

Init ==
  /\ order = [w \in WorkOrders |-> NoOrder]
  /\ op = [w \in WorkOrders |-> [s \in Steps |-> NoOp]]
  /\ inspected = {}
  /\ stopRows = [w \in WorkOrders |-> 0]
-----------------------------------------------------------------------------
\* create: the order and one operation per step, each with the order's plan.
Create(w, qty) ==
  /\ order[w].status = Absent
  /\ qty > 0
  /\ order' = [order EXCEPT ![w] = [status |-> kPendingSchedule, plan |-> qty,
                                    completed |-> 0, times |-> {}]]
  /\ op' = [op EXCEPT ![w] =
       [s \in Steps |-> [status |-> OpPending, plan |-> qty, completed |-> 0]]]
  /\ UNCHANGED <<inspected, stopRows>>

\* Mutant: the second statement without "AND status = 0".
SyncedPlanMutant(o, qty) ==
  [status |-> o.status, completed |-> o.completed, plan |-> qty]

\* The operations a new plan quantity reaches: those not yet reported on.
SyncedPlan(o, qty) ==
  [status |-> o.status, completed |-> o.completed,
   plan |-> IF o.status = OpPending THEN qty ELSE o.plan]

\* Mutant: update without the check of the status.
UpdateMutant(w, qty) ==
  /\ order[w].status # Absent
  /\ order' = [order EXCEPT ![w].plan = qty]
  /\ op' = [op EXCEPT ![w] = [s \in Steps |-> SyncedPlan(op[w][s], qty)]]
  /\ UNCHANGED <<inspected, stopRows>>

\* update with plan_qty, any integer.  The fields priority and line_id change
\* nothing that is modelled here.
Update(w, qty) ==
  /\ order[w].status \in {kPendingSchedule, kScheduled}
  /\ order' = [order EXCEPT ![w].plan = qty]
  /\ op' = [op EXCEPT ![w] = [s \in Steps |-> SyncedPlan(op[w][s], qty)]]
  /\ UNCHANGED <<inspected, stopRows>>

\* The time column that transit sets with the status.
Stamped(event, completed) ==
  CASE event = "start" /\ completed = 0 -> {"actual_start_at"}
    [] event \in {"complete", "close"}  -> {"actual_end_at"}
    [] OTHER                            -> {}

\* transit: the table decides; a manual "complete" enqueues no stop command.
Transit(w, event) ==
  \E to \in next(order[w].status, event) :
    /\ order' = [order EXCEPT ![w] =
         [status |-> to, plan |-> order[w].plan, completed |-> order[w].completed,
          times |-> order[w].times \cup Stamped(event, order[w].completed)]]
    /\ UNCHANGED <<op, inspected, stopRows>>

\* QcService::createInspection with result 1 (passed) or 3 (concession).  No
\* code deletes an inspection or changes its result.
Inspect(w, s) ==
  /\ order[w].status # Absent
  /\ inspected' = inspected \cup {<<w, s>>}
  /\ UNCHANGED <<order, op, stopRows>>
-----------------------------------------------------------------------------
(* report *)

\* The quality gate, read in the same transaction.  Passing it is stable.
GateOpen(w, s) ==
  \/ ~GateEnabled
  \/ s \notin GatedSteps
  \/ <<w, s>> \in inspected
  \/ <<w, AnyStep>> \in inspected

\* WHERE of the CTE: the operation row takes the quantity.
OpTakes(o, delta) == o.completed + delta <= o.plan

\* SET of the CTE.
ReportedOp(o, delta) ==
  [status |-> IF o.completed + delta >= o.plan THEN OpDone ELSE OpActive,
   plan |-> o.plan,
   completed |-> o.completed + delta]

\* Mutant: the main UPDATE without EXISTS (SELECT 1 FROM op).
OpUpdatedMutant(w, s, delta) ==
  /\ order[w].status # Absent
  /\ delta > 0
  /\ GateOpen(w, s)
  /\ op' = [op EXCEPT ![w][s] = IF OpTakes(@, delta) THEN ReportedOp(@, delta) ELSE @]

\* The request passes validation and the gate, and the CTE hits its row.
OpUpdated(w, s, delta) ==
  /\ order[w].status # Absent
  /\ delta > 0
  /\ GateOpen(w, s)
  /\ OpTakes(op[w][s], delta)
  /\ op' = [op EXCEPT ![w][s] = ReportedOp(@, delta)]

\* Mutant: the main UPDATE hits paused and completed orders as well.
OrderTakesMutant(o) == o.status \in {kInProgress, kPaused, kCompleted}

\* WHERE of the main UPDATE, as far as it concerns the order row.
OrderTakes(o) == o.status = kInProgress

Finished(o, delta) == o.completed + delta >= o.plan

\* Mutant: the automatic completion forgets actual_end_at.
ReportedOrderMutant(o, delta) ==
  [status |-> IF Finished(o, delta) THEN kCompleted ELSE o.status,
   plan |-> o.plan,
   completed |-> o.completed + delta,
   times |-> o.times]

\* SET of the main UPDATE.
ReportedOrder(o, delta) ==
  [status |-> IF Finished(o, delta) THEN kCompleted ELSE o.status,
   plan |-> o.plan,
   completed |-> o.completed + delta,
   times |-> IF Finished(o, delta) THEN o.times \cup {"actual_end_at"} ELSE o.times]

\* Both updates hit; a report that fills the order enqueues stop_collection
\* in the same transaction.
Report(w, s, delta) ==
  /\ OpUpdated(w, s, delta)
  /\ OrderTakes(order[w])
  /\ order' = [order EXCEPT ![w] = ReportedOrder(@, delta)]
  /\ stopRows' = [stopRows EXCEPT ![w] = @ + IF Finished(order[w], delta) THEN 1 ELSE 0]
  /\ UNCHANGED inspected

\* The CTE hits, the main UPDATE does not (the order is not in progress):
\* report throws Conflict, and the destructor commits the operation's update.
ReportRejectedAfterUpdate(w, s, delta) ==
  /\ OpUpdated(w, s, delta)
  /\ ~OrderTakes(order[w])
  /\ UNCHANGED <<order, inspected, stopRows>>
-----------------------------------------------------------------------------
Next ==
  \/ \E w \in WorkOrders :
       \/ \E qty \in Quantities : Create(w, qty) \/ Update(w, qty)
       \/ \E event \in Event : Transit(w, event)
       \/ \E s \in Steps \cup {AnyStep} : Inspect(w, s)
       \/ \E s \in Steps, delta \in Quantities : Report(w, s, delta)
       \/ \E s \in Steps, delta \in Quantities : ReportRejectedAfterUpdate(w, s, delta)

Spec == Init /\ [][Next]_vars
-----------------------------------------------------------------------------
(* Properties *)

OrderRow == [status : Status \cup {Absent}, plan : Int, completed : Nat,
             times : SUBSET TimeColumn]

OpRow == [status : {OpPending, OpActive, OpDone}, plan : Int, completed : Nat]

\* Every row keeps its columns' types; quantities never go negative.
TypeOK ==
  /\ order \in [WorkOrders -> OrderRow]
  /\ op \in [WorkOrders -> [Steps -> OpRow]]
  /\ inspected \subseteq WorkOrders \X (Steps \cup {AnyStep})
  /\ stopRows \in [WorkOrders -> Nat]

\* No sequence of reports, plan changes and status changes makes an operation
\* that was ever reported on hold more than its plan, and its status column
\* says exactly how far it is: the guard of report's CTE and the "status = 0"
\* of update's second statement protect each other.
OpNeverOverPlan ==
  \A w \in WorkOrders, s \in Steps :
    LET o == op[w][s] IN
      /\ o.status = OpPending <=> o.completed = 0
      /\ o.completed > 0 => o.completed <= o.plan
      /\ o.status = OpDone => o.completed = o.plan

\* An order that is in progress or paused with something reported still lacks
\* quantity: a full order has always been taken to kCompleted by the report
\* that filled it, whatever was paused, resumed or re-planned before.
FullOrderIsFinished ==
  \A w \in WorkOrders :
    order[w].status \in {kInProgress, kPaused} /\ order[w].completed > 0
      => order[w].completed < order[w].plan

\* The stop_collection command is enqueued exactly once per order, by the
\* report that filled it, and by nothing else: a second filling report, or a
\* fill that forgets the row, is impossible.
StopEnqueuedOnce ==
  \A w \in WorkOrders :
    stopRows[w] = IF order[w].completed > 0 /\ order[w].completed >= order[w].plan
                  THEN 1 ELSE 0

\* The start and end time columns agree with the status on every path, the
\* automatic completion of report included.
TimesFollowStatus ==
  \A w \in WorkOrders :
    /\ "actual_start_at" \in order[w].times
         <=> order[w].status \in {kInProgress, kPaused, kCompleted, kClosed}
    /\ "actual_end_at" \in order[w].times
         <=> order[w].status \in {kCompleted, kClosed}

\* The quantity recorded on the operations of w.
OpTotal(w) == SumFunction([s \in Steps |-> op[w][s].completed])

\* The order never counts a quantity that no operation row recorded, so the
\* order's total is reached only through operations that had room for it.
SummaryBackedByOps ==
  \A w \in WorkOrders : order[w].completed <= OpTotal(w)

\* Every change of an order's status is one the transition table allows: also
\* the CASE in report's SQL, which writes the status without consulting it.
StatusByTable ==
  [][\A w \in WorkOrders :
       order[w].status # Absent => canTransition(order[w].status, order'[w].status)]_vars
=============================================================================
