# A verification development for MES-cpp

MES-cpp is a manufacturing execution system: a C++20 backend on Drogon
(`mes-backend`), an edge collector for Modbus devices (`mes-iot`), two browser
clients (`mes-web`, `mes-dashboard`), PostgreSQL, Redis and RabbitMQ. The modules
here model the parts of the backend where several transactions, threads,
processes or messages meet, and the edge collector; TLC checks them on small instances and TLAPS proves
what matters most for every instance. Paths below are relative to
`mes-backend/src/` unless they say otherwise.

## 1. Inventory

### How the parts interact

A request passes the middlewares (token, permission, rate limit, audit) and a
controller, which calls one service. Services are coroutines or callbacks on
Drogon's event loops; the database client has many connections, so statements
of different requests, and unordered statements of one request, run at the same
time. Services never publish to RabbitMQ: they insert into `mq_outbox` in their
transaction and the dispatcher publishes after COMMIT. Three consumer threads
take messages back in: sensor data, alerts, and stop commands.

    report ──tx──> prod_work_orders, operations, mq_outbox
                                                    │ OutboxDispatcher (one per instance)
                                                    ▼
          RabbitMQ: iot.cmd.queue ──> StopCollectionHandler ──> mq_outbox (one row per device)
                                                                    ▼
                    iot.cmd.collector.queue ──> mes-iot CmdConsumer ──> DevicePoller
      mes-iot BatchPublisher ──> sensor data queue ──> DataIngestHandler ──> tables, alert queue
                                                               alert queue ──> AlertHandler

| Component | State it keeps | Operations | What makes it correct |
|---|---|---|---|
| Work order aggregate: `services/WorkOrderService.cc`, `models/WorkOrderStateMachine.hh`, `utils/ReportRules.hh` | rows of an order and of its operations | create, update, transit, report | nothing is over-reported; order and operations agree; a full order is completed and stops collection once; only table transitions |
| Outbox: `mq/OutboxDispatcher.cc`, `mq/OutboxPolicy.hh`, `mq/MqProducer.cc` | `mq_outbox` | insert in a transaction; tick every 2 s in every instance | at least once, one scanner, bounded retries, everything settled |
| Stop relay: `mq/StopCollectionHandler.cc` | a consumer thread, a queue of results | consume, query devices, insert a row per device, acknowledge | acknowledged only when all rows are written; every delivery answered; relayed in the end |
| Quality control: `services/QcService.cc` | inspections, standards | createInspection and CRUD | report's gate reads it |
| Integration: `services/IntegrationService.cc`, `utils/CircuitBreaker.hh` | ERP orders, sync logs, a breaker per system | sync, convert, completion saga, WMS calls, retry | compensation restores what it undoes; one work order per ERP order, where nothing overlaps or fails |
| Ingest: `mq/DataIngestHandler.cc` | rows buffered, dedup and suppression windows | consume, flush, acknowledge, publish alerts | no acknowledged row is lost; no alert swallowed |
| Alerts and device status: `mq/AlertHandler.cc`, `mq/DeviceMonitor.cc` | alerts, device status | insert alert; offline scan | one alert per outage, but for losses and copies on its way; a silent device goes offline; the first handler of an alert stays |
| Permission cache: `services/RbacService.cc` | Redis set per user, waiters in flight | check, load, invalidate | a revoked permission stops working; every check is answered |
| Sessions: `services/AuthService.cc`, `utils/JwtUtils.cc` | blacklist in Redis, failure counter, verification cache | login, refresh, logout, change of password | a token makes one successor; a logout ends the login; the lock holds; an old password does not admit |
| Live push: `websocket/WsBroadcastManager.cc` | subscribers, pending frames, leader lease | subscribe, publish, flush | somebody always pushes; the last frame arrives |
| Edge collector: `mes-iot/src` | pollers, a bounded buffer | poll, publish a batch, pause and resume | readings carry their own registers and leave in order; the last command wins |
| Request pipeline: `middlewares/CrossCutting.cc` | none | token check, permission check, audit | a request that waits for permissions is answered, unless Redis failed it |
| Administration: `services/SystemService.cc` | users, roles, departments | assign, update, delete | a change reaches the caches |
| Controllers, other CRUD services, metrics, clients, deployment | none beyond their tables | | see 7 |

### Hard behaviours

- **A C++ exception does not roll back.** Drogon's `Transaction` sends COMMIT from
  its destructor. A statement that fails in the database rolls back; code that
  throws after a statement succeeded commits it (`HANDOVER.md:195`,
  `common/SqlParam.hh:48-77`).
- **Publishing is outside the transaction**, so it is repeated or lost against it.
- **Callbacks run in parallel** with the code that starts them.
- **Delivery tags belong to a channel**, results wait in a queue that survives it.
- **Check-then-act over several statements** (ERP conversion, refresh tokens,
  permission cache, device scan) with other requests between them.
- **Crash and restart** at any point of a tick, a relay or an ingest batch.

`PROJECT.json` lists them as hazards, each at its line.

## 2. Modules

| Module | Models | Kind |
|---|---|---|
| `WorkOrder` | the work order aggregate | component |
| `MCWorkOrder` | its instances | model checking |
| `Delivery` | what an outbox promises the services that write to it | abstract specification |
| `Outbox` | table, dispatchers, lock, publishing; refines `Delivery` | component |
| `OutboxProofs` | its invariants, at-least-once, duplicates and the refinement | proofs |
| `StopCollection`, `MCStopCollection` | the stop relay with an external broker | component, model checking |
| `StopCollectionProofs` | its theorems | proofs |
| `CompletionSaga` | the completion saga beside `WorkOrder`'s transactions | composition |
| `CompletionSagaProofs` | its theorems and those of `WorkOrder`, which it extends | proofs |
| `CircuitBreaker` | the methods of the breaker as functions of its state | operators |
| `Integration` | synchronisation, conversion, WMS calls and repetition, sharing two breakers | composition |
| `IntegrationProofs` | its theorems | proofs |
| `DataIngest`, `MCDataIngest` | ingest and the alert consumer, with an external broker | component, model checking |
| `DataIngestProofs` | its theorems | proofs |
| `DeviceMonitor` | offline scan, device rows, handling of alerts | component |
| `DeviceMonitorProofs` | its theorems and those of `Edge`, which it extends too | proofs |
| `Access` | permission and scope caches, the check of a request, administration | component |
| `AccessProofs` | its theorems | proofs |
| `Session`, `MCSession` | login, refresh, logout, passwords; requests of one kind are symmetric | component, model checking |
| `SessionProofs` | its theorems and those of `LivePush`, which it extends too | proofs |
| `LivePush` | lease, frames, subscribers | component |
| `Edge`, `MCEdge` | the collector with a device and a broker | component, model checking |

### WorkOrder

A step is one committed transaction of `WorkOrderService`. `update` and `transit`
lock the order row first; `report` is one SQL statement (a CTE that updates the
operation, and a main UPDATE of the order) whose WHERE clauses are evaluated
again under the row locks, so the transactions of one order are serialised.
`Create`, `Update`, `Transit`, `Inspect`, `Report` follow the functions of these
names. `ReportRejectedAfterUpdate` is the path on which the CTE hits and the main
UPDATE misses because the order is not in progress: `report` throws 409 and the
destructor commits the operation's new quantity. A transaction that the database
rolls back changes nothing and is a stutter. The good/defect/scrap split,
operator, product and priority are left out; time columns are modelled by
whether they are set; quantities are any integers, also zero and negative ones,
where the code does not check them (`update` does not).

The module is about the transactions of `WorkOrderService`. The completion saga
of `IntegrationService.cc:279-378` also writes the order's status;
`CompletionSaga` composes the two, and of `WorkOrder`'s properties only
`FullOrderIsFinished` (as `RestoredOrderIsOpen`) and `OpNeverOverPlan` (proved, not
checked) are claimed there.

### Outbox

`Tick` is the code from `g_running` to the selection of the batch, `PublishRow`
one turn of the loop, `Commit` the destructor's COMMIT. The UPDATEs of a batch are
held in `sent` and `failed` until then. `Abort` is any other end of the
transaction. `LoseConnection` is the server dropping the connection while the
publish runs in its own thread (`BlockingAwaiter`): the lock is free although
that publish, `OrphanPublish`, is still to come. `PublishOutcomes` are the pairs
(the broker has it, the call returned true). `ConfirmedPublish` states whether
`BasicPublish` returns only after the broker's answer: SimpleAmqpClient's channels
are in confirm mode, while the comment at `mq/MqProducer.cc:37` says the library
offers no confirmation; with FALSE nothing but the retry policy can be promised.

### StopCollection

The consumer thread is a loop of `TakeAcks` (swap `g_ackQueue`), `Settle` or
`SettleUnknown` per result, then `Consume` or `Timeout`; any exception is noticed by
`Notice`, which drops the channel and what it buffered, not the results. `QueryReturns`,
`QueryFails`, `Submit`, `InsertReturns`, `InsertFails` are the database callbacks and
the loop between them, which interleave: `Submit` is one turn of the loop
(`fetch_add` and the insert), `InsertReturns` and `InsertFails` its two callbacks.
The broker is external: prefetch 1, tags that start again on each channel, a
channel closed by an unknown tag. `Fault` counts what may fail: a statement, the
connection, the process.

The handler can lose a command in three ways, and `history` records each where the
code takes it: `early`, the callback of an insert finds the counter at one while the
loop has devices to go; `mistaken`, a result of an old channel meets the tag of
another message; `stranded`, an insert fails and a later one returns last. The
properties say that these are the only ways.

### CompletionSaga

It extends `WorkOrder`, whose rows it shares: its own specification is `SagaSpec`, and
`Service` is any transaction of `WorkOrderService`. A saga is a coroutine: `Begin` the first SELECT, `Complete` T1 (one
transaction), `ReportToErp` T2, `StockIn` T3, `Record` T4, `CancelReport` and
`RollbackT1` the compensations in the order of lines 350-358. `CompleteNotCommitted`
is a COMMIT of T1 that fails: `commitAwait` returns false and line 317 drops it, so
the saga reports an order that is not completed. `NotConfigured`, `StatementFails`
and `Crash` end a saga without compensation. The ERP and the WMS are external: a
call is sent up to `Attempts` times, each may be carried out although its answer is
lost, and `CallOutcomes` is how often it was and whether the call succeeded. The ERP
keeps one completion report per order, the WMS counts bookings. A request is
carried out before the call returns; one that arrives later still is outside the
model, and so is the circuit breaker, whose refusal is the outcome
(carried out 0 times, failed).

Consequences of the code that the model keeps and no property forbids: the
`stop_collection` row of T1 stays when T1 is compensated; a T2 that failed but was
carried out is not cancelled; a T3 repeated after a lost answer books twice; a
report between `Begin` and T1 is not in the quantity the ERP gets. The properties
other than `ErpBacked` are claimed while no COMMIT was lost
(`commitsLost = 0`): after one, two sagas can hold the same order.

### Integration and CircuitBreaker

Each request is a coroutine that gives up its thread at every statement and call:
`Calls` to `Fails` is `callExternal` (the breaker is asked once, then up to `Attempts`
times sent), `Upsert`, `InsertInventory`, `LogSuccess` and `failExternal` its end,
`convertErpOrder`, `Create`, `MarkConverted` the three statements of a conversion,
`retryLog`, `MarkRetried`, `LogRetried` those of a repetition. `StatementFails` and
`Crash` end a coroutine anywhere. Histories hold what the properties excuse:
conversions under way when another one read the order (`beside`), conversions whose
mark was lost after their work order was made (`orphaned`), and marks whose
repetition was lost. What the code does and no property forbids: two overlapping
conversions create two work orders, and so do two in sequence when the first one's
mark was lost, because the work order is committed on its own before the mark
(`services/IntegrationService.cc:262-276`); the late failure of one repetition
overwrites the success of another; a repetition adds no inventory row; HALF_OPEN admits every request, and a
success of a request from before the trip closes it; a synchronisation overwrites
the quantity of a converted order.

### DataIngest

The thread is a loop as in `StopCollection`: `Connect`, `TakeAcks`, `Settle`, then one
delivery (`Invalid`, `Reading`), or `Idle` or `Flush` when none comes; `Notice`,
`InvalidThrows` and `AlarmThrows` drop the channel. `Inserted` and `InsertFails` are
the callbacks of a batch, `HandleAlert` to `AlertInsertFails` the alert consumer. A
malformed reading goes round the retry queue until `kMaxRetry`. `blind`, `lostAlerts` and `mistaken`
record a reading whose thresholds were not loaded, an alert whose publication threw
after the suppression window was entered or whose INSERT failed after the
acknowledgement, and a result of an old channel that settled another reading. The
columns of a reading and timestamps out of order are left out.

### DeviceMonitor

One action per statement: the scan's SELECT, the UPDATE of each device it names and
the INSERT of its alert run in any order beside those of other instances. The
heartbeat comes from the ingest, the rest of `iot_devices` from the administration.
An enqueued alert goes through the outbox (`Published`), the queue (`HandleAlert`) and
an INSERT that the consumer does not wait for (`Inserted`), which are counters per
device: the order of alerts and the retries are those of `Outbox`. A row
may be published although it stays to be published again (`PublishedAgain`), be given
up at the limit or be marked sent without a confirm (`GivenUp`), a message may be
delivered again after its INSERT was sent, and an INSERT may fail once its message is
acknowledged (`InsertFails`). `copies` and `lost` record these, and
`OneAlertPerOutage` is the account: neither exactly one row per outage nor at least
one is true of the code.
A device that never reported is not taken offline (its heartbeat is NULL); one that
reports between SELECT and UPDATE is taken offline wrongly until its next report.

### Access

One user, two processes. `Check`, `Join`, `Select`, `SelectReturns` are the check of
a request and the load it may start; the fill is a command at a time in any order
(the Redis client has several connections). Changes are those of
`SystemService` that call an invalidation; `updateRole` alone does not wait for its
COMMIT (`services/SystemService.cc:489`). Histories name the races the properties
excuse. A request whose lookup in Redis fails (`CheckWithoutRedis`) loads the
permissions with a callback that throws them away (`services/RbacService.cc:149`): it
is answered if the load fails and `dropped` if it succeeds, and `WaiterAnswered` says
just that of it. What the code does and no property forbids: an EXPIRE that overtakes the
first SADD leaves a set without expiry; the second query of the data scope does not ask
for roles that are not deleted (line 208).

### Session

One user. Requests are chains of callbacks, one action per statement; the token's
age and the blacklist key's life count in ticks. `verified` is the cache of
verified passwords. A logout is the token check of its own request (`LogoutCheck`)
and the SET (`Logout`, `LogoutFails`); a refresh asks the blacklist, reads the row,
issues and then sets the key of the old session, and may end anywhere
(`RefreshFails`). Sessions form a tree under the login they descend from (`root`), and
only those in `out` were handed to a client.

`LogoutEndsLogin` is about all of a login's sessions, since a client that logs out
holds the last of a chain of refreshes. It excuses a login only if one of its
sessions was refreshed twice at once (`overlapped`), replaced and not blacklisted
(`unrotated`) or refreshed while its logout was under way (`overtaken`). The last is
the race of `services/AuthService.cc:239-272` with a logout: the refresh has passed
EXISTS, the logout is answered, and the refresh hands out a session that lives until
it expires. Redis is assumed to keep a key until its time, and the key to outlive the
tokens (`Covered`): with the defaults it just does, but `jwt_access_ttl_sec` and
`jwt_refresh_ttl_sec` are configurable (`main.cc:30-31`) and the key's 604800 s are
not (`services/AuthService.cc:270`, `controllers/AuthController.cc:81`).

Neither a change of password nor a disabled or deleted account ends a session: an
access token passes until it expires. A refresh asks for an enabled account only,
so it goes on after a change of password. A captcha may be left out of a login and then refuses nothing,
so it is not modelled. What the code does and no property forbids: two overlapping
refreshes both get a session; a login that has passed the check of the status is
admitted after the account was locked; a failure counted late turns a disabled account into
a locked one, which resetPassword enables; changePassword overwrites a concurrent
resetPassword (`services/AuthService.cc:346`).

### LivePush

One channel. `Ask` reads the lease, `Renew` or `Take` acts on the answer in a second
command. A frame reaches the instances connected just then; `Snapshot` is the
timer's swap of the pending frame and copy of the subscribers, `Sends` the sending
outside the lock. Frames are numbers. A stale leader can take a lease over, so two
instances may push for a second; a subscriber dropped at the limit is not told
(`websocket/WsBroadcastManager.cc:284`).

### Edge

One poller, the command thread, the publisher and the end of the process.
`loadConfig` skips a sensor with address 0 and gives up the whole list on one that
does not parse, as the code does; with none left, or none loaded, the process runs
and collects nothing (`Modes`). `mergeFrames` is the code's loop as a fold over the
sensors in the order of their addresses, `Merged` one turn of it; `at` is the
poller's place in a round: the frame, the sensor in it and `offsetInFrame`.
The device answers late, twice, with an exception or not at all. What the code does
and no property forbids: a batch is lost when its publication throws, the queue
when the process ends, and a frame that fails starves those after it; a pause is
not kept over a restart; an exception reply with code 0 would be taken for an empty
answer and is assumed not to be sent; the comment at `collector/DevicePoller.cc:94`
says "≤" where the code joins equal addresses only.

## 3. Runs

| Run | Instance | Shows |
|---|---|---|
| `work_order` | one order, two operations, one of them gated, quantities -1..3 | the safety properties of the aggregate |
| `outbox` | 3 rows, batches of 2, 2 instances, 2 attempts, 1 lost transaction | at-least-once, one scanner, the retry boundary, duplicates accounted for, every row settled, refinement of `Delivery` |
| `stop_collection` | commands for lines of 2 and of 1 device, a malformed message, 1 fault, 3 channels | acknowledged only when written, no delivery forgotten, relayed eventually, but for the three ways of `history` |
| `completion_saga` | 1 order with 1 operation, 2 sagas, 2 attempts per call, 1 failed statement, 1 lost COMMIT, crashes | one saga holds an order, success lasts, compensated orders can go on, the ERP is told no more than was reported |
| `integration` | 3 requests, 2 attempts per call, threshold 2, quantities 0 and 1 | one work order per ERP order unless conversions overlap or a mark is lost, marks belong to repetitions, the breaker trips on failures in a row |
| `data_ingest` | a good and a malformed reading, batches of 2, 1 refused INSERT, 1 lost connection, 1 restart, 2 channels | no reading and no alert is lost but where the code admits it; every reading is settled |
| `device_monitor` | 1 device, 2 instances, 2 users, 2 outages, 2 failures, 1 edit | one alert enqueued per outage and every row accounted for, a silent device goes offline, the first handler stays |
| `access` | 1 role, 1 permission, 2 processes, 2 requests, 1 change, 1 failure | what is revoked leaves the cache, the scope follows, a waiting request is answered or, if Redis failed it, dropped |
| `session` | 3 sessions, 2 logins, 2 refreshes, 1 change of password and 1 logout at once, 2 passwords, limit 2, 5 events | a logout ends its login, one successor per token, the lock holds, no old password admits |
| `live_push` | 2 instances, 2 subscribers, limit 1, 2 frames, 1 loss, 1 crash | somebody pushes again and again, the latest frame is sent |
| `edge` | six sensor lists, batches of 2, 2 rounds, 2 commands, 1 failure, 1 restart | own registers, order of publication, the last command wins |
| `edge_stop` (violation) | the same with the backend's stop payload | the command is acknowledged and polling goes on |

Bounds. Orders do not interact, so one is enough; two operations are needed for
the quantities of one to be reported on another, and a plan of 3 can be reached
in one, two or three reports. In `Outbox` two instances contend for the lock, a
batch smaller than the table leaves rows for the next tick, and two attempts are
the smallest limit with a failure that is not the last. In `StopCollection` a line
of two devices is the smallest on which callbacks race, a second command the
fewest for a result to meet another's tag, and three channels let a stale result
close one and a third deliver again. In `CompletionSaga` two sagas contend for one
order, and quantities 1 and 2 give a partly reported and a full order; two
attempts are the fewest that can book twice. In `Integration` a third request can
synchronise or repeat between two others. In `DataIngest` a batch of two holds both
readings, and one fault of each kind can follow another. In `Session` three
sessions let two refreshes of one make two successors and make a chain of two
refreshes to log out of, ages up to 2 let a token and a key expire, and the five
logins, refreshes, failures and changes of the row (`MaxEvents`) are enough for a
login, a chain of two refreshes, a failure and a refresh of what was logged out. In `LivePush` two subscribers and a limit of one reach the limit;
in `Edge` a batch of two is smaller than a round of some lists. Every `Max...`
constant bounds how often something happens, not what it does then; where a
property names such a bound (`MaxConnects`, `MaxOutages`) it is because the bound
stops the environment there. The theorems hold for all values.

Deadlock is checked except where the model stops by itself: the requests of
`Integration`, `Access` and `Session` have all been answered, the bounded channels of
`StopCollection` are used up, the collector of `Edge` has ended.

Fairness. `Outbox!FairSpec` assumes that some instance's timer fires
(`runEvery(2.0)`) and that a tick that has begun is run to its end. Failures are
not fair: rows may fail until they are given up. `StopCollection!FairSpec` and
`DataIngest!FairSpec` assume that the broker delivers, that the consumer thread
runs, and that every statement is answered; `DataIngest` needs strong fairness of
`Flush` because a batch is flushed when the consumption times out, and each
message that arrives puts that off. `DeviceMonitor!FairSpec` is the timer and the
answers of statements; `Access!FairSpec` that Redis and the database answer;
`LivePush!FairSpec` that leases expire, timers fire and the sending loop goes on;
`Edge!EdgeSpec` that the command thread runs and the broker takes its consumer back. A
statement that is never answered is outside all of them. `CompletionSaga`,
`Integration` and `Session` are checked for safety only: nothing resumes a saga or a
conversion after a crash.

## 4. Proofs

`CompletionSagaProofs` states the theorems of both modules it composes, because one
lemma about a transaction of the service (`ServiceStep`) carries both. Of `Spec`, the
service alone, it proves for every set of orders, finite route, gate and set of
quantities what `work_order` checks. `OpNeverOverPlan` is inductive once an operation's plan is
known to change only while nothing was reported on it (`SyncedPlan` touches status 0
only). `FullOrderIsFinished`, `StopEnqueuedOnce` and `TimesFollowStatus` need that an
order before kInProgress has nothing reported and an order with a filled plan is
kCompleted or kClosed, which the inductive invariant `OrderInv` adds.

`SummaryBackedByOps` compares an order with a sum over its operations, a fold that
chooses its next operation. The library's induction theorems take an operator and
cannot be used, so the induction is over sets: a smallest number outside a set of
numbers has its predecessor in it (`NatSetInduction`), and a smallest subset outside a
set of subsets has in it the subset without its chosen element (`SubsetInduction`).
With these a function that satisfies the equations of a fold exists (`FoldExists`), so
the choice that defines the library's fold is such a function. That one summand more
adds what it adds, whichever element is chosen first, is a second induction
(`SumOfOneMore`); the rest is that no transaction lowers a sum below what it leaves
in the order, also with sagas beside it (`SummaryBackedBesideSaga`).

`OutboxProofs` proves for any number of rows, instances, faults and any limit:
`OneScanner` from `LockInv` (the lock names the transaction that can still commit),
and `DeadExactlyAtLimit` from `BatchInv` (the rows of a live batch keep the status
they were selected with, because nobody else can commit). With `TodoInv` (a batch, also of a lost
transaction, holds rows that exist) follow `SentReachedBroker` and that `Spec`
implements `Delivery!Spec`, both assuming `ConfirmedPublish`. `DuplicatesAccounted`
holds with and without it. It is not inductive: a publish of a lost transaction adds
a copy when its fault was counted long ago, so `CopyInv` counts beside the copies
those that lost transactions may still send (`Stray`). The fault of a lost connection
pays for the stray copy of a row still to be published, and for the copy already made
of one that was published and not committed.

`StopCollectionProofs` proves both invariants of `stop_collection` for any messages,
lines, faults and channels. `ResultsDone`: a positive result, wherever it waits, is about a message whose
rows are written, or that is malformed or counted in `early`. It rests on `JobsCount`:
a job without a failure has every device whose row is missing in `todo` or
`underway`, so a callback that finds nothing else under way and an empty `todo` has
written the last one. For `NoDeliveryForgotten` the invariant is that a closed channel
awaits nothing and the loop starts with its results spent (`Closed`), and that a job
leaves only with a result or stranded (`Attended`). Neither needs tags to be
unique: a result that meets a tag of another message is recorded, not excluded.

`DataIngestProofs` proves both invariants of `data_ingest` for any readings, sensors,
batch size and prefetch. For `ReadingsAccounted` the invariant adds that a result that
acknowledges is about a stored reading, wherever it waits (`OkStored`), so an
acknowledgement drops a delivery only when its reading is stored or it took another's
place; whatever else removes a copy or a delivery leaves the reading somewhere
(`Kept`), and batches hold no malformed reading (`Row`). `AlertsAccounted` is strengthened in two directions (`AInv`): it
holds from the moment the row is collected, before it is stored, and every sensor in
the suppression window has been announced, so a reading that finds the window closed
to it relies on an alert that exists or is lost.

`AccessProofs` proves both invariants of `access` for any roles, permissions,
departments, processes and numbers of changes and failures. What a cache holds is right, or an
invalidation that concerns the user is still to come (`Owed`), or a history excuses
it. `Owed` is finer than the `lookups` of the properties: an invalidation of a role
the user does not have may be spent without effect, and `SameTables` shows that such
a role changes nothing a cache holds. A load under way is part of the invariant
(`Fresh` for scopes, `LoadsFresh` for permissions): what it has read is what the tables
say now, unless a change since has aged it or set `raced`. `OneQuery` is why a scope read
in one query is whole unless it is custom.

Beside them `AccessProofs` proves two properties of requests that no run lists. `WaitInv`
says that a request waits for one load only, that a load under way has those who wait
for it, and that who waits is waiting for one: hence nobody waits in vain
(`NobodyWaitsInVain`), and no answer is given twice (`Once`).

Of the composition `CompletionSagaProofs` proves all properties of `completion_saga`
for any number of orders, requests, attempts and failures. `RowStep` states what one transaction of
the service can do to the row of one order, and is proved per transaction; with it
the inductive invariant says that a saga past T1 holds its order: the order stays
kCompleted or kClosed and lacks quantity (`HeldInv`), by one saga (`OneHolder`),
and what the ERP and the WMS have is that saga's (`ReportedInv`). `ReadInv` and
`ToldInv` bound the quantities read and told, and hold with lost COMMITs too.

`IntegrationProofs` proves all properties of `integration` for any number of
requests and attempts and any threshold. `ReaderInv` says that a conversion that has
read the order and was not rejected is still converting, or orphaned, or the order is
marked for good: so one that reads the order unmarked finds every earlier one beside
it or orphaned; `CountInv` that in CLOSED the
breaker's count is the number of failures in a row, below the threshold.

`SessionProofs` proves all properties of `session` for any sessions, requests,
passwords and limit; the two about tokens for any lifetimes with `Covered`, which they
assume by name. `EndedInv` is that the age of an ended session and the life of its key
add up to `Lifetime` at least, unless the session is in `overlapped` or `unrotated`. `RotatedOnce` rests
on it: a second refresh that begins after the first has rotated finds the key
(`KidInv`), one that began before overlapped (`PairInv`), so whoever may still make a
successor is the first (`FirstInv`). `LogoutEndsLogin` speaks of sessions that did not
exist when the logout was answered, and needs `ChainInv`: of a login nothing raced for,
at most one session is alive (`OneAliveInv`), it is the one that is being refreshed
or logged out, never both (`AliveInv`, `LeavingInv`), and after a logout none is
(`LogoutInv`).

Of `LivePush` the same module proves that a dashboard never gets an older frame after
a newer one (`OnlyNewer`): of an instance's frames the one being sent is at most the
pending one, and that at most those in the reader's socket (`Ordered`), and what
a connection has is not newer than any of them (`NotNewer`), because it belongs to
one instance (`OneHome`). `LeaseRunsOut` is that a lease never lacks its expiry,
not even one whose holder died.

`DeviceMonitorProofs` proves `OneAlertPerOutage` and `FirstHandlerKept` for any
devices, instances, users and bounds. The first is an account that every step on the
way keeps, because an UPDATE hits a device only while its status is 1; the second
needs that an alert nobody handled names nobody (`OpenInv`).

Of `Edge` the same module proves both invariants, for any sensors, width of addresses,
longest read above zero and below that width, batch size and bounds. The frames are a
fold, treated as above: by induction over the sensors already merged every frame is
laid out, its sensors one behind the other from its start (`LaidFrame`,
`FrameJoined`), and frames hold their sensors. That a frame is split where it was laid
out follows (`Located`, `SplitTakes`). That the registers are those of this frame and
this round is `AwaitInv`: while an answer is awaited, whatever a repeated answer left
of the transaction before comes first on the connection, and what carries the awaited
number is about this frame; it needs `QuietInv`, that between two reads the connection
holds the last transaction's rest only, because numbers wrap around. For the order of
publication, what is queued, in the batch or published lies behind the poller
(`Past`): in an earlier round or frame, or below the register it is at (`ReadingInv`).
`Obeyed` is what holds of commands without fairness: once no stop or resume is queued,
the poller is as the last one said. The invariant is that the last one queued is what
is owed and the one being handled has been carried out (`CommandInv`), so a
redelivered command is never behind the one that decides.

The type invariants `TypeOK` of `WorkOrder`, `Outbox` and `DeviceMonitor` and
`SagaTypeOK` are proved and therefore left out of the runs; the other proof
modules state the types they need themselves. The assumptions are the ASSUMEs
of the modules, which TLC evaluates on every run, and `ConfirmedPublish` and `Covered`
where a theorem names them.

Only model-checked: all liveness (`Settled`, `EventuallyRelayed`, `EventuallySettled`,
`SilentGoesOffline`, `WaiterAnswered`, `SomebodyLeads`, `LatestIsSent`,
`LastCommandWins`), which is out of the prover's reach; the safety half of
`WaiterAnswered`, `SomebodyLeads` and `LastCommandWins` is proved
(`NobodyWaitsInVain`, `LeaseRunsOut`, `Obeyed`). Every invariant and every action
property of a passing run is stated by a theorem.

## 5. What the violation shows

`StopIsObeyed`: the payload that the stop relay writes for a device
(`mq/StopCollectionHandler.cc:84-88`) has no `action`, and the collector acts only on
one (`mes-iot/src/cmd/CmdConsumer.cc:93`), although `docs/CORE_PLAN.md:89` and
`CmdConsumer.hh:3` say that a stop command pauses the poller. The command is
acknowledged and polling goes on. The device command of `IotService` says `command`
where the collector reads `action`, with the same effect.

The passing runs state the other disagreements in their properties, where a
history or a premise excuses them, rather than in runs of their own:

- A rejected report leaves its quantity on the operation
  (`SummaryBackedByOps`), while `docs/MES_Architecture_Design.md:2085` gives the
  order's quantity as the sum over its operations. Operations that are full this
  way take no report, so such an order is never completed automatically.
- One scanner does not mean one delivery (`DuplicatesAccounted`):
  `mq/OutboxDispatcher.hh:6`. Consumers must deduplicate.
- The three ways of `StopCollection!history`: `mq/StopCollectionHandler.cc:42`.
- The compensation of T1 writes the status whatever it is by then
  (`models/WorkOrderStateMachine.hh:76` calls closed final), and `requireConfig`
  throws between the steps of the saga (`services/IntegrationService.hh:29`).
- A request that comes while Redis is down is dropped when its permissions load
  (`WaiterAnswered`), while `services/RbacService.cc:148` says that the fallback keeps
  the service available.
- A refresh that overlaps a logout leaves a live session (`LogoutEndsLogin`), while
  `docs/CORE_PLAN.md:267` makes both tokens useless after a logout and
  `services/AuthService.cc:235` says that the check keeps a logged-out session from
  being refreshed. `controllers/AuthController.cc:79` and `services/AuthService.cc:284`
  say that the key outlives the refresh token, which holds for the default lifetime
  only (`Covered`).
- Alerts of one outage may be lost or have several rows (`OneAlertPerOutage`), while
  `mq/DeviceMonitor.cc:25-26` says that they are free of duplicates: that is true of
  what is enqueued.
- An ERP order may become two work orders (`ConvertedOnce`): the status check of
  `services/IntegrationService.cc:250` keeps only later conversions of a marked order
  out.

## 6. Limits

- The transactions of `WorkOrder` are atomic: `update` locks the order and then its
  operations, `report` the other way round, and PostgreSQL breaks that deadlock by
  aborting one. Quantities have no width; the sum of a report may wrap in C++
  (`utils/ReportRules.hh:22`).
- `DataIngest` has one sensor. Its prefetch of 50 is below the batch size of 500, so
  in the code only the idle window flushes; in the run, with batches of 2, both do.
  Stale results can close channel after channel; `MaxConnects` ends that.
- `Access` and `Session` follow one user, `LivePush` one channel, `Edge` one device:
  users, channels and devices share nothing but pools and queues.
- Redis keeps its keys in `Session`: a blacklist key that is evicted or lost with an
  unpersisted Redis would revive a session.
- The outbox, queue and consumer of `DeviceMonitor` are counters: that every row is
  settled is shown in `Outbox`, and no fairness is assumed of them here.
- The captcha is left out. Its alphabet has 31 characters and is indexed with 0..31
  (`utils/Captcha.hh:17-23`), so a code may hold a NUL nobody can type. A
  login reads it and deletes it in two commands (`services/AuthService.cc:158-166`).
- Departments are checked for children and users in one statement and deleted in
  another, whose error callback answers nobody (`services/SystemService.cc:716-738`).
- The collector's health probe accepts in a blocking call that its end joins on.

## 7. Not modelled

CRUD of single rows (production master data, quality standards, departments,
configuration), read-only reports (OEE, statistics, traceability), the
HTTP controllers, rate limits, the audit buffer (lost at a crash) and metrics keep
no state over several steps. Modbus framing, HTTP and JSON are conversions that no
property is about. The clients are presentation. Schema and deployment are
configuration; vendored bcrypt is third-party code.

## 8. Plan

1. `WorkOrderTx`: the statements of report, update and transit with row locks:
   lock order, and the refinement of `WorkOrder`.
2. Pure functions against references: OEE, report totals in 32 bits, merging of
   data scopes.
3. Proofs: the refinement of `WorkOrder` by `WorkOrderTx`.
