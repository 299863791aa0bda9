# A verification project for wms-core-backend

TLA+ models of the warehouse back end, the instances TLC checks them on, and
theorems the TLA+ proof system checks for every instance. The models are
translated from the code under `app/`; `PROJECT.json` names, for every
definition, the lines it stands for.

## 1. The system

A FastAPI process serves operators and admins, Celery workers run the long
tasks, PostgreSQL holds the state and Redis carries the queue and the events.
Everything that must be consistent is kept consistent by PostgreSQL
transactions at READ COMMITTED, row locks (`SELECT ... FOR UPDATE`) and
transaction-scoped advisory locks; there is no lock of the application's own.

| Component | State it keeps | Operations | What is hard | What makes it correct |
|---|---|---|---|---|
| Order fulfilment (`outbound.py`, `orders.py`) | orders, their items and allocations, `inventory.quantity / reserved_quantity`, status of used copies, `books.virtual_stock` | create, picking instruction, scan, confirm shipment | several handlers on the same rows; lock order; SKIP LOCKED; a pick that runs out of stock half way | no copy promised twice, all of an order or nothing, only scanned copies ship, stock is conserved |
| Stock arrival (`inbound.py`, `inventory_admission_service.py`, `location_assignment_service.py`) | inventory rows, shelves, `inbound_items` | receive by Idempotency-Key, admit used copy, choose a shelf | repeated requests, two arrivals creating one row, deadlock with picks | each arrival counts once; shelves hold what they can |
| Inspection pipeline (`worker.py`, `return_job_service.py`, `inspections.py`) | `return_jobs` with status, task id and `agent_logs` | create, recheck, `process_inspection`, `process_wms_action`, undo of a refused message | redelivered messages, retries, time limits, lost processes between a commit and a send, stale reads | one final status, reached once and backed by an admission; one active job per copy |
| Human review (`hitl_service.py`) | reviewer, backup of the decision in `agent_logs` | claim, decide, ask for new images, restore, clear | the message of the decision overtakes or fails behind the commit | no decision is lost or applied twice |
| WMS admission (`inspection_inventory.py`, `used_inventory_service.py`, `wms_client.py`) | `inventory_used_items`, `rejected_items`, grade of the inbound item | admit, confirm an earlier admission, refuse | a caller that has timed out still has a request at work | a copy is admitted once, with the grade of the decision |
| Restock generation (`restock_service.py`, tasks in `worker.py`) | proposals, `restock_generation` in `agent_logs` | generate for a rejection, generate for the safety stock | a call of a language model between two commits, redelivery | one proposal per rejection, one pending safety stock proposal per book |
| Restock approval (`restock_proposal_service.py`) | proposal status, AUTO_PO orders | approve (receives the stock at once), reject | two approvals of one book | an approval orders what is still needed, once |
| Safety stock batch (`auto_po_batch.py`) | none | detect, send one task per book | sending fails half way, reruns | reruns make no duplicates |
| Sessions and accounts (`auth_service.py`, `auth.py`, `admin_users.py`, `employee_bulk_excel_service.py`) | `auth_version`, refresh token, role and status, employee numbers | login, refresh, logout, change password, create employees singly or from a sheet, change role or status | two logins, two refreshes, two masters demoting each other, a number drawn twice | a token is exchanged once, access follows the login, uploads do not collide |
| Agent graph (`ai/supervisor.py`, `ai/agents.py`, `ai/rag/critic_cases.py`, `langgraph_wrapper.py`) | the checkpoint of one inspection, the collection of precedents | route, detect, read, appraise, criticise, report, resume after a decision, retry | revision loops, results of an earlier reading or run left on the checkpoint | nothing unclear is decided without a human, decisions are kept, the graph ends |
| Event streams and alerts (`stream.py`, `notification_service.py`, `worker.py`) | Redis channels, which keep nothing, and a table of notifications | publish, subscribe, relay, alert | the end of a job between a read and a subscription, a worker lost before it publishes | whoever follows a job learns of its end, whoever must decide is alerted |
| Policies (`domain/`, `pricing_agent.py`) | none | defects and score to grade, score to price | borders | grades, prices and zones agree |
| Used stock intake, DLQ, dashboards, labels, certificates, reports, book registration, demo data | rows of their own, or read only | | | not modelled, see section 11 |

How they meet: an operator's request creates a return job and puts a message on
the queue; `process_inspection` runs the agents and either asks for an admin or
sends `process_wms_action`, which calls the internal WMS API over HTTP; that
admits the copy to the stock (from where picking takes it) or to the rejected
items, and a rejection sends a restock task, whose proposal an admin approves
or rejects; an approval receives new stock for picking. Each of these steps
publishes an event that browsers follow, and every request is let in by the
session of its user. `inventory`, `inventory_used_items`, `books`,
`return_jobs` and `users` are the shared tables.

## 2. Modules

| Module | What it is |
|---|---|
| `Outbound` | fulfilment, arrivals and admission over the shared stock tables, at the grain of one lock request |
| `Fulfilment` | the abstract warehouse: place, claim all or nothing, ship, arrive |
| `OutboundRefinement` | the mapping from `Outbound` to `Fulfilment` |
| `OutboundInvariant` | the inductive invariants of `Outbound`: of the locks and the stock, and of the ledger |
| `OutboundProofs` | the proof of the first, and the theorems that follow |
| `LedgerProofs` | the proof of the second, conservation of the stock, and the refinement of `Fulfilment` |
| `Sums` | sums over finite sets: the induction and the lemmas that the proofs about stock and scores rest on |
| `InspectionPipeline` | an inspection from the request to the admission: API handlers, Celery tasks, admins and the WMS API, with faults |
| `InspectionInvariant`, `InspectionProofs` | the inductive invariants of the admission and of the place of a job, their proofs, and the theorems that follow |
| `Restock` | proposals: the two Celery tasks, the batch, approval and rejection, while stock arrives and is sold |
| `RestockInvariant`, `RestockProofs` | the inductive invariant of the proposals, its proof, and the theorems that follow |
| `Streams` | composed with `InspectionPipeline` (it extends it): the events of a job, the browsers that follow it, the alert to the administrators |
| `StreamsInvariant`, `StreamsProofs` | the inductive invariant of the events, its proof, and the theorems that follow |
| `Ubci`, `Detection` | pure operators: penalty, score and grade of a list of defects; from the boxes of the detection models to a list of defects |
| `AgentGraph` | the agents and their supervisor, the checkpoint, human decisions, precedents and retries, over `Ubci` and `Detection` |
| `Admission` | operators over a state of `AgentGraph`: the worker's request, the grade of the WMS, the first price |
| `AgentInvariant`, `AgentProofs` | the inductive invariant of the agent graph, the bound on its supersteps, their proofs, and the theorems that follow, those about `Admission` among them |
| `Sessions` | login, refresh, logout, password change, changes of role and state, as interleaved transactions |
| `EmployeeNumbers` | the creation of employees, singly and from a sheet |
| `Accounts` | both together: the accounts API |
| `LoginSession` | the abstract session: one per user, and never back once closed |
| `SessionsInvariant`, `NumbersInvariant`, `AccountsProofs` | the inductive invariants of the sessions and of the employee numbers, their proofs, the theorems that follow and the refinement of `LoginSession` |
| `MCOutbound`, `MCInspection`, `MCRestock`, `MCStreams`, `MCAgents`, `MCAccounts` | the instances for TLC |

Definitions whose name starts with `Slip` are not part of a model. Each is the
definition after it with one plausible mistake, and shows that the property
named in its comment would notice that mistake.

## 3. Outbound

**State.** One variable per column that matters (`status`, `quantity`,
`reserved`, `alloc`, `picked`, `lpn`, `lpnAlloc`, `virtualStock`, ...) and
`tx`, the running transactions: which handler a session runs, the locks it
holds, the locks it has still to ask for (`plan`), its image of the rows it has
locked (the ORM objects) and what it has set aside.

**Grain.** A step is one lock request: the lock is granted when no other
session holds a conflicting one, and the row is read at that moment. What a
handler writes becomes visible with its commit, which is one step. Rows that a
query finds are those that qualify when the statement starts and are locked in
the order of the query; a row may have changed by the time its lock is granted,
and the handler then sees the new values, as under READ COMMITTED.

**Locks.** Row locks on orders, inventory rows and used copies, the advisory
locks of an ISBN and a rack, and three modes on books: `FOR UPDATE`, the lock of
`UPDATE books` and the shared lock of a foreign key check. `Conflict` is
PostgreSQL's table for these. A wait cycle is broken by rolling one member back
(`DeadlockVictim`), a crash at any point rolls back (`Crash`), and every
handler's `except` branch rolls back (`Refuse`).

**Correspondence.** `BeginCreate`/`CommitCreate` are `create_order`;
`BeginPick`, `TakeLpn`, `SelectRows`, `ReserveRows`, `CommitPick` are
`create_picking_instruction`, one round per order item; `BeginScan`,
`CommitScan`, `ScanLpn` are `scan_picking_item`; `BeginShip`, `CommitShip` are
`confirm_shipment`; `BeginReceive` is `create_new_stock_inbound`, `BeginApprove`
the approval of a proposal, and both go on with `SelectShelves` and
`CommitReceive`; `AdmitUsed` and `PriceLpn` are the two transactions of the
admission of a used copy.

**Abstractions.** Rows and copies are numbered in the order in which the code
sorts them. The shelf of an arrival is any existing row of the book or the next
new one. The quantity of an approval is a constant. Prices are present or
absent. Users, tenants, texts and waybills are left out.

### Runs

*OutboundStock* (104,792 states): two sessions, two orders of which one asks
for a used copy and one copy of new stock, and the other for more than there
is, over three rows of two books, two used copies, one arrival and one
approval; a row without a price. Two sessions are enough for every conflict of
two handlers, and the shortage makes picks fail half way until something
arrives.

- `StockWithinBounds`: concurrent picks and shipments never promise a copy
  twice.
- `OneOrderPerLpn`: a used copy has one order, in spite of SKIP LOCKED.
- `AllOrNothing`: an order has all of its items reserved or none.
- `StockConserved`: nothing is lost or made, each arrival counts once,
  `reserved_quantity` is the sum of the allocations (`ReservedIsAllocated`: no
  update of it is lost), and `virtual_stock` agrees with the shelves, so its
  floor at zero never acts.
- `ShippedWasScanned`: what ships was scanned out of its shelf, all of it.
- `StockInvariant`: the inductive invariant of the proofs, with the ledger.
- `KeepsPromise`: the refinement of `Fulfilment`. Whatever the interleaving,
  each commit is one atomic step of the abstract warehouse and everything else
  is invisible.

`CyclesNeedABookLock` says more of the same instance, where it holds: creating
and picking orders and receiving deliveries never deadlock among themselves;
every wait cycle has a shipment, a scan of new stock or an approval in it,
which ask for a whole book. No run lists it, because it speaks of deadlocks
that PostgreSQL breaks anyway.

*OutboundLive* (19,144 states): `TransactionsEnd`, every request that begins
ends and leaves no lock behind. The fairness is strong, per session, on the
steps of a request that has begun: PostgreSQL's lock queues are first come
first served, so that a lock that keeps becoming free is granted, and a
deadlock is broken after `deadlock_timeout`. Beginning a request and crashing
are not fair.

Deadlock is not checked (`CHECK_DEADLOCK FALSE`) because the bounded system
really stops: all orders are shipped and all deliveries received.

## 4. InspectionPipeline

**State.** `job` (the `return_jobs` rows with the entries of `agent_logs` that
control the flow), `copy` (the grade of the inbound item), `admitted` (the rows
of `inventory_used_items` and `rejected_items`), the Celery `queue`, and where
each `worker`, `server` (a WMS request) and `client` (another API request) is.

**Grain.** A step is one transaction, one message put on or taken off the
queue, or the sending or answering of one HTTP request. What a request keeps in
memory between two of its transactions (the logs an ORM session has loaded, the
verdict a task sends) is in `client`, `worker` and `server`.

**Celery.** `task_acks_late`: a message stays on the queue until its task ends
and is delivered again when the worker is lost. The soft time limit and database
errors are exceptions (`Interrupt`) that the handlers meet; the hard time limit
kills the process and the message is acknowledged (`KillTask`). A retry is a new message with the
same task id. Messages are taken in any order.

**Faults.** `FaultLimit` bounds how often each kind happens, `MaxFaults` all of
them. A lost worker or API process, a time limit, a message the broker does not
accept and a WMS request without an answer may each come at any step where they
can happen in the code.

**Abstractions.** The agents return any verdict, ask for an admin or fail. A
verdict is a decision with the grade it leads to at the WMS; `UNGRADED` is an
approval the WMS turns down. The lock on a job that a WMS request with an
admin's decision holds is the predicate `RowFree`. Other lock waits inside one transaction
are left out: each handler locks one job, except that request.

### Runs

*InspectionReliable* (65,658 states): two jobs of one copy, two workers, two
WMS requests, two clients, a retry, and a WMS that once answers too late.
`OneActiveJob`, `FinalMatchesDecision`, `FailedLeavesNoStock`,
`FinalStatusStays`.

*InspectionFaults* (1,152,127 states): any two faults of the five kinds.
`AdmittedOnce`, `FinalMeansAdmitted` and the inductive invariant
`AdmissionInvariant` hold through all of them.
Retries are left out of this run (`MaxRetries` 0): a redelivery after a crash
has the same effect as a retry, and the other two runs have one.

*InspectionLive* (61,278 states): `InspectionsSettle`, every inspection comes
to a verdict, fails or waits for a person; `RejectionsAreRestocked`, every
rejection asks for a restock proposal, though a worker is lost. Fairness is
weak, per worker, WMS request and client, on the steps that go on with what was
begun: processes run. Faults, new requests and the decisions of admins are not
fair. `MaxTasks` bounds the task ids drawn and with them how often an admin and
an operator can send a job round.

The bounded system stops when every copy is decided, so deadlock is not
checked here either.

### Where the code does something else

- *InspectionRedelivered*: `save_inspection_hitl_required` sets HITL_REQUIRED
  whatever the status is. A worker is lost after it has sent the WMS task; the
  redelivered inspection starts while the job is PROCESSING; the WMS task makes
  it APPROVED; the second run of the agents asks for an admin. The job is back
  in review although its copy is in the stock. `InspectionReliable` shows that
  a final status stays when no worker is lost.
- Not run: `clear_hitl_dispatch_backup` (`hitl_service.py:495`) writes
  `agent_logs` back as the session loaded it before the message was sent. If the
  WMS task has finished by then, its `wms_result` is lost. No fault is needed.
  `WmsResultKept` states what does not hold.
- Not run: a refused recheck message makes the job FAILED for a moment
  (`inspections.py:459`), in which a second job of the same copy can be created;
  the recheck route then restores the first. Both are active, and
  `OneActiveJob` holds only where no message is refused. (The copy is still
  admitted once: `AdmittedOnce`.)

## 5. Restock

**State.** `log` (the entry `restock_generation` of a job's `agent_logs`),
`proposals` (rows of `order_proposals` with the AUTO_PO they led to), `alerts`
(notifications per proposal), the stock of each book as
`get_current_available_stock` counts it with what is reserved, sold and
delivered, the `queue`, and where each `worker` and each `admin` request is.

**Grain.** A step is the part of a transaction between two points where
somebody else can get in: a lock that may have to be waited for, a call of the
agent, a commit. A rejection's task commits GENERATING, calls the agent without
a lock, commits the answer, and commits the proposal. The safety stock task
calls the agent while it holds the book.

**Locks** are the states of their holders: `HoldsBook` and `DecidesOn` for the
book, `RowFree` for the proposal. Arrivals and shipments write the book and
wait for it (`BookFree`), and so does the insert of a proposal, through its
foreign key; reserving a copy for an order touches inventory rows only. The
safety stock task locks the book and then the pending proposals, the approval
the proposal and then the book; `FailApproval` and `FailSafetyTask` are the two
ways PostgreSQL can break that circle.

**Correspondence.** `Dispatch` is `dispatch_restock_proposal_task_safely`,
`RunBatch` the batch; `FindProposal` to `SaveDuplicate` are the branches of
`create_restock_proposal_for_rejected_job` in their order, `LockBook` to
`SafetyCallFails` those of `create_restock_proposal_for_safety_stock`, `Notify`
and `Ack` the ends of the two tasks; `BeginApproval`, `LockForApproval`,
`Approve` and `NoShelf` are the approval, `Reject` the rejection.

**Faults.** Worker loss, the hard time limit, an error or the soft time limit
at any place, and a lost API process, `MaxFaults` of them. A failing call of
the agent is not a fault: it may happen each time. The soft time limit inside
the call is such a failure, because the code's `except` meets it.

**Abstractions.** One tenant. A rejected job stays rejected. Sales do not leave
the seven-day window, and a sale is one copy. New and used copies are not told
apart. An approval that finds no shelf is a choice (`NoShelf`); the locks on
shelves are in `Outbound`. Two tasks that insert the proposal of one rejection
at the same moment, which the unique index and the foreign key make wait for
each other, end as one after the other. That other requests write `agent_logs`
is left to `InspectionPipeline` (section 4 has the lost result).

### Runs

*RestockRejections* (18,841 states): one rejection dispatched twice, two
workers, one retry, one fault. `OneProposalPerRejection`, `AnsweredOnce`
and `RejectionsSettle`: the tasks of a rejection come to rest with a proposal, with the last failure written down or,
after a fault, with what the lost task left. The third case is real: a task
lost while the log says GENERATING leaves a rejection without a proposal, since
every later task takes it for one at work. Two dispatches are what a redelivered
WMS task causes.

*RestockReviews* (100,228 states): two runs of the batch for one book, two
workers, two administrators, a delivery, and sales. `OnePendingSafety`,
`StockAccounted`, `NoOverOrder` (no approval lifts the stock above stock plus
recommendation of its proposal),
`SafetyStillShort` (no safety stock proposal is inserted after its book has
gained stock) and `ReviewsEnd`: approvals and safety stock tasks lock in
opposite orders and still come to an end. With no rejections in this run, and one
safety stock proposal of a book waiting at most, two proposals of one book never
stand side by side: what competes with an approval is another decision on the
same proposal, the second batch, sales and the delivery. That several approvals
of one book do not order twice is proved for all of them (`OrdersAreNeeded`,
`StockIsAccounted`, `ShortageIsCurrent`); faults are left to the other run.

Fairness, in both runs, is strong on the steps of a task and of an approval that
has begun, since a lock is granted to those who queue for it, and weak on
breaking a deadlock. Dispatches, reviews, sales, deliveries and faults are not
fair.

Besides the inductive invariant `TaskInvariant`, three more properties are
proved and left out of the runs: the proposal of a rejection has the quantity that was answered (`ProposalIsTheAnswer`), no
proposal is announced twice (`AlertedOnce`), decisions stay (`ReviewedOnce`).

Where the code does something else, and no run shows it: the proposal and its
notification are two commits (`worker.py:482`), and a task that is delivered
again or retried between them finds the proposal and returns, while a docstring
(`schemas/restock.py:91`) says that an order of one or more copies is published
to the notification centre. `OrderIsAnnounced` states what does not hold.

Worth knowing, and proved: `pending_auto_po_quantity` is always zero
(`NothingIsEverOnItsWay`), because an approval receives what it orders in its
own transaction; what keeps two approvals from ordering twice is the stock they
compare, under the lock on the book. That lock is held through the safety stock
task's call of the language model, so that arrivals and shipments of a book wait
for it.

The bounded system stops, so deadlock is not checked.

## 6. Streams

**What it adds.** `Streams` extends `InspectionPipeline` with what the outside
sees. Each of its steps is a step of the pipeline and the events that step
leaves to be published. `outbox` has the events that are committed and not yet
published, by whom and about which job; `viewer` the browsers and their streams;
`alerted` the jobs the administrators have an alert about. Two history variables
record what was lost for good. `missed` has the jobs of which an event or an
alert was lost because Redis did not take it, because the hard time limit killed
the task (its message is acknowledged, so nobody repeats it), because a request
of the API that undoes a refused message publishes nothing, or because a WMS
task that was delivered again meets an exception before it has read the job:
`handle_inspection_failure` finds the job approved or rejected and leaves the
event out (`worker.py:363-370`, `WorkerInterrupted`). `unheard` has the jobs
that a worker has failed and, lost before it published that, told nobody of.

**What a redelivered task tells again.** A final status: the WMS task finds it
and publishes it (`FinalEvents`). Not a failure: `save_inspection_failed` and
`save_wms_processing_failed` return `None` for a job that is FAILED already
(`return_job_service.py:486-493`, `612-618`), and `handle_inspection_failure`
then returns without an event (`worker.py:360-361`; the entry in the dead letter
queue is left out with it). So only the step that itself makes a job FAILED
publishes (`FailureEvents`), and a worker lost between that commit and its event
leaves the browsers that follow the job without its end until they connect
again.

**Grain.** Publishing is a step of its own after the commit, and a worker goes
on only when it has published. A lost worker publishes nothing more; its message
is delivered again, whatever that is good for. Redis keeps nothing: `Publish`
reaches the browsers subscribed at that moment. On the other side, `Connect`
redeems a ticket, `Register` is Redis getting the SUBSCRIBE, `ReadStatus` the
status sent once at the start, `Relay` the event that ends the stream, `Drop` a
lost connection.

**Abstractions.** Of the events a browser has received only the one that ends
its stream is kept. Heartbeats, expiry of tickets and the checks of the owner
are left out. A ticket is called "일회성" (one-time) in `inspections.py:721`,
but it is read and not consumed, so that `Connect` may use it again.

### Run

*Streams* (278,928 states): one job, one worker, one browser that loses its
connection once, one fault (a lost worker, a refused message or publication, or
the hard time limit), one retry.

- `EndIsOnItsWay`: subscribing before reading the status leaves no gap. A stream
  of a job that has ended has the end before it, or somebody still has to publish
  it: for a failure the worker that owes the event, for a final status such a
  worker or a WMS task on the queue.
- `ViewersSeeTheEnd`: and so it ends.
- `AdminsAreAlerted`: no job waits for an administrator unannounced.

The exceptions are part of the statements: an event in `missed`, a failure that
was lost with its worker (`FailedUnheard`), and a stream whose SUBSCRIBE reached
Redis after its read (`late`), for the code waits for no confirmation of the
subscription. All three are silent until the browser connects again, and the
bounds reach each of them. Fairness is weak on the steps of workers, WMS
requests, API requests, streams and on publishing; connecting, losing a
connection and faults are not fair. Deadlock is not checked, as in the pipeline.

## 7. AgentGraph

**State.** `st` is the checkpoint (`WMSInspectionState`), reduced to the keys
that a route, a guard or the report reads; `node` the node that runs next or how
the run ended; `book` what is inspected; `cases` the collection of precedents;
`resuming` the human decision whose `resume_hitl` has not returned; `attempt`,
`resumes` and `steps` count runs of the worker, decisions and supersteps of the
graph library; `broke` tells that a detector or a model failed in this run.

**Grain.** A step is a superstep: the supervisor's route or one agent, between
which the checkpoint is saved. Agents return to the supervisor. `human_node` is
interrupted before it runs, which ends the run.

**Correspondence.** `Route` is `route_from_supervisor` with its order of
precedence; `DetectBook`, `Inspect`, `Appraise`, `Criticise`, `Refund`,
`Report`, `GiveUp` are the nodes; `Resume` and `Return` the two ends of
`resume_hitl`; `Retry` is a Celery retry of the task, which has the same thread
id: in the same process it starts on the checkpoint that is there
(`Restarted`: the initial state names only some keys), in another on an empty
one. `Detection` has the gate that keeps boxes on the book, the clusters of the
ensemble, the fused candidates and the removal of duplicates; `Ubci` has the
penalty matrix, groups, score and grade; `PrecedentCode` the conditions under
which a precedent may overrule the critic.

**Admission.** `Request` is `execute_wms_action` with the score it gives a clean
book, `AutomaticRequest` and `HumanRequest` what the worker and the review put
into it, `Resolved` the grade of the WMS, `FinalPrice` and `DiscountRate` the
price, `Priced` the checks under which it is stored. They are operators: the
transactions around them are those of `InspectionPipeline` and `Outbound`.

**Abstractions.** What a model sees or answers is any member of a set. Photos
have a grid of points, areas whole percents, scores half points (the penalties
differ by no less). Texts, evidence, embeddings and prompts are left out; the
search for precedents returns those of the tenant. Inspections follow one
another, because they share only the precedents.

### Runs

*AgentGraph* (907,411 states): photos of ten by ten points; three scenes (clean,
a cover torn where two models see it with a box beside the book, a stain), six
readings of the inner page (nothing, writing, a stamp over the text and a
cracked spine, water, a barcode with a warped page, three stains of which one
covers the others), four verdicts on each
defect and four impressions of the whole, so that every branch of the critic
and of the policy is taken; two inspections, the second of which may find the
first as a precedent, two attempts, two decisions, and the limit of 25
supersteps that LangGraph has by default.

- `AutomaticResultsAreVerified`: a result without a human rests on the defects
  that are on the state at the end. Score and grade are those the rules give for
  them, and what the worker approves is neither fatal nor rejected by its grade.
- `UnclearBooksReachAHuman`: a bad photo, a suspected omission, an unsure defect
  or a low confidence is never decided without a human, whatever was on the
  checkpoint before.
- `DecisionsAreKept`: the report that ends a decision has the grade of that
  decision.
- `RunsWithinLimit`: no run needs more supersteps than the library allows. Here
  deadlock is checked, with `Rest` as the only step of a run that has ended: a
  run can neither go on for ever nor get stuck in an agent that refuses its
  input, so that termination needs no fairness.
- `AutomaticApprovalsAreSold`: the agents grade by their own thresholds, the
  worker approves from another, the WMS has a third set with its own list of
  fatal defects and pricing a fourth. Whatever the worker approves without a
  human is admitted under the grade of the report and gets a price that can be
  stored, in each of the ten categories and for the list prices `BasePrices`,
  which lie at the borders of rounding (100, 149, 192, 200, 227) and where usual
  books are.
- `NormalApprovalsAreSound`: what an administrator approves as it is comes on
  sale only with a score that the rules give for its defects, none of which is
  fatal or without a rule. Anything else the WMS refuses; nothing approved is
  put away with the rejected books.

The readings give approvals in the grades S, A and B, a copy of grade B that the
worker rejects (a score of 67.5), and human reviews with and without a score.

*AgentsRetry* finds `RetriesStartOver` violated. `langgraph_wrapper.py:44-51`
resets some keys of the checkpoint and leaves `vision_status`, so that a retry
in the same process finds FAILED and gives up without a look at the photos. The
supervisor (`supervisor.py:259-260`) hands these failures to the worker to be
tried again. In a first run there is always a failure behind it
(`FailuresHaveACause`, part of the invariant).

### Where code and documents differ

- `supervisor.py:351-360` sends a result after a reshoot back to the
  administrator if a reason code was kept. `policy_agent` has cleared that code
  by then, so that the branch is never taken and a report after RE_CHECK may be
  automatic. `AutomaticResultsAreVerified` covers it.
- The wrapper approves from a score of 70 (`ApprovalScoreThreshold`), while
  grade B, sellable from 65 by
  `docs/ai_knowledge_base/UBCI_Specification_v2.0.0.0.md:67-70`, begins below
  it. The module has what the code does.
- `deduplicate_confirmed_defects` is a single pass: a later defect that replaces
  one of two that it covers leaves the other. The third stain of the inner page
  is there for that case; the result is verified all the same, on the defects
  that are left.
- A list price from 193 to 199 won, with the best score in a category that keeps
  most, rounds to 200, which is more than itself, and
  `calculate_discount_rate` refuses it. `PricesAssumption` leaves these prices
  out.
- After a review for which there is no score (a bad photo, for example),
  APPROVE_NORMAL sends neither score nor grade, because no result has the
  `final_grade` that `hitl_service.py:193-196` takes from it. The WMS refuses the
  request and the job ends as FAILED.
- APPROVE_DOWNGRADE without a score, or with one below 65, is admitted under its
  target grade, but its pricing always fails
  (`pricing_context_service.py`, `PricingRecommendationRequest`): the copy stays
  without a price, and no order is ever given it.
- `resume_hitl` is called by tests only (`tests/ai/test_hitl_certificate.py`); the
  API of the reviews writes its decision into the job and sends the WMS task. The
  module has both: `Resume` for the graph and `HumanRequest` for the request.
- A fatal defect beside one without a rule is scored by the policy agent and
  refused by the critic, twice, and reaches a human that way.

## 8. Accounts

**State.** `account` (the row of each user), `request` (what each handler works
on, with the row it has read), `cookies` and `access` (the refresh and access
tokens handed to browsers), `lapsed` (refresh tokens past their expiry);
`employees` and `job` the same for the creation of accounts. Two history
variables: `raced` has the users whose `auth_version` was written over one the
request had not read, `blind` is true once a master was removed on a count that
no longer held.

**Grain.** A request is a read and a commit. Login, password change and
administration read the user's row without a lock; the mapper writes the columns
whose value differs from the one it read (`Flush`), so that two requests may
each keep a part of the row. Refresh and logout find the row by the hash of the
token with `FOR UPDATE` and keep it until they commit (`RowFree`). An upload
takes an advisory lock per month of entry, lowest first, and reads the highest
number under it; a single creation reads it without. The unique indexes turn a
repeated number or email into a rollback of the whole transaction.

**Correspondence.** `BeginX` and `CommitX` are the halves of the routes of
`auth.py`; `Authorise`, `CheckTarget`, `CommitChange` are `require_master`, the
check for the last master and `save_user`; `BeginSingle`/`CommitSingle` are
`create_employee`; `BeginUpload`, `LockMonth`, `CommitUpload` are
`create_employees_bulk`, with `Parses` for the refusals of the sheet.

**Abstractions.** A token is its number, the login it stems from, the token it
replaced and the password of that login. Hashes and signatures are left out, and
so are access tokens that expire: they stop being accepted, which a browser that
never uses them shows as well. An email is a model value; that an upload puts
emails in lower case and a single creation does not is below this grain.

### Run

*Accounts* (559,882 states): two handlers, two masters who may remove each
other or a master with a new colleague, four requests, two months with room for
three numbers, a sheet that spans both months with a blank line, one with an
email that may be known, one that is refused.

- `ExchangedOnce`: a refresh token presented twice at the same time is exchanged
  once.
- `SessionsFollowLogins`: an access token that is accepted belongs to the login
  whose refresh session the user holds and to the password in force, unless the
  version of that user was written from a stale read (`raced`).
- `OnlyActiveRefreshes`: no token is exchanged for a user who is inactive when
  the exchange commits; the row lock makes a deactivation wait.
- `MastersRemain`: an active master is left unless `blind`.
- `UploadsDoNotCollide`: uploads never take numbers from each other; only a
  single creation can make one fail.
- `KeepsSessions`: the refinement of `LoginSession`.

What does not hold, and no run shows: `NewLoginEndsOthers`
(`auth_service.py:621`, "새 로그인은 기존 브라우저/기기의 Access Token과 Refresh
Token을 무효화한다"): two logins that read the same version both hand out access
tokens for the next one, and both are accepted. `LastMasterStays`
(`core/exceptions.py:117`, "마지막 활성 MASTER 계정은 강등하거나 비활성화할 수
없습니다"): two masters who remove each other at the same time both count two.
Both follow from reading without a lock; the two history variables say exactly
when.

The bounded system stops when its requests are used up, so deadlock is not
checked. That the locks cannot form a circle is plain: refresh and logout take
one row, and uploads take months in ascending order.

## 9. Proofs

Each invariant below was checked by TLC on the runs' instances before it was
proved. What a theorem assumes is either in an `ASSUME` of the module, which
every run evaluates, or in its statement. No bound of a run is assumed: the
theorems hold for any number of processes, rows, jobs, retries and faults.

### The warehouse: `OutboundProofs`, `LedgerProofs`

- `HandlersKeepInvariant`: `Spec => []HandlerInvariant`;
- `StockStaysWithinBounds`: `Spec => []StockWithinBounds`;
- `CopiesGoToOneOrder`: `Spec => []OneOrderPerLpn`;
- `OnlyScannedItemsShip`: `Spec => []ShippedWasScanned`;
- `OrdersAreAllOrNothing`: `Spec => []AllOrNothing`;
- `StockIsConserved`, `StockInvariantHolds`: `Spec => []StockConserved` and
  `Spec => []StockInvariant`, if `VirtualStockStartsRight`;
- `HandlersKeepPromise`: `Spec => KeepsPromise`, the refinement of `Fulfilment`.

They assume what `Outbound` says about its constants: rows, copies and books are
finite and typed; orders have at least one item, and an item that asks for a used
copy asks for one, as the code splits them; the grade of a used copy is not the
one that stands for new stock; `None` is neither an order nor a delivery.
`VirtualStockStartsRight` says that `virtual_stock` is the sum over the shelves
before the first request. It is a hypothesis, because the code keeps that column
equal and never sets it right: one that starts wrong stays wrong.

None of these properties is inductive. That `reserved <= quantity` survives a
commit rests on what the session has read: `HandlerInvariant` says that a
session's image of a row it holds is the row plus what the session has set aside
(`ImagesAgree`), that two sessions never hold conflicting locks
(`LocksExclude`), that the order a session works on is locked and in the status
it found (`OrderHeld`), that the copies it has chosen are locked and available
(`ChosenLpns`), that sessions lock only rows that exist (`LocksWhatExists`) and
that a delivery which has the rack will hold every row of its book before it
writes (`DeliveryCovers`; without it a second delivery could create a row
behind the first one's back). The proof has one lemma per action; the lemmas
`SessionStep` and `CommitStep` carry the part that is common to steps that
change only one session and to commits.

`Ledger` adds what an open transaction will contribute to the sums: a pick has
set aside exactly what the lines it is past ask for (`PickProgress`), a delivery
under way was not received and holds what makes it count once (`ArrivesOnce`),
and a shipment has an image of `virtual_stock` that is current for the books it
has locked (`ShipsFromImages`). At a commit these become `AllOrNothing`,
`ReservedIsAllocated` and `ShelvesBalance`. The refinement maps a commit to one
step of `Fulfilment` and everything else to none; what it needs is that a kind's
claimable copies and copies on hand change by what the ledger says.

### Sums

`Sums` unfolds the sum of the community modules, which is a fold over a set with
a `CHOOSE` in it, and shows that it does not depend on the order in which
elements are taken: `SumRemove`, `SumAdd`, `SumChange`, `SumPlus`, `SumUnion`,
`SumSupport`. The induction is over the subsets of a finite set
(`SubsetInduction`, from the well-foundedness of their strict inclusion), with a
set in the place of the predicate, so that it stays first order.

### Inspections: `InspectionProofs`

- `AdmissionsKeepInvariant`: `Spec => []AdmissionInvariant`;
- `CopiesAreAdmittedOnce`: `Spec => []AdmittedOnce`;
- `FinalJobsAreAdmitted`: `Spec => []FinalMeansAdmitted`;
- `InspectionTypes`: `Spec => []TypeOK`;
- `JobsAreInOnePlace`: `Spec => []PlaceInvariant`;
- `DecisionsAreFinal`: `Spec => [](NoWorkerLost => FinalMatchesDecision)`;
- `FinalJobsStay`: `Spec /\ []NoWorkerLost => FinalStatusStays`;
- `OneInspectionIsActive`: `Spec => [](NoWorkerLost /\ NoMessageRefused =>
  OneActiveJob)`;
- `FailuresLeaveNoStock`: `Spec => []FailedLeavesNoStock`, which says of itself
  that nothing but the broker has failed.

The first four hold through every fault. `AdmissionInvariant` adds that the
grade of an admitted copy is on its inbound item, so that a second admission is
refused; that a worker which is about to save the final status has an admission
with its verdict behind it; and that a WMS request whose caller still waits
carries that caller's job and verdict.

The others depend on what does not go wrong, and no less would do.
`NoWorkerLost` says that no worker was lost so far: a message that is delivered
twice can take a decided job back to review (*InspectionRedelivered*).
`NoMessageRefused` is needed because undoing a refused recheck puts a failed job
back to work (section 4). `NothingCutShort`, under which `FailedLeavesNoStock`
speaks, excludes the time limits, lost processes and WMS timeouts after which an
admission may outlive its task. The other four theorems allow time limits, lost
API processes and timeouts of the WMS, and all but `OneInspectionIsActive` allow
refused messages. They rest on
`PlacesAgree`: as long as no worker is lost a job is in one place, with a
request that has still to send its message, or with one message on the queue or
in a worker, or nowhere. From that follow the status of a job that is somewhere
(`MessagesAgree`, `RequestsAgree`) and that the verdict a task or an admin works
on is still the one in the job (`CallsStand`, `DecisionsStand`). TLC checked the
three conditional invariants on *InspectionReliable*, with any two faults but a
lost worker (89,353 states), and with a retry, two clients and one fault
(193,895 states).

### Events: `StreamsProofs`

- `PipelineIsKept`: `StreamSpec => []AdmissionInvariant`: the events change
  nothing about the inspections;
- `StreamsKeepInvariant`: `StreamSpec => []StreamInvariant`;
- `EndsAreOnTheirWay`: `StreamSpec => []EndIsOnItsWay`;
- `AdminsHearOfIt`: `StreamSpec => []AdminsAreAlerted`.

They hold through lost workers, refused messages and publications, and time
limits, for any number of browsers; what is in `missed`, and a failure in
`unheard`, is excepted by the statements. The core of `StreamInvariant` is
`EventsHeld`: who owes an alert or an end has just saved it, and its message is
still on the queue. A lost worker then leaves somebody who will do it again, but
for a failure. `AlertComes` and `EndComes` say who that is: for an alert an
inspection that has not yet saved its question (`WillAlert`), for a final status
a WMS task that has it before it or has still to look for it (`WillTell`,
`WillBeTold`), for a failure only the worker that saved it (`FailureTold`). A decision that cannot be
sent gives the job back to review, hence `Obliged`; that the inspection which
will then alert is not mistaken for the decision's own message is `IdsApart`.
`StreamInvariant` also has `MessagesHeld` and `KindsAgree` of the pipeline, which
survive a lost worker. TLC checked it on the instance of *Streams* with any two
faults, lost workers, refused messages, time limits and timeouts (4,510,871
states).

### Restock: `RestockProofs`

- `TasksAgree`: `Spec => []TaskInvariant`;
- `ProposedOnce`, `AnsweredAtMostOnce`, `AnswerIsProposed`,
  `AlertedAtMostOnce`, `SafetyProposedOnce`: the invariants of the same sense;
- `StockIsAccounted`: `Spec => []StockAccounted`;
- `DecisionsStay`, `OrdersAreNeeded`, `ShortageIsCurrent`: the action
  properties `ReviewedOnce`, `NoOverOrder`, `SafetyStillShort`;
- `NothingIsEverOnItsWay`.

They assume that every job has a book, that stock and bounds are natural numbers
and that `None` is neither a number nor a job. That a rejection is answered
once rests on `CallsAgree` and `OneCaller`: only one task is asking, the log
says so, and no answer has been given to it yet. That an approval orders no
more than needed rests on `StockNotGrown`: the stock it has read under the lock
is at least what there is when it commits, because arrivals and other approvals
wait for the book (`BooksExclude`) and reservations only lower it. That the
stock is what was there, arrived and was ordered needs that nothing is ordered
before it is approved (`BooksBalance`).

### Agents: `AgentProofs`

- `RunsKeepInvariant`: `Spec => []RunInvariant`;
- `AutomaticRunsAreVerified`, `UnclearRunsReachAHuman`, `DecisionsAreReported`:
  the invariants of *AgentGraph* of the same sense;
- `RunsStayWithinLimit`: `Spec /\ []KnownDefects => []RunsWithinLimit`;
- `AutomaticApprovalsSell`: `Spec => [](KnownDefects =>
  AutomaticApprovalsAreSold)`;
- `NormalApprovalsAreRight`: `Spec => [](KnownDefects =>
  NormalApprovalsAreSound)`.

They assume that confidences are integers, that the limit on supersteps is at
least 16 (LangGraph's default is 25) and, for prices, list prices from 100 won
outside 193 to 199. `KnownDefects` says that the defects are a finite list with
types of the enumeration, which is all that the schema of a defect admits. It is
a hypothesis because the list is the result of folds over what the models see,
whose type the prover cannot find; TLC checks the three properties without it.

That a result rests on the defects at the end needs to know what each value on
the checkpoint stands for: `ReadingOK` (what a completed reading implies, and
that `is_mint` says whether there are defects), `PolicyOK` (a policy output on
the state is the one the rules give for the defects as they are, and OK means
that the critic came to the same), `Routed` (an agent runs on the state its
route was chosen for), `DecisionOK` (a decision stays on the checkpoint until
its report is written) and `CauseOK`. What the fold over boxes computes does not
matter to any of them.

That a run ends is a potential: `Ahead` counts the supersteps a supervisor still
has before it at most, 16 for a run that starts and four for each revision that
is left, and `RunIsBounded` says that steps taken and steps ahead are never more
than 16. The score enters there: an output of the policy agent without a score
from 0 to 100 would be sent back to it for ever, and the score is a sum over
groups of defects (`Sums`). `ScoredOK`, that a score comes from a completed
reading and stands for all the defects there are unless a fatal one decides,
carries `NormalApprovalsAreRight`.

The proofs about approvals put the tables side by side: what is fatal to the WMS
is fatal to the agents, the grades have the same borders, the approval threshold
of the worker lies within the sellable scores, and the rounded price is at least
100 and at most the list price.

### Accounts: `AccountsProofs`

- `SessionsKeepInvariant`: `AccountsSpec => []SessionsInvariant`;
- `TokensAreExchangedOnce`, `AccessFollowsLogin`, `AMasterRemains`,
  `InactiveUsersGetNoToken`: the properties of *Accounts* of the same sense;
- `SessionsKeepPromise`: `AccountsSpec => KeepsSessions`, the refinement of
  `LoginSession`;
- `NumbersKeepInvariant`: `AccountsSpec => []NumbersInvariant`;
- `UploadsAreApart`: `AccountsSpec => []UploadsDoNotCollide`;
- `EmployeeNumbersAreRight`: no two employees share a number, and every number
  has the digits it is given.

They assume that the table starts with an active master and with nobody logged
in. The core is `LockHolderIsCurrent`: a refresh or logout under way has seen
the row as it is, and no other request holds it. With it, the token a user holds
is the parent of no other (`HeldWasHandedOut`), so that it is exchanged once;
`VersionsIdentifySessions` says that whoever knows the current version of a user
who is not `raced` knows the current session and password; `CountsLeaveOne` that
a request which counted the masters goes on only with two.

The numbers rest on `MonthsExclude` (a month is locked by one upload), on
`UploadsDoNotCollide` itself (what an upload has read is still the highest number
unless a single creation has moved it) and on `JobFits` (the numbers that were
computed are within the limit). `RowsAssumption` states of the sheets what
leaving out blank rows gives, a list of the rows that are not blank, because the
operator that leaves them out is recursive in the library; TLC evaluates it on
the sheets of the run.

### Only model-checked

- Everything under fairness, which is beyond the prover: `TransactionsEnd`,
  `InspectionsSettle`, `RejectionsAreRestocked`, `RejectionsSettle`,
  `ReviewsEnd`, `ViewersSeeTheEnd`.
- `CyclesNeedABookLock`, which no run lists.
- That the defects of every reading have known types (the three properties that
  are proved under `KnownDefects`), and what the folds of `Detection` compute.

Every other property of a run that passes has a theorem.

## 10. What comes next

1. `Locations`: the capacity of a shelf under concurrent arrivals; the price of
   a copy that is recalculated while it is reserved.
2. `UsedIntake`: the idempotent intake of returned copies and the numbering of
   copies.
3. The list of notifications with its read marks, and its stream.
4. An abstract specification of a proposal (appears once, is decided once) that
   `Restock` implements, and one of an inspection for `InspectionPipeline`.
5. Theorems: that the defects of `Detection` have known types, which would turn
   `KnownDefects` from a hypothesis into a lemma; the refinements of item 4.

## 11. Not modelled, and why

- The recalculation of prices: planned as above; `Outbound` keeps whether a copy
  has a price. Racks and barcodes: tables and formatting; `Outbound` lets a
  shelf be any.
- Used stock intake and numbering: planned as above. The copies are there when
  `InspectionPipeline` begins.
- The texts of the agents, prompts and vector search: their results are inputs
  of `AgentGraph`.
- Dashboards, listings and reports: they read. Labels, certificates and book
  registration: formatting and one external call each.
- The dead letter queue: it is appended to and nothing here reads it. The list
  of notifications: reading it changes nothing but its own marks.
- Demo and mock generators: they change stock without the locks of the handlers,
  so that no invariant of the handlers can hold while they run.
- Configuration, schemas and exception texts.

## 12. Running it

    tlc -config OutboundStock.cfg MCOutbound
    tlc -config InspectionFaults.cfg MCInspection
    tlc -config Streams.cfg MCStreams
    tlc -config RestockReviews.cfg MCRestock
    tlc -config AgentGraph.cfg MCAgents
    tlc -config Accounts.cfg MCAccounts
    tlapm Sums.tla
    tlapm OutboundProofs.tla
    tlapm LedgerProofs.tla
    tlapm InspectionProofs.tla
    tlapm StreamsProofs.tla
    tlapm RestockProofs.tla
    tlapm AgentProofs.tla
    tlapm AccountsProofs.tla

Each configuration names the module that `PROJECT.json` lists for it. A
configuration that expects a violation (`InspectionRedelivered`, `AgentsRetry`)
prints the trace.
