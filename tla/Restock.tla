------------------------------- MODULE Restock -------------------------------
(***************************************************************************)
(* Restock proposals: the Celery tasks process_restock_proposal and        *)
(* process_safety_stock_restock_proposal of app/worker.py, the generation  *)
(* log and the proposals of app/services/restock_service.py, the batch     *)
(* that looks for shortages, and the administrators who approve or reject  *)
(* proposals while stock arrives and is sold.                              *)
(*                                                                         *)
(* One action is the part of a transaction between two points where        *)
(* another process can get in: a lock that has to be waited for, a call of *)
(* the language model, a commit.  A message stays in the queue until the   *)
(* task that took it ends (task_acks_late).                                *)
(*                                                                         *)
(* Definitions whose name starts with Slip are not part of the model: each *)
(* is the definition after it with one plausible mistake in it.            *)
(***************************************************************************)
EXTENDS Integers, Sequences, FiniteSets, Functions

CONSTANTS
  Jobs,          \* inspections that ended REJECTED
  Books,
  BookOf,        \* Jobs -> Books
  Workers,       \* Celery worker processes of the restock queue
  Admins,        \* requests of administrators running at the same time
  InitialStock,  \* Books -> Nat: what is available at the start
  MinLevel,      \* the least safety stock level (10 in the code)
  MaxAnswer,     \* bound: the agent recommends at most this many copies
  MaxRetries,    \* of a Celery task
  MaxDispatches, \* bound: how often a rejection is dispatched
  MaxBatches,    \* bound: runs of the batch
  MaxArrivals,   \* bound: copies of a book that arrive
  MaxFaults,     \* bound: lost processes, time limits and errors
  None           \* no message, no request, no answer

ASSUME JobConstants == BookOf \in [Jobs -> Books]
ASSUME StockConstants == InitialStock \in [Books -> Nat] /\ MinLevel \in Nat
ASSUME Bounds ==
  /\ MaxAnswer \in Nat /\ MaxRetries \in Nat /\ MaxDispatches \in Nat
  /\ MaxBatches \in Nat /\ MaxArrivals \in Nat /\ MaxFaults \in Nat
ASSUME NoneIsNothing == None \notin Nat /\ None \notin Jobs

VARIABLES
  log,        \* return_jobs.agent_logs["restock_generation"]
  proposals,  \* order_proposals with their AUTO_PO orders, in order of insertion
  alerts,     \* notifications of category RESTOCK_ALERT, per proposal
  stock,      \* get_current_available_stock, per book
  reserved,   \* copies set aside for orders that have not left
  sales,      \* copies shipped in the last seven days
  arrived,    \* copies delivered by suppliers, per book
  queue,      \* messages of the restock queue that are not acknowledged
  dispatched, \* how often each rejection was dispatched
  batches,    \* how often the batch has run
  worker,
  admin,
  answered,   \* answers of the agent received for a rejection
  faults

shelf == <<stock, reserved, sales, arrived>>
vars == <<log, proposals, alerts, shelf, queue, dispatched, batches, worker,
          admin, answered, faults>>

-----------------------------------------------------------------------------
(* The stock a proposal is based on.                                       *)

Larger(m, n) == IF m >= n THEN m ELSE n

Proposals == DOMAIN proposals
InProgress == {"PENDING", "PICKING", "SHIPPED"}
OrderedIn(b, S) ==
  SumFunctionOnSet([i \in Proposals |-> proposals[i].ordered],
    {i \in Proposals : proposals[i].book = b /\ proposals[i].order \in S})

PendingAutoPo(b) == OrderedIn(b, InProgress)
Snapshot(b) == [stock |-> stock[b], pending |-> PendingAutoPo(b)]

(* GREATEST(10, weekly_sales * 2), for books that were sold at all.        *)
Level(b) == Larger(MinLevel, 2 * sales[b])
Short(b, level) == stock[b] + PendingAutoPo(b) < level

-----------------------------------------------------------------------------
(* Locks, as the states of those who hold them.  A worker keeps the book   *)
(* locked FOR UPDATE from its first query to the commit, an administrator  *)
(* keeps the proposal locked, and then the book too.                       *)

(* The book released before the agent is asked (SafetyStillShort).         *)
SlipHoldsBook(w, b) == worker[w].pc = "checking" /\ worker[w].msg.about = b
HoldsBook(w, b) == worker[w].pc \in {"checking", "asking"} /\ worker[w].msg.about = b
DecidesOn(a, b) == admin[a].pc = "decide" /\ proposals[admin[a].row].book = b

BookFree(b) ==
  /\ \A w \in Workers : ~HoldsBook(w, b)
  /\ \A a \in Admins : ~DecidesOn(a, b)

(* with_for_update on the proposal.                                        *)
RowFree(i) == \A a \in Admins : admin[a].row # i

-----------------------------------------------------------------------------
(* Messages and the Celery worker.                                         *)

Message(kind, about, level, copy) ==
  [kind |-> kind, about |-> about, level |-> level, copy |-> copy, retries |-> 0]

WorkerIdle == [pc |-> "idle", msg |-> None, request |-> None, answer |-> 0, row |-> 0]
AdminIdle == [pc |-> "idle", row |-> 0, seen |-> None]
NoLog == [status |-> "NONE", request |-> None, response |-> None]

At(w, kind, pc) == worker[w].pc = pc /\ worker[w].msg.kind = kind
About(w) == worker[w].msg.about
Goto(w, pc) == worker' = [worker EXCEPT ![w].pc = pc]

Fault == faults < MaxFaults /\ faults' = faults + 1

(* dispatch_restock_proposal_task_safely; more than once when the WMS task *)
(* that rejected the job is delivered again.                               *)
Dispatch(j) ==
  /\ dispatched[j] < MaxDispatches
  /\ dispatched' = [dispatched EXCEPT ![j] = @ + 1]
  /\ queue' = queue \cup {Message("rejected", j, 0, dispatched[j])}
  /\ UNCHANGED <<log, proposals, alerts, shelf, batches, worker, admin, answered, faults>>

(* run_auto_po_batch: a message per book that is short of its level, as    *)
(* far as the broker takes them; the first it refuses ends the batch.      *)
NeedingRestock == {b \in Books : sales[b] > 0 /\ Short(b, Level(b))}
RunBatch ==
  /\ batches < MaxBatches
  /\ batches' = batches + 1
  /\ \E sent \in SUBSET NeedingRestock :
       queue' = queue \cup {Message("safety", b, Level(b), batches) : b \in sent}
  /\ UNCHANGED <<log, proposals, alerts, shelf, dispatched, worker, admin, answered, faults>>

Take(w, m) ==
  /\ worker[w].pc = "idle"
  /\ \A v \in Workers : worker[v].msg # m
  /\ worker' = [worker EXCEPT ![w] = [WorkerIdle EXCEPT !.pc = "start", !.msg = m]]
  /\ UNCHANGED <<log, proposals, alerts, shelf, queue, dispatched, batches, admin,
                 answered, faults>>

(* The task ends and its message is acknowledged.                          *)
End(w) ==
  /\ queue' = queue \ {worker[w].msg}
  /\ worker' = [worker EXCEPT ![w] = WorkerIdle]

Ack(w) ==
  /\ worker[w].pc = "ack"
  /\ End(w)
  /\ UNCHANGED <<log, proposals, alerts, shelf, dispatched, batches, admin, answered, faults>>

(* self.retry: the same task again, until it has been retried enough.      *)
Again(m) == IF m.retries < MaxRetries THEN {[m EXCEPT !.retries = @ + 1]} ELSE {}
Retry(w) ==
  /\ queue' = (queue \ {worker[w].msg}) \cup Again(worker[w].msg)
  /\ worker' = [worker EXCEPT ![w] = WorkerIdle]

(* A lost worker: PostgreSQL rolls back, the broker delivers again.        *)
LoseWorker(w) ==
  /\ worker[w].pc # "idle"
  /\ Fault
  /\ worker' = [worker EXCEPT ![w] = WorkerIdle]
  /\ UNCHANGED <<log, proposals, alerts, shelf, queue, dispatched, batches, admin, answered>>

(* The hard time limit: the process is killed and the message acknowledged.*)
KillTask(w) ==
  /\ worker[w].pc \notin {"idle", "ack"}
  /\ Fault
  /\ End(w)
  /\ UNCHANGED <<log, proposals, alerts, shelf, dispatched, batches, admin, answered>>

(* An error of the database or the soft time limit, outside of the call.   *)
FailTask(w) ==
  /\ worker[w].pc \in {"start", "checking", "answered", "saving", "notify"}
  /\ Fault
  /\ Retry(w)
  /\ UNCHANGED <<log, proposals, alerts, shelf, dispatched, batches, admin, answered>>

-----------------------------------------------------------------------------
(* create_restock_proposal_for_rejected_job.                               *)

RowsOf(j) == {i \in Proposals : proposals[i].job = j}
Proposed(j) == RowsOf(j) # {}

(* A row of order_proposals.  Nothing to order needs no decision.          *)
NewProposal(j, b, request, answer) ==
  [job |-> j, book |-> b, stock |-> request.stock, pending |-> request.pending,
   recommended |-> answer, status |-> IF answer = 0 THEN "NOT_REQUIRED" ELSE "PENDING",
   ordered |-> 0, order |-> "NONE"]

(* The insert, and what follows its commit: an alert if there is something *)
(* to order.  Its foreign key waits for the lock on the book.              *)
Insert(w, j, b, request, answer) ==
  /\ proposals' = Append(proposals, NewProposal(j, b, request, answer))
  /\ alerts' = Append(alerts, 0)
  /\ worker' = [worker EXCEPT ![w] = [WorkerIdle EXCEPT !.msg = worker[w].msg,
                  !.pc = IF answer = 0 THEN "ack" ELSE "notify", !.row = Len(proposals) + 1]]

(* What the unique constraint on return_job_id admits, and its absence     *)
(* (OneProposalPerRejection).                                              *)
SlipUnique(j) == TRUE
Unique(j) == ~Proposed(j)

(* An earlier run made the proposal: nothing to do.                        *)
FoundProposal(w, i) == End(w)
FindProposal(w) ==
  /\ At(w, "rejected", "start")
  /\ \E i \in RowsOf(About(w)) : FoundProposal(w, i)
  /\ UNCHANGED <<log, proposals, alerts, shelf, dispatched, batches, admin, answered, faults>>

(* Somebody is asking the agent: this task ends without a proposal.  The   *)
(* mistake: not looking at the log (AnsweredOnce).                         *)
SlipGenerating(j) == FALSE
Generating(j) == log[j].status = "GENERATING"
FindGenerating(w) ==
  /\ At(w, "rejected", "start")
  /\ ~Proposed(About(w))
  /\ Generating(About(w))
  /\ End(w)
  /\ UNCHANGED <<log, proposals, alerts, shelf, dispatched, batches, admin, answered, faults>>

(* The answer of an earlier run is used with the request it was made for.  *)
SavedRequest(j) == log[j].request
ResumeSaved(w) ==
  LET j == About(w) IN
  /\ At(w, "rejected", "start")
  /\ ~Proposed(j)
  /\ log[j].response # None
  /\ BookFree(BookOf[j])
  /\ Insert(w, j, BookOf[j], SavedRequest(j), log[j].response)
  /\ log' = [log EXCEPT ![j].status = "COMPLETED"]
  /\ UNCHANGED <<shelf, queue, dispatched, batches, admin, answered, faults>>

(* GENERATING and the request are committed before the agent is called; a  *)
(* call that failed is repeated with the request it had.                   *)
BeginGeneration(w) ==
  LET j == About(w)
      request == IF log[j].status = "FAILED" THEN log[j].request ELSE Snapshot(BookOf[j])
  IN
  /\ At(w, "rejected", "start")
  /\ ~Proposed(j)
  /\ log[j].response = None /\ ~Generating(j)
  /\ log' = [log EXCEPT ![j] = [status |-> "GENERATING", request |-> request,
                                response |-> None]]
  /\ worker' = [worker EXCEPT ![w].pc = "calling", ![w].request = request]
  /\ UNCHANGED <<proposals, alerts, shelf, queue, dispatched, batches, admin,
                 answered, faults>>

AgentAnswers(w, n) ==
  /\ At(w, "rejected", "calling")
  /\ worker' = [worker EXCEPT ![w].pc = "answered", ![w].answer = n]
  /\ answered' = [answered EXCEPT ![About(w)] = @ + 1]
  /\ UNCHANGED <<log, proposals, alerts, shelf, queue, dispatched, batches, admin, faults>>

(* The failure is written down so that a retry may ask again.  The mistake: *)
(* it is not (RejectionsSettle).                                           *)
SlipAfterFailure == "GENERATING"
AfterFailure == "FAILED"
AgentFails(w) ==
  /\ At(w, "rejected", "calling")
  /\ log' = [log EXCEPT ![About(w)] = [status |-> AfterFailure,
               request |-> worker[w].request, response |-> None]]
  /\ Retry(w)
  /\ UNCHANGED <<proposals, alerts, shelf, dispatched, batches, admin, answered, faults>>

SaveAnswer(w) ==
  /\ At(w, "rejected", "answered")
  /\ log' = [log EXCEPT ![About(w)] = [status |-> "RESPONSE_SAVED",
               request |-> worker[w].request, response |-> worker[w].answer]]
  /\ Goto(w, "saving")
  /\ UNCHANGED <<proposals, alerts, shelf, queue, dispatched, batches, admin,
                 answered, faults>>

(* The lock on the job ended with the last commit: another task may have   *)
(* used the saved answer by now, and then the constraint fails this one.   *)
(* (Two that insert at the same time end like one after the other.)        *)
SaveProposal(w) ==
  LET j == About(w) IN
  /\ At(w, "rejected", "saving")
  /\ Unique(j)
  /\ BookFree(BookOf[j])
  /\ Insert(w, j, BookOf[j], worker[w].request, worker[w].answer)
  /\ log' = [log EXCEPT ![j] = [status |-> "COMPLETED", request |-> worker[w].request,
                                response |-> worker[w].answer]]
  /\ UNCHANGED <<shelf, queue, dispatched, batches, admin, answered, faults>>

SaveDuplicate(w) ==
  /\ At(w, "rejected", "saving")
  /\ ~Unique(About(w))
  /\ Retry(w)
  /\ UNCHANGED <<log, proposals, alerts, shelf, dispatched, batches, admin, answered, faults>>

(* create_committed_notification_for_tenant, a transaction of its own.     *)
Notify(w) ==
  /\ worker[w].pc = "notify"
  /\ alerts' = [alerts EXCEPT ![worker[w].row] = @ + 1]
  /\ worker' = [worker EXCEPT ![w].pc = "ack", ![w].row = 0]
  /\ UNCHANGED <<log, proposals, shelf, queue, dispatched, batches, admin, answered, faults>>

-----------------------------------------------------------------------------
(* create_restock_proposal_for_safety_stock.                               *)

LockBook(w) ==
  /\ At(w, "safety", "start")
  /\ BookFree(About(w))
  /\ Goto(w, "checking")
  /\ UNCHANGED <<log, proposals, alerts, shelf, queue, dispatched, batches, admin,
                 answered, faults>>

SafetyPending(b) ==
  {i \in Proposals : proposals[i].job = None /\ proposals[i].book = b
                       /\ proposals[i].status = "PENDING"}

(* The pending proposals are read FOR UPDATE: one that an administrator is *)
(* deciding is waited for, and counts only if it is pending after that.    *)
FindSafetyPending(w) ==
  /\ At(w, "safety", "checking")
  /\ \E i \in SafetyPending(About(w)) : RowFree(i)
  /\ End(w)
  /\ UNCHANGED <<log, proposals, alerts, shelf, dispatched, batches, admin, answered, faults>>

(* The stock has recovered since the batch looked.                         *)
FindEnough(w) ==
  /\ At(w, "safety", "checking")
  /\ SafetyPending(About(w)) = {}
  /\ ~Short(About(w), worker[w].msg.level)
  /\ End(w)
  /\ UNCHANGED <<log, proposals, alerts, shelf, dispatched, batches, admin, answered, faults>>

AskForSafetyStock(w) ==
  /\ At(w, "safety", "checking")
  /\ SafetyPending(About(w)) = {}
  /\ Short(About(w), worker[w].msg.level)
  /\ worker' = [worker EXCEPT ![w].pc = "asking", ![w].request = Snapshot(About(w))]
  /\ UNCHANGED <<log, proposals, alerts, shelf, queue, dispatched, batches, admin,
                 answered, faults>>

SafetyAnswer(w, n) ==
  /\ At(w, "safety", "asking")
  /\ Insert(w, None, About(w), worker[w].request, n)
  /\ UNCHANGED <<log, shelf, queue, dispatched, batches, admin, answered, faults>>

SafetyCallFails(w) ==
  /\ At(w, "safety", "asking")
  /\ Retry(w)
  /\ UNCHANGED <<log, proposals, alerts, shelf, dispatched, batches, admin, answered, faults>>

-----------------------------------------------------------------------------
(* approve_restock_proposal and reject_restock_proposal.                   *)

Reviewable(i) == proposals[i].status = "PENDING" /\ RowFree(i)

BeginApproval(a, i) ==
  /\ admin[a].pc = "idle"
  /\ Reviewable(i)
  /\ admin' = [admin EXCEPT ![a] = [AdminIdle EXCEPT !.pc = "lock", !.row = i]]
  /\ UNCHANGED <<log, proposals, alerts, shelf, queue, dispatched, batches, worker,
                 answered, faults>>

(* The book is locked as well, and then the stock is read.                 *)
LockForApproval(a) ==
  LET b == proposals[admin[a].row].book IN
  /\ admin[a].pc = "lock"
  /\ BookFree(b)
  /\ admin' = [admin EXCEPT ![a].pc = "decide", ![a].seen = Snapshot(b)]
  /\ UNCHANGED <<log, proposals, alerts, shelf, queue, dispatched, batches, worker,
                 answered, faults>>

(* What is still needed of the recommendation: what has arrived or is on   *)
(* its way since the proposal was made counts.  The mistake: only what is  *)
(* on its way (NoOverOrder).                                               *)
SlipOrderQuantity(p, seen) ==
  Larger(0, p.recommended - Larger(0, seen.pending - p.pending))
OrderQuantity(p, seen) ==
  Larger(0, p.recommended - Larger(0, seen.pending - p.pending)
                          - Larger(0, seen.stock - p.stock))

(* The AUTO_PO is made, received and stocked in the same transaction.  The *)
(* mistake: stocking what was recommended (StockAccounted).                *)
SlipReceived(p, n) == p.recommended
Received(p, n) == n
Approve(a) ==
  LET i == admin[a].row
      p == proposals[i]
      n == OrderQuantity(p, admin[a].seen)
  IN
  /\ admin[a].pc = "decide"
  /\ IF n = 0
     THEN proposals' = [proposals EXCEPT ![i].status = "NOT_REQUIRED"] /\ UNCHANGED stock
     ELSE /\ proposals' = [proposals EXCEPT ![i] =
               [p EXCEPT !.status = "APPROVED", !.ordered = n, !.order = "RECEIVED"]]
          /\ stock' = [stock EXCEPT ![p.book] = @ + Received(p, n)]
  /\ admin' = [admin EXCEPT ![a] = AdminIdle]
  /\ UNCHANGED <<log, alerts, reserved, sales, arrived, queue, dispatched, batches,
                 worker, answered, faults>>

(* No shelf is free for what would be ordered: everything is rolled back.  *)
NoShelf(a) ==
  /\ admin[a].pc = "decide"
  /\ OrderQuantity(proposals[admin[a].row], admin[a].seen) > 0
  /\ admin' = [admin EXCEPT ![a] = AdminIdle]
  /\ UNCHANGED <<log, proposals, alerts, shelf, queue, dispatched, batches, worker,
                 answered, faults>>

Reject(i) ==
  /\ Reviewable(i)
  /\ proposals' = [proposals EXCEPT ![i].status = "REJECTED"]
  /\ UNCHANGED <<log, alerts, shelf, queue, dispatched, batches, worker, admin,
                 answered, faults>>

LoseAdmin(a) ==
  /\ admin[a].pc # "idle"
  /\ Fault
  /\ admin' = [admin EXCEPT ![a] = AdminIdle]
  /\ UNCHANGED <<log, proposals, alerts, shelf, queue, dispatched, batches, worker, answered>>

(* The safety stock task locks the book, then the proposal; the approval   *)
(* locks the proposal, then the book.  PostgreSQL breaks the circle by     *)
(* failing one of the two.                                                 *)
SlipDeadlocked(a, w) == FALSE
Deadlocked(a, w) ==
  /\ admin[a].pc = "lock"
  /\ worker[w].pc = "checking"
  /\ About(w) = proposals[admin[a].row].book
  /\ admin[a].row \in SafetyPending(About(w))

FailApproval(a, w) ==
  /\ Deadlocked(a, w)
  /\ admin' = [admin EXCEPT ![a] = AdminIdle]
  /\ UNCHANGED <<log, proposals, alerts, shelf, queue, dispatched, batches, worker,
                 answered, faults>>
FailSafetyTask(a, w) ==
  /\ Deadlocked(a, w)
  /\ Retry(w)
  /\ UNCHANGED <<log, proposals, alerts, shelf, dispatched, batches, admin, answered, faults>>

-----------------------------------------------------------------------------
(* The stock moves meanwhile.  An arrival and a shipment write the book    *)
(* row and wait for its lock; setting a copy aside for an order does not.  *)

Arrive(b) ==
  /\ arrived[b] < MaxArrivals
  /\ BookFree(b)
  /\ arrived' = [arrived EXCEPT ![b] = @ + 1]
  /\ stock' = [stock EXCEPT ![b] = @ + 1]
  /\ UNCHANGED <<log, proposals, alerts, reserved, sales, queue, dispatched, batches,
                 worker, admin, answered, faults>>

Reserve(b) ==
  /\ stock[b] > 0
  /\ stock' = [stock EXCEPT ![b] = @ - 1]
  /\ reserved' = [reserved EXCEPT ![b] = @ + 1]
  /\ UNCHANGED <<log, proposals, alerts, sales, arrived, queue, dispatched, batches,
                 worker, admin, answered, faults>>

Ship(b) ==
  /\ reserved[b] > 0
  /\ BookFree(b)
  /\ reserved' = [reserved EXCEPT ![b] = @ - 1]
  /\ sales' = [sales EXCEPT ![b] = @ + 1]
  /\ UNCHANGED <<log, proposals, alerts, stock, arrived, queue, dispatched, batches,
                 worker, admin, answered, faults>>

-----------------------------------------------------------------------------
Init ==
  /\ log = [j \in Jobs |-> NoLog]
  /\ proposals = <<>> /\ alerts = <<>>
  /\ stock = InitialStock
  /\ reserved = [b \in Books |-> 0]
  /\ sales = [b \in Books |-> 0]
  /\ arrived = [b \in Books |-> 0]
  /\ queue = {}
  /\ dispatched = [j \in Jobs |-> 0]
  /\ batches = 0
  /\ worker = [w \in Workers |-> WorkerIdle]
  /\ admin = [a \in Admins |-> AdminIdle]
  /\ answered = [j \in Jobs |-> 0]
  /\ faults = 0

CallEnds(w) ==
  \/ \E n \in 0..MaxAnswer : AgentAnswers(w, n) \/ SafetyAnswer(w, n)
  \/ AgentFails(w) \/ SafetyCallFails(w)

Handle(w) ==
  \/ FindProposal(w) \/ FindGenerating(w) \/ ResumeSaved(w) \/ BeginGeneration(w)
  \/ SaveAnswer(w) \/ SaveProposal(w) \/ SaveDuplicate(w) \/ Notify(w) \/ Ack(w)
  \/ LockBook(w) \/ FindSafetyPending(w) \/ FindEnough(w) \/ AskForSafetyStock(w)
  \/ CallEnds(w)

Serve(a) == LockForApproval(a) \/ Approve(a) \/ NoShelf(a)
BreakDeadlock(a) == \E w \in Workers : FailApproval(a, w) \/ FailSafetyTask(a, w)

Next ==
  \/ \E j \in Jobs : Dispatch(j)
  \/ RunBatch
  \/ \E w \in Workers :
        (\E m \in queue : Take(w, m)) \/ Handle(w)
          \/ LoseWorker(w) \/ KillTask(w) \/ FailTask(w)
  \/ \E a \in Admins :
        (\E i \in Proposals : BeginApproval(a, i)) \/ Serve(a)
          \/ BreakDeadlock(a) \/ LoseAdmin(a)
  \/ \E i \in Proposals : Reject(i)
  \/ \E b \in Books : Arrive(b) \/ Reserve(b) \/ Ship(b)

(* Nobody has to dispatch, review or buy anything, and nothing has to      *)
(* fail.  What has begun goes on: a call of the agent has a timeout, the   *)
(* lock queues of PostgreSQL are served in order, and it breaks deadlocks. *)
Fairness ==
  /\ \A w \in Workers : SF_vars(Handle(w)) /\ SF_vars(\E m \in queue : Take(w, m))
  /\ \A a \in Admins : SF_vars(Serve(a)) /\ WF_vars(BreakDeadlock(a))

Spec == Init /\ [][Next]_vars
FairSpec == Spec /\ Fairness

-----------------------------------------------------------------------------
(* Properties.                                                             *)

Request == [stock : Nat, pending : Nat]
LogEntry == [status : {"NONE", "GENERATING", "RESPONSE_SAVED", "COMPLETED", "FAILED"},
             request : Request \cup {None}, response : Nat \cup {None}]
Proposal == [job : Jobs \cup {None}, book : Books, stock : Nat, pending : Nat,
             recommended : Nat, ordered : Nat, order : {"NONE", "RECEIVED"},
             status : {"PENDING", "APPROVED", "REJECTED", "NOT_REQUIRED"}]
MessageType ==
  [kind : {"rejected"}, about : Jobs, level : {0}, copy : Nat, retries : Nat]
    \cup [kind : {"safety"}, about : Books, level : Nat, copy : Nat, retries : Nat]
WorkerState ==
  [pc : {"idle", "start", "calling", "answered", "saving", "notify", "ack",
         "checking", "asking"},
   msg : MessageType \cup {None}, request : Request \cup {None}, answer : Nat, row : Nat]
AdminState == [pc : {"idle", "lock", "decide"}, row : Nat, seen : Request \cup {None}]

(* Every row of the tables and every process is in a state its type        *)
(* allows; the locks and rows the processes refer to exist.                *)
TypeOK ==
  /\ log \in [Jobs -> LogEntry]
  /\ proposals \in Seq(Proposal)
  /\ alerts \in Seq(Nat) /\ Len(alerts) = Len(proposals)
  /\ stock \in [Books -> Nat] /\ reserved \in [Books -> Nat]
  /\ sales \in [Books -> Nat] /\ arrived \in [Books -> Nat]
  /\ queue \in SUBSET MessageType
  /\ dispatched \in [Jobs -> Nat] /\ batches \in Nat
  /\ worker \in [Workers -> WorkerState]
  /\ admin \in [Admins -> AdminState]
  /\ answered \in [Jobs -> Nat] /\ faults \in Nat

(* A rejection has at most one proposal, however often it is dispatched,   *)
(* delivered and retried (restock_service.py, worker.py:401).              *)
OneProposalPerRejection ==
  \A i, j \in Proposals : proposals[i].job # None /\ proposals[i].job = proposals[j].job => i = j

(* The agent answers at most once for a rejection: once it has, no         *)
(* delivery, retry or restart asks it again (restock_service.py:71).       *)
AnsweredOnce == \A j \in Jobs : answered[j] <= 1

(* The proposal for a rejection is the answer that was saved, next to the  *)
(* very figures the agent was given, whichever task inserted it.           *)
ProposalIsTheAnswer ==
  \A i \in Proposals : proposals[i].job # None =>
    log[proposals[i].job] =
      [status |-> "COMPLETED",
       request |-> [stock |-> proposals[i].stock, pending |-> proposals[i].pending],
       response |-> proposals[i].recommended]

(* A book has at most one safety stock proposal that waits for a decision, *)
(* with batches, retries and reviews running side by side.                 *)
OnePendingSafety == \A b \in Books : Cardinality(SafetyPending(b)) <= 1

(* No proposal is announced twice, and none that orders nothing.           *)
AlertedOnce ==
  \A i \in Proposals : alerts[i] <= IF proposals[i].recommended = 0 THEN 0 ELSE 1

(* What is on the shelves, set aside or gone is what was there, what       *)
(* suppliers brought and what approvals ordered, neither more nor less.    *)
StockAccounted ==
  \A b \in Books : stock[b] + reserved[b] + sales[b]
                     = InitialStock[b] + arrived[b] + OrderedIn(b, {"RECEIVED"})

(* A proposal is decided once: whatever is no longer PENDING stays as it   *)
(* is, whoever else was reviewing it, and no proposal disappears.          *)
ReviewedOnce ==
  [][\A i \in Proposals : i \in DOMAIN proposals'
       /\ (proposals[i].status # "PENDING" => proposals'[i] = proposals[i])]_vars

(* An approval does not lift the stock above what the agent aimed at, even *)
(* when several proposals for the book are approved at the same time.      *)
NoOverOrder ==
  [][\A i \in Proposals :
       proposals[i].status = "PENDING" /\ proposals'[i].status = "APPROVED" =>
         LET p == proposals[i] IN stock'[p.book] <= p.stock + p.recommended]_vars

(* When a safety stock proposal appears, the book is still short of the    *)
(* figure it was based on: nothing arrived while the agent was thinking.   *)
SafetyStillShort ==
  [][\A i \in DOMAIN proposals' \ Proposals :
       LET p == proposals'[i] IN
       p.job = None => stock[p.book] <= p.stock]_vars

(* A review that has begun ends, and so does what waits for its locks.     *)
ReviewsEnd == \A a \in Admins : admin[a].pc # "idle" ~> admin[a].pc = "idle"

Concerns(m, j) == m # None /\ m.kind = "rejected" /\ m.about = j
InHand(j) == \/ \E m \in queue : Concerns(m, j)
             \/ \E w \in Workers : Concerns(worker[w].msg, j)

(* Every rejection that was dispatched comes to rest in one of three ways: *)
(* with a proposal, with the last failure written down, or, if a fault     *)
(* struck, with what the lost task had written before.                     *)
RejectionsSettle ==
  \A j \in Jobs : dispatched[j] > 0 ~>
    ~InHand(j) /\ (Proposed(j) \/ log[j].status = "FAILED" \/ faults > 0)

(* A rejection whose recommendation is to order something reaches the      *)
(* notification centre of the administrators (schemas/restock.py:92).  It  *)
(* does NOT hold (a task lost or retried after the insert finds the        *)
(* proposal and says nothing) and no run checks it.                        *)
OrderIsAnnounced ==
  \A i \in Proposals : proposals[i].job # None /\ proposals[i].recommended > 0
    /\ ~InHand(proposals[i].job) => alerts[i] > 0
=============================================================================
