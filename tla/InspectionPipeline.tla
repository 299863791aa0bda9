------------------------- MODULE InspectionPipeline -------------------------
(***************************************************************************)
(* The inspection of a returned or bought-back copy, from the request of   *)
(* the warehouse worker to the admission of the copy: the API handlers of  *)
(* inspections.py, the Celery tasks process_inspection and                 *)
(* process_wms_action of worker.py, the decision of an admin (HITL), and   *)
(* the internal WMS API that admits the copy.                              *)
(*                                                                         *)
(* The unit of interleaving is one database transaction, one message put   *)
(* on the Celery queue or taken off it, or one HTTP request.  Tasks are    *)
(* acknowledged late: a message stays on the queue while a worker runs it  *)
(* and is run again when the worker dies.  A WMS request whose caller has  *)
(* timed out is still at work in the API server.                           *)
(*                                                                         *)
(* Task ids are numbered in the order they are drawn (uuid4 in the code).  *)
(* Definitions whose name starts with Slip are not part of the model: each *)
(* is the definition after it with one plausible mistake in it.            *)
(***************************************************************************)
EXTENDS Integers, FiniteSets, Functions

CONSTANTS
  Jobs,         \* return_jobs, numbered in the order of their creation
  Copies,       \* inbound_items with an LPN: the copies to inspect
  CopyOf,       \* Jobs -> Copies
  Admins,       \* who decides about the jobs that await an admin
  Workers,      \* Celery worker processes
  Servers,      \* WMS requests handled at the same time
  Clients,      \* other API requests handled at the same time
  Grades,       \* the grades a copy can be sold with
  MaxRetries,   \* retries of a Celery task
  MaxTasks,     \* bound: no request that needs a task id comes after so many
  FaultLimit,   \* bound: how often each kind of fault happens
  MaxFaults,    \* bound: how many faults there are in all
  None

(* crash: a worker process is lost; limit: a task exceeds its soft or hard  *)
(* time limit; api: an API process is lost between two transactions; send: the  *)
(* broker does not accept a message; timeout: a WMS request gets no answer.*)
Faults == {"crash", "limit", "api", "send", "timeout"}

ASSUME JobConstants == Jobs \subseteq Nat /\ CopyOf \in [Jobs -> Copies]
ASSUME Bounds ==
  /\ MaxRetries \in Nat /\ MaxTasks \in Nat /\ MaxFaults \in Nat
  /\ FaultLimit \in [Faults -> Nat]
ASSUME NoneIsNoValue ==
  /\ None \notin Workers /\ None \notin Admins /\ None \notin Nat
  /\ None \notin Grades /\ None \notin {"REJECT", "UNGRADED"}
ASSUME GradesAreSellable == {"REJECT", "UNGRADED"} \cap Grades = {}

VARIABLES
  job,       \* the return_jobs rows
  copy,      \* inbound_items.condition_grade; None while the inbound job is CHECKING
  admitted,  \* inventory_used_items and rejected_items: [job, grade] records
  queue,     \* the messages on the Celery queue "inspection"
  worker,    \* the worker processes
  server,    \* the WMS requests being handled
  client,    \* the other API requests being handled
  restock,   \* the jobs a restock proposal task was sent for
  tasks,     \* task ids drawn so far
  faults     \* faults so far, per kind

vars == <<job, copy, admitted, queue, worker, server, client, restock, tasks, faults>>

-----------------------------------------------------------------------------
(* A verdict is a decision with the grade it leads to at the WMS: a grade  *)
(* to sell the copy with, "REJECT", or "UNGRADED" for an approval the WMS  *)
(* turns down because there is no score or the score means REJECT.         *)
Verdicts == Grades \cup {"REJECT", "UNGRADED"}

(* The entries of agent_logs that control the flow: ai_decision (with the  *)
(* grade it leads to), wms_task_id, the admin whose decision it is and     *)
(* whether there is a wms_result.                                          *)
NoLogs == [verdict |-> None, wms |-> None, admin |-> None, result |-> FALSE]
Logs == [verdict : Verdicts \cup {None}, wms : Nat \cup {None},
         admin : Admins \cup {None}, result : BOOLEAN]

Statuses == {"NONE", "PENDING", "PROCESSING", "APPROVED", "REJECTED",
             "HITL_REQUIRED", "RECHECK_REQUIRED", "FAILED"}
Final == {"APPROVED", "REJECTED"}
StatusOf(verdict) == IF verdict = "REJECT" THEN "REJECTED" ELSE "APPROVED"

(* backup is the entry hitl_dispatch_backup of agent_logs, reviewer is     *)
(* hitl_reviewer_id and grade is condition_grade.                          *)
NoJob == [status |-> "NONE", task |-> None, logs |-> NoLogs, grade |-> None,
          backup |-> None, reviewer |-> None]

(* A task that is retried keeps its id: copy numbers tell the messages of  *)
(* one try apart.                                                          *)
Message == [kind : {"inspection", "wms"}, id : Nat, job : Jobs, try : Nat, copy : Nat]

WorkerIdle == [pc |-> "idle", msg |-> None, verdict |-> None, admin |-> None,
               wms |-> None]
ServerIdle == [pc |-> "idle", job |-> None, verdict |-> None, admin |-> None,
               seen |-> None, caller |-> None]
ClientIdle == [pc |-> "idle", job |-> None, task |-> None, logs |-> NoLogs]

JobRow ==
  [status : Statuses, task : Nat \cup {None}, logs : Logs,
   grade : Grades \cup {"REJECT", None},
   backup : {None} \cup [task : Nat \cup {None}, logs : Logs],
   reviewer : Admins \cup {None}]

WorkerState ==
  [pc : {"idle", "start", "graph", "register", "send", "undo", "error",
         "phase1", "call", "wait", "unreachable", "admitted", "failed",
         "restock", "ack"},
   msg : Message \cup {None}, verdict : Verdicts \cup {None},
   admin : Admins \cup {None}, wms : Nat \cup {None}]

ServerState ==
  [pc : {"idle", "read", "admit"}, job : Jobs \cup {None},
   verdict : Verdicts \cup {None}, admin : Admins \cup {None},
   seen : Statuses \cup {None}, caller : Workers \cup {None}]

ClientState ==
  [pc : {"idle", "enqueue", "send", "undo", "reenqueue", "resend", "reundo",
         "restore", "hitlSend", "hitlRestore", "hitlClear"},
   job : Jobs \cup {None}, task : Nat \cup {None}, logs : Logs]

TypeOK ==
  /\ job \in [Jobs -> JobRow]
  /\ copy \in [Copies -> Grades \cup {"REJECT", None}]
  /\ admitted \in SUBSET [job : Jobs, grade : Grades \cup {"REJECT"}]
  /\ queue \in SUBSET Message
  /\ worker \in [Workers -> WorkerState]
  /\ server \in [Servers -> ServerState]
  /\ client \in [Clients -> ClientState]
  /\ restock \in SUBSET Jobs
  /\ tasks \in Nat
  /\ faults \in [Faults -> Nat] /\ \A f \in Faults : faults[f] <= FaultLimit[f]

Init ==
  /\ job = [j \in Jobs |-> NoJob]
  /\ copy = [c \in Copies |-> None]
  /\ admitted = {} /\ queue = {} /\ restock = {}
  /\ worker = [w \in Workers |-> WorkerIdle]
  /\ server = [s \in Servers |-> ServerIdle]
  /\ client = [c \in Clients |-> ClientIdle]
  /\ tasks = 0
  /\ faults = [f \in Faults |-> 0]

Fault(f) ==
  /\ faults[f] < FaultLimit[f] /\ SumFunction(faults) < MaxFaults
  /\ faults' = [faults EXCEPT ![f] = @ + 1]

(* A WMS request with an admin's decision writes agent_logs first and so   *)
(* keeps the row of the job locked until it commits; every other           *)
(* SELECT ... FOR UPDATE or UPDATE of that job waits.                      *)
RowFree(j) == ~\E s \in Servers :
  server[s].pc = "admit" /\ server[s].job = j /\ server[s].admin # None

(* A transaction that leaves the row of job j as x.                        *)
SaveJob(j, x) == RowFree(j) /\ job' = [job EXCEPT ![j] = x]
KeepJob(j) == RowFree(j) /\ UNCHANGED job

Fresh == tasks + 1
DrawTask == tasks' = Fresh

-----------------------------------------------------------------------------
(* The requests of the warehouse worker.                                   *)

(* The row of the client's request, after its own last commit.             *)
MyJob(c) == job[client[c].job]
Proceed(c, pc) == client' = [client EXCEPT ![c].pc = pc]
Done(c) == client' = [client EXCEPT ![c] = ClientIdle]
Serve(c, pc, j, t, logs) ==
  /\ client[c].pc = "idle" /\ tasks < MaxTasks
  /\ client' = [client EXCEPT ![c] = [pc |-> pc, job |-> j, task |-> t, logs |-> logs]]

(* The jobs of a copy are created one after the other; only the latest is  *)
(* looked at, and it must have failed.                                     *)
Earlier(j) == {i \in Jobs : i < j /\ CopyOf[i] = CopyOf[j]}
Latest(S) == {i \in S : \A h \in S : h <= i}

(* The latest job is not looked at (OneActiveJob).                         *)
SlipMayInspectAgain(j) == \A i \in Earlier(j) : job[i].status # "NONE"
MayInspectAgain(j) ==
  /\ \A i \in Earlier(j) : job[i].status # "NONE"
  /\ \A i \in Latest(Earlier(j)) : job[i].status = "FAILED"

CreateInspection(c, j) ==
  /\ job[j].status = "NONE"
  /\ copy[CopyOf[j]] = None
  /\ MayInspectAgain(j)
  /\ SaveJob(j, [NoJob EXCEPT !.status = "PENDING"])
  /\ Serve(c, "enqueue", j, None, NoLogs)
  /\ UNCHANGED <<copy, admitted, queue, worker, server, restock, tasks, faults>>

RecheckInspection(c, j) ==
  /\ job[j].status = "RECHECK_REQUIRED"
  /\ SaveJob(j, [job[j] EXCEPT !.status = "PENDING", !.task = None])
  /\ Serve(c, "reenqueue", j, None, job[j].logs)
  /\ UNCHANGED <<copy, admitted, queue, worker, server, restock, tasks, faults>>

(* enqueue_inspection: the task id is saved before the message is sent, so *)
(* that a worker that is quick finds it.                                   *)
SaveTaskId(c) ==
  /\ client[c].pc \in {"enqueue", "reenqueue"}
  /\ SaveJob(client[c].job, [MyJob(c) EXCEPT !.task = Fresh, !.logs = client[c].logs])
  /\ DrawTask
  /\ client' = [client EXCEPT ![c].task = Fresh,
                  ![c].pc = IF @ = "enqueue" THEN "send" ELSE "resend"]
  /\ UNCHANGED <<copy, admitted, queue, worker, server, restock, faults>>

(* Another message like m.                                                 *)
Put(m) == \E n \in 0..Cardinality(queue) :
  /\ [m EXCEPT !.copy = n] \notin queue
  /\ \A k \in 0..(n - 1) : [m EXCEPT !.copy = k] \in queue
  /\ queue' = queue \cup {[m EXCEPT !.copy = n]}
Submit(kind, t, j) == Put([kind |-> kind, id |-> t, job |-> j, try |-> 0, copy |-> 0])

SendInspection(c) ==
  /\ client[c].pc \in {"send", "resend"}
  /\ \/ /\ Submit("inspection", client[c].task, client[c].job)
        /\ Done(c)
        /\ UNCHANGED faults
     \/ /\ Fault("send")
        /\ Proceed(c, IF client[c].pc = "send" THEN "undo" ELSE "reundo")
        /\ UNCHANGED queue
  /\ UNCHANGED <<job, copy, admitted, worker, server, restock, tasks>>

(* The message was not accepted: the job fails; the recheck route then     *)
(* puts it back to waiting for new images.                                 *)
UndoEnqueue(c) ==
  /\ client[c].pc \in {"undo", "reundo"}
  /\ SaveJob(client[c].job, [MyJob(c) EXCEPT !.status = "FAILED", !.task = None])
  /\ IF client[c].pc = "undo" THEN Done(c) ELSE Proceed(c, "restore")
  /\ UNCHANGED <<copy, admitted, queue, worker, server, restock, tasks, faults>>

RestoreRecheck(c) ==
  /\ client[c].pc = "restore"
  /\ SaveJob(client[c].job,
             [MyJob(c) EXCEPT !.status = "RECHECK_REQUIRED", !.task = None])
  /\ Done(c)
  /\ UNCHANGED <<copy, admitted, queue, worker, server, restock, tasks, faults>>

-----------------------------------------------------------------------------
(* The decisions of the admins.  validate_hitl_required_status guards all  *)
(* of them; who has claimed the job is only asked when it is claimed.      *)

(* The guard forgets the jobs that are done (FinalStatusStays) or those    *)
(* the WMS is at work on (FinalMatchesDecision, FailedLeavesNoStock).      *)
SlipAwaitsAdmin(j) == job[j].status \in {"HITL_REQUIRED", "APPROVED"}
SlipAwaitsAnyone(j) == job[j].status \in {"HITL_REQUIRED", "PROCESSING"}
AwaitsAdmin(j) == job[j].status = "HITL_REQUIRED"

StartHitlReview(a, j) ==
  /\ AwaitsAdmin(j) /\ job[j].reviewer = None
  /\ SaveJob(j, [job[j] EXCEPT !.reviewer = a])
  /\ UNCHANGED <<copy, admitted, queue, worker, server, client, restock, tasks, faults>>

(* An approval or a rejection: saved together with a backup of the job and *)
(* the id of the WMS task that is about to be sent.  APPROVE_NORMAL takes  *)
(* the grade the stored score leads to, which may be none.                 *)
DecideHitl(c, a, j, v) ==
  LET logs == [job[j].logs EXCEPT !.verdict = v, !.wms = Fresh, !.admin = a] IN
  /\ AwaitsAdmin(j)
  /\ SaveJob(j, [job[j] EXCEPT !.status = "PROCESSING", !.task = Fresh, !.logs = logs,
                   !.backup = [task |-> job[j].task, logs |-> job[j].logs]])
  /\ DrawTask
  /\ Serve(c, "hitlSend", j, Fresh, logs)
  /\ UNCHANGED <<copy, admitted, queue, worker, server, restock, faults>>

RequestRecheck(j) ==
  /\ AwaitsAdmin(j)
  /\ SaveJob(j, [job[j] EXCEPT !.status = "RECHECK_REQUIRED", !.task = None,
                   !.logs = [NoLogs EXCEPT !.result = job[j].logs.result],
                   !.backup = None, !.reviewer = None])
  /\ UNCHANGED <<copy, admitted, queue, worker, server, client, restock, tasks, faults>>

SendDecision(c) ==
  /\ client[c].pc = "hitlSend"
  /\ \/ /\ Submit("wms", client[c].task, client[c].job)
        /\ Proceed(c, "hitlClear")
        /\ UNCHANGED faults
     \/ /\ Fault("send")
        /\ Proceed(c, "hitlRestore")
        /\ UNCHANGED queue
  /\ UNCHANGED <<job, copy, admitted, worker, server, restock, tasks>>

(* restore_hitl_after_dispatch_failure.                                    *)
RestoreHitl(c) ==
  LET j == client[c].job IN
  /\ client[c].pc = "hitlRestore"
  /\ IF /\ job[j].backup # None
        /\ job[j].status = "PROCESSING" /\ job[j].task = client[c].task
     THEN SaveJob(j, [job[j] EXCEPT !.status = "HITL_REQUIRED", !.backup = None,
                        !.task = job[j].backup.task, !.logs = job[j].backup.logs])
     ELSE KeepJob(j)
  /\ Done(c)
  /\ UNCHANGED <<copy, admitted, queue, worker, server, restock, tasks, faults>>

(* clear_hitl_dispatch_backup locks the row, but the session still has the *)
(* job it loaded for the decision: agent_logs is written back as it was    *)
(* then, without the backup.                                               *)
ClearBackup(c) ==
  /\ client[c].pc = "hitlClear"
  /\ SaveJob(client[c].job, [MyJob(c) EXCEPT !.logs = client[c].logs, !.backup = None])
  /\ Done(c)
  /\ UNCHANGED <<copy, admitted, queue, worker, server, restock, tasks, faults>>

LoseClient(c) ==
  /\ client[c].pc # "idle"
  /\ Fault("api")
  /\ Done(c)
  /\ UNCHANGED <<job, copy, admitted, queue, worker, server, restock, tasks>>

-----------------------------------------------------------------------------
(* Celery.                                                                 *)

Goto(w, pc) == worker' = [worker EXCEPT ![w].pc = pc]
At(w, pc) == worker[w].pc = pc
Of(w) == worker[w].msg.job          \* the job a worker is at work on
Id(w) == worker[w].msg.id

(* task_acks_late: the message is not gone when it is delivered; and a     *)
(* queue that is told at once (InspectionsSettle).                         *)
SlipDeliver(m) == queue' = queue \ {m}
Deliver(m) == m \in queue /\ UNCHANGED queue

Take(w, m) ==
  /\ At(w, "idle")
  /\ \A x \in Workers : worker[x].msg # m
  /\ Deliver(m)
  /\ worker' = [worker EXCEPT ![w].msg = m,
                  ![w].pc = IF m.kind = "wms" THEN "phase1" ELSE "start"]
  /\ UNCHANGED <<job, copy, admitted, server, client, restock, tasks, faults>>

(* Tasks are acknowledged when they end, whatever they end with.           *)
Ack(w) ==
  /\ At(w, "ack")
  /\ queue' = queue \ {worker[w].msg}
  /\ worker' = [worker EXCEPT ![w] = WorkerIdle]
  /\ UNCHANGED <<job, copy, admitted, server, client, restock, tasks, faults>>

(* self.retry: another message with the same task id, then the end of this *)
(* run; on the last try the job fails instead.                             *)
RetryOr(w, last) ==
  IF worker[w].msg.try < MaxRetries
  THEN /\ Put([worker[w].msg EXCEPT !.try = @ + 1])
       /\ Goto(w, "ack")
       /\ UNCHANGED job
  ELSE last /\ UNCHANGED queue

Forget(w) == server' = [s \in Servers |->
  IF server[s].caller = w THEN [server[s] EXCEPT !.caller = None] ELSE server[s]]

(* The process is lost; its message is delivered again.                    *)
CrashWorker(w) ==
  /\ ~At(w, "idle")
  /\ Fault("crash")
  /\ worker' = [worker EXCEPT ![w] = WorkerIdle]
  /\ Forget(w)
  /\ UNCHANGED <<job, copy, admitted, queue, client, restock, tasks>>

(* The hard time limit: the process is killed and the message acknowledged.*)
KillTask(w) ==
  /\ worker[w].pc \notin {"idle", "ack"}
  /\ Fault("limit")
  /\ Goto(w, "ack")
  /\ Forget(w)
  /\ UNCHANGED <<job, copy, admitted, queue, client, restock, tasks>>

-----------------------------------------------------------------------------
(* process_inspection.                                                     *)

(* prepare_processing_job.                                                 *)
Prepare(w) ==
  LET x == job[Of(w)] IN
  /\ At(w, "start")
  /\ IF x.status \in Final \cup {"FAILED"} \/ x.task \notin {None, Id(w)}
     THEN KeepJob(Of(w)) /\ Goto(w, "error")
     ELSE /\ SaveJob(Of(w), [x EXCEPT !.status = "PROCESSING", !.task = Id(w)])
          /\ Goto(w, "graph")
  /\ UNCHANGED <<copy, admitted, queue, server, client, restock, tasks, faults>>

(* The agents come to no verdict: save_inspection_hitl_required.           *)
SaveHitlRequired(w) ==
  /\ At(w, "graph")
  /\ SaveJob(Of(w), [job[Of(w)] EXCEPT !.status = "HITL_REQUIRED"])
  /\ Goto(w, "ack")
  /\ UNCHANGED <<copy, admitted, queue, server, client, restock, tasks, faults>>

(* Is the job still the one that this inspection task is at work on?       *)
Mine(w) == job[Of(w)].task = Id(w) /\ job[Of(w)].status = "PROCESSING"

(* save_ai_inspection_result.                                              *)
SaveVerdict(w, v) ==
  /\ At(w, "graph")
  /\ IF Mine(w)
     THEN SaveJob(Of(w), [job[Of(w)] EXCEPT !.logs.verdict = v]) /\ Goto(w, "register")
     ELSE KeepJob(Of(w)) /\ Goto(w, "error")
  /\ UNCHANGED <<copy, admitted, queue, server, client, restock, tasks, faults>>

GraphFails(w) ==
  /\ At(w, "graph")
  /\ Goto(w, "error")
  /\ UNCHANGED <<job, copy, admitted, queue, server, client, restock, tasks, faults>>

(* save_wms_task_id, before the WMS task is sent.                          *)
SaveWmsTaskId(w) ==
  /\ At(w, "register")
  /\ IF Mine(w)
     THEN /\ SaveJob(Of(w), [job[Of(w)] EXCEPT !.logs.wms = Fresh])
          /\ DrawTask
          /\ worker' = [worker EXCEPT ![w].pc = "send", ![w].wms = Fresh]
     ELSE KeepJob(Of(w)) /\ Goto(w, "undo") /\ UNCHANGED tasks
  /\ UNCHANGED <<copy, admitted, queue, server, client, restock, faults>>

SendWms(w) ==
  /\ At(w, "send")
  /\ \/ Submit("wms", worker[w].wms, Of(w)) /\ Goto(w, "ack") /\ UNCHANGED faults
     \/ Fault("send") /\ Goto(w, "undo") /\ UNCHANGED queue
  /\ UNCHANGED <<job, copy, admitted, server, client, restock, tasks>>

(* save_wms_dispatch_failed; the AI inspection is not repeated.            *)
SaveDispatchFailed(w) ==
  /\ At(w, "undo")
  /\ IF Mine(w)
     THEN SaveJob(Of(w), [job[Of(w)] EXCEPT !.status = "FAILED", !.logs.wms = None])
     ELSE KeepJob(Of(w))
  /\ Goto(w, "ack")
  /\ UNCHANGED <<copy, admitted, queue, server, client, restock, tasks, faults>>

(* save_inspection_failed and save_wms_processing_failed.                  *)
SaveFailed(w) ==
  /\ IF job[Of(w)].status \in Final \cup {"FAILED"}
     THEN KeepJob(Of(w))
     ELSE SaveJob(Of(w), [job[Of(w)] EXCEPT !.status = "FAILED"])
  /\ Goto(w, "ack")

InspectionError(w) ==
  /\ At(w, "error")
  /\ RetryOr(w, SaveFailed(w))
  /\ UNCHANGED <<copy, admitted, server, client, restock, tasks, faults>>

-----------------------------------------------------------------------------
(* process_wms_action.                                                     *)

(* What follows the final status: a rejection asks for a restock proposal. *)
(* The mistake: only when this run has made it final                       *)
(* (RejectionsAreRestocked).                                               *)
SlipAlreadyFinal(w) == "ack"
AlreadyFinal(w) == IF job[Of(w)].status = "REJECTED" THEN "restock" ELSE "ack"

(* process_saved_wms_result_with_lock, up to the HTTP call.                *)
CheckSavedResult(w) ==
  LET x == job[Of(w)] IN
  /\ At(w, "phase1")
  /\ KeepJob(Of(w))
  /\ \/ x.status \in Final /\ Goto(w, AlreadyFinal(w))
     \/ x.status \notin Final \cup {"PROCESSING"} /\ Goto(w, "failed")
     \/ x.status = "PROCESSING" /\ x.logs.wms # Id(w) /\ Goto(w, "ack")
     \/ /\ x.status = "PROCESSING" /\ x.logs.wms = Id(w)
        /\ worker' = [worker EXCEPT ![w].pc = "call", ![w].verdict = x.logs.verdict,
                                    ![w].admin = x.logs.admin]
  /\ UNCHANGED <<copy, admitted, queue, server, client, restock, tasks, faults>>

CallWms(w, s) ==
  /\ At(w, "call")
  /\ server[s].pc = "idle"
  /\ server' = [server EXCEPT ![s] = [ServerIdle EXCEPT
                  !.pc = "read", !.job = Of(w), !.caller = w,
                  !.verdict = worker[w].verdict, !.admin = worker[w].admin]]
  /\ Goto(w, "wait")
  /\ UNCHANGED <<job, copy, admitted, queue, client, restock, tasks, faults>>

(* No connection, no answer in time, or an answer that says try again.     *)
Timeout(w) ==
  /\ worker[w].pc \in {"call", "wait"}
  /\ Fault("timeout")
  /\ Goto(w, "unreachable")
  /\ Forget(w)
  /\ UNCHANGED <<job, copy, admitted, queue, client, restock, tasks>>

(* The second half: the final status, unless there is one already.         *)
SaveFinal(w) ==
  LET x == job[Of(w)] IN
  /\ At(w, "admitted")
  /\ IF x.status = "PROCESSING"
     THEN LET st == StatusOf(worker[w].verdict) IN
          /\ SaveJob(Of(w), [x EXCEPT !.status = st, !.grade = worker[w].verdict,
                                      !.logs.result = TRUE])
          /\ Goto(w, IF st = "REJECTED" THEN "restock" ELSE "ack")
     ELSE /\ KeepJob(Of(w))
          /\ Goto(w, IF x.status \in Final THEN AlreadyFinal(w) ELSE "failed")
  /\ UNCHANGED <<copy, admitted, queue, server, client, restock, tasks, faults>>

WmsUnreachable(w) ==
  /\ At(w, "unreachable")
  /\ RetryOr(w, SaveFailed(w))
  /\ UNCHANGED <<copy, admitted, server, client, restock, tasks, faults>>

WmsFailed(w) ==
  /\ At(w, "failed")
  /\ SaveFailed(w)
  /\ UNCHANGED <<copy, admitted, queue, server, client, restock, tasks, faults>>

(* dispatch_restock_proposal_task_safely: a failure is only logged.        *)
DispatchRestock(w) ==
  /\ At(w, "restock")
  /\ \/ restock' = restock \cup {Of(w)} /\ UNCHANGED faults
     \/ Fault("send") /\ UNCHANGED restock
  /\ Goto(w, "ack")
  /\ UNCHANGED <<job, copy, admitted, queue, server, client, tasks>>

(* The soft time limit or a lost database connection: an exception, which  *)
(* the handlers meet as they meet any other.                               *)
Handler(pc) ==
  CASE pc \in {"start", "graph"} -> "error"
    [] pc \in {"register", "send"} -> "undo"
    [] pc \in {"phase1", "call", "wait", "admitted"} -> "failed"

Interrupt(w) ==
  /\ worker[w].pc \in {"start", "graph", "register", "send",
                       "phase1", "call", "wait", "admitted"}
  /\ Fault("limit")
  /\ Goto(w, Handler(worker[w].pc))
  /\ Forget(w)
  /\ UNCHANGED <<job, copy, admitted, queue, client, restock, tasks>>

-----------------------------------------------------------------------------
(* apply_inspection_inventory_result.  The job is read first, the copy is  *)
(* locked after that: the status of the job may be out of date by then.    *)
ReadJob(s) ==
  /\ server[s].pc = "read"
  /\ server[s].admin # None => RowFree(server[s].job)
  /\ server' = [server EXCEPT ![s].pc = "admit", ![s].seen = job[server[s].job].status]
  /\ UNCHANGED <<job, copy, admitted, queue, worker, client, restock, tasks, faults>>

(* The answer goes to the caller if it still waits.                        *)
Answer(s, pc) ==
  /\ server' = [server EXCEPT ![s] = ServerIdle]
  /\ IF server[s].caller = None THEN UNCHANGED worker ELSE Goto(server[s].caller, pc)

(* _resolve_condition_grade, and the check of the request before it: a job *)
(* whose logs were cleared for a recheck has no decision to send.          *)
Sound(v) == v \in Grades \cup {"REJECT"}
HasRecord(j) == \E x \in admitted : x.job = j

(* Asking for the record of the job, but not for the inbound job           *)
(* (AdmittedOnce).                                                         *)
SlipAdmissible(s) ==
  /\ Sound(server[s].verdict) /\ server[s].seen = "PROCESSING"
  /\ ~HasRecord(server[s].job)
Admissible(s) ==
  /\ Sound(server[s].verdict) /\ server[s].seen = "PROCESSING"
  /\ ~HasRecord(server[s].job)
  /\ copy[CopyOf[server[s].job]] = None
(* Any earlier record is good enough (FinalMeansAdmitted).                 *)
SlipAdmittedBefore(s) == HasRecord(server[s].job)
AdmittedBefore(s) ==
  /\ Sound(server[s].verdict)
  /\ HasRecord(server[s].job)
  /\ copy[CopyOf[server[s].job]] = server[s].verdict

Admit(s) ==
  LET j == server[s].job
      g == server[s].verdict
  IN
  /\ server[s].pc = "admit"
  /\ Admissible(s)
  /\ \A x \in Servers \ {s} : ~(server[x].pc = "admit" /\ server[x].job = j
                                /\ server[x].admin # None)
  /\ admitted' = admitted \cup {[job |-> j, grade |-> g]}
  /\ copy' = [copy EXCEPT ![CopyOf[j]] = g]
  /\ job' = [job EXCEPT ![j].grade = g]
  /\ Answer(s, "admitted")
  /\ UNCHANGED <<queue, client, restock, tasks, faults>>

ConfirmAdmission(s) ==
  /\ server[s].pc = "admit"
  /\ AdmittedBefore(s)
  /\ Answer(s, "admitted")
  /\ UNCHANGED <<job, copy, admitted, queue, client, restock, tasks, faults>>

(* 409 or 422; an admissible copy is refused when no shelf is free.        *)
RefuseAdmission(s) ==
  /\ server[s].pc = "admit"
  /\ ~AdmittedBefore(s)
  /\ Answer(s, "failed")
  /\ UNCHANGED <<job, copy, admitted, queue, client, restock, tasks, faults>>

(* The API process is lost before it commits.                              *)
LoseServer(s) ==
  /\ server[s].pc # "idle"
  /\ Fault("api")
  /\ Answer(s, "unreachable")
  /\ UNCHANGED <<job, copy, admitted, queue, client, restock, tasks>>

-----------------------------------------------------------------------------
WorkerStep(w) ==
  \/ \E m \in queue : Take(w, m)
  \/ Prepare(w) \/ SaveHitlRequired(w) \/ GraphFails(w)
  \/ \E v \in Verdicts : SaveVerdict(w, v)
  \/ SaveWmsTaskId(w) \/ SendWms(w) \/ SaveDispatchFailed(w) \/ InspectionError(w)
  \/ CheckSavedResult(w) \/ SaveFinal(w) \/ WmsUnreachable(w) \/ WmsFailed(w)
  \/ \E s \in Servers : CallWms(w, s)
  \/ DispatchRestock(w) \/ Ack(w)

ServerStep(s) ==
  ReadJob(s) \/ Admit(s) \/ ConfirmAdmission(s) \/ RefuseAdmission(s)

ClientStep(c) ==
  \/ SaveTaskId(c) \/ SendInspection(c) \/ UndoEnqueue(c) \/ RestoreRecheck(c)
  \/ SendDecision(c) \/ RestoreHitl(c) \/ ClearBackup(c)

Request(c) ==
  \E j \in Jobs :
    \/ CreateInspection(c, j) \/ RecheckInspection(c, j)
    \/ \E a \in Admins, v \in Verdicts : DecideHitl(c, a, j, v)

Next ==
  \/ \E w \in Workers : 
       WorkerStep(w) \/ CrashWorker(w) \/ KillTask(w) \/ Interrupt(w) \/ Timeout(w)
  \/ \E s \in Servers : ServerStep(s) \/ LoseServer(s)
  \/ \E c \in Clients : Request(c) \/ ClientStep(c) \/ LoseClient(c)
  \/ \E a \in Admins, j \in Jobs : StartHitlReview(a, j)
  \/ \E j \in Jobs : RequestRecheck(j)

Spec == Init /\ [][Next]_vars

(* Workers, requests and the API server keep going.                        *)
FairSpec ==
  /\ Spec
  /\ \A w \in Workers : WF_vars(WorkerStep(w))
  /\ \A s \in Servers : WF_vars(ServerStep(s))
  /\ \A c \in Clients : WF_vars(ClientStep(c))

-----------------------------------------------------------------------------
(* What must hold.                                                         *)

(* A copy is admitted to the stock or to the rejected items once, however  *)
(* often and by whomever the WMS is asked: by redelivered tasks, retries,  *)
(* requests that have timed out and several jobs of the same copy.         *)
AdmittedOnce ==
  \A x, y \in admitted : CopyOf[x.job] = CopyOf[y.job] => x = y

(* A job that says APPROVED or REJECTED has its copy in the stock with a   *)
(* grade to sell, or among the rejected items, and names that grade.       *)
FinalMeansAdmitted ==
  \A j \in Jobs : job[j].status \in Final =>
    /\ [job |-> j, grade |-> job[j].grade] \in admitted
    /\ job[j].status = StatusOf(job[j].grade)

(* An inspection that is done stays done.                                  *)
FinalStatusStays ==
  [][\A j \in Jobs : job[j].status \in Final => job'[j].status = job[j].status]_vars

(* What agent_logs says was decided is what was admitted.                  *)
FinalMatchesDecision ==
  \A j \in Jobs : job[j].status \in Final => job[j].logs.verdict = job[j].grade

(* A copy is inspected again only when every earlier inspection of it has  *)
(* failed, and stays failed.                                               *)
OneActiveJob ==
  \A j \in Jobs : job[j].status # "NONE" =>
    \A i \in Earlier(j) : job[i].status = "FAILED"

(* As long as no task and no WMS request is cut short, a failed job has    *)
(* left nothing in the stock.  (A request that is still at work when the   *)
(* retries are used up can admit the copy of a failed job.)                *)
FailedLeavesNoStock ==
  (\A f \in Faults \ {"send"} : faults[f] = 0)
    => \A j \in Jobs : job[j].status = "FAILED" => ~HasRecord(j)

(* The answer of the WMS, once saved, is kept.  It does NOT hold (the      *)
(* request that sent the task may write its own, older logs back) and no   *)
(* run checks it.                                                          *)
WmsResultKept ==
  [][\A j \in Jobs : job[j].logs.result => job'[j].logs.result]_vars

(* Every inspection comes to a verdict, fails or waits for a person, though*)
(* workers are lost while they are at it.                                  *)
InspectionsSettle ==
  \A j \in Jobs : job[j].status \in {"PENDING", "PROCESSING"}
                    ~> job[j].status \notin {"PENDING", "PROCESSING"}

(* A rejection asks for a restock proposal, even if the worker is lost     *)
(* right after the rejection was saved.                                    *)
RejectionsAreRestocked ==
  \A j \in Jobs : job[j].status = "REJECTED" ~> j \in restock
=============================================================================
