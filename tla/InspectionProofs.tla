-------------------------- MODULE InspectionProofs --------------------------
(***************************************************************************)
(* AdmissionInvariant is an invariant of InspectionPipeline, for any       *)
(* number of jobs, copies, workers, requests and faults.  The invariant is *)
(* split into what concerns the jobs, the workers with their requests, the *)
(* queue, and the other clients; each action then shows what it does to    *)
(* each of the four.                                                       *)
(*                                                                         *)
(* The second half is about where a job is.  As long as no worker is lost, *)
(* a step of a worker or of a request works on a job that nothing else is  *)
(* at work on (WorkerPlaces, RequestPlaces): that keeps decisions and      *)
(* final statuses, and the inspections of a copy apart.                    *)
(***************************************************************************)
EXTENDS InspectionInvariant, FiniteSetTheorems, WellFoundedInduction, TLAPS

JobPart ==
  /\ job \in [Jobs -> JobRow]
  /\ FinalMeansAdmitted

AdmissionPart ==
  /\ copy \in [Copies -> Grades \cup {"REJECT", None}]
  /\ admitted \in SUBSET [job : Jobs, grade : Grades \cup {"REJECT"}]
  /\ GradesAgree /\ AdmittedOnce

WorkPart ==
  /\ worker \in [Workers -> WorkerState]
  /\ server \in [Servers -> ServerState]
  /\ WorkersAtWork /\ ServersAtWork
  /\ CallersWait /\ AnswersAreTrue

QueuePart == queue \in SUBSET Message /\ IsFiniteSet(queue)

ClientPart ==
  /\ client \in [Clients -> ClientState]
  /\ ClientsAtWork

CountersPart ==
  /\ restock \in SUBSET Jobs
  /\ tasks \in Nat
  /\ faults \in [Faults -> Nat] /\ \A f \in Faults : faults[f] <= FaultLimit[f]

(* The parts are the invariant.                                            *)
LEMMA Parts ==
  AdmissionInvariant <=>
    JobPart /\ AdmissionPart /\ WorkPart /\ QueuePart /\ ClientPart /\ CountersPart
  BY DEF AdmissionInvariant, TypeOK, JobPart, AdmissionPart, WorkPart, QueuePart,
         ClientPart, CountersPart

(* The same of the next state.                                             *)
LEMMA PartsPrime ==
  AdmissionInvariant' <=>
    JobPart' /\ AdmissionPart' /\ WorkPart' /\ QueuePart' /\ ClientPart' /\ CountersPart'
  BY DEF AdmissionInvariant, TypeOK, JobPart, AdmissionPart, WorkPart, QueuePart,
         ClientPart, CountersPart

-----------------------------------------------------------------------------
(* What a step leaves alone stays as it is.                                *)

(* A step that touches no job and admits nothing.                          *)
LEMMA JobsKept ==
  ASSUME JobPart, UNCHANGED <<job, admitted>>
  PROVE  JobPart'
  BY DEF JobPart, FinalMeansAdmitted

(* A step that admits nothing.                                             *)
LEMMA AdmissionsKept ==
  ASSUME AdmissionPart, UNCHANGED <<copy, admitted>>
  PROVE  AdmissionPart'
  BY DEF AdmissionPart, GradesAgree, AdmittedOnce

(* A step of neither worker nor WMS request.                               *)
LEMMA WorkKept ==
  ASSUME WorkPart, UNCHANGED <<worker, server, admitted>>
  PROVE  WorkPart'
  BY DEF WorkPart, WorkersAtWork, ServersAtWork, CallersWait, AnswersAreTrue, At, Of

(* A step that neither sends nor acknowledges.                             *)
LEMMA QueueKept ==
  ASSUME QueuePart, UNCHANGED queue
  PROVE  QueuePart'
  BY DEF QueuePart

(* A step of no API request.                                               *)
LEMMA ClientsKept ==
  ASSUME ClientPart, UNCHANGED client
  PROVE  ClientPart'
  BY DEF ClientPart, ClientsAtWork

(* A step without fault, task id or restock message.                       *)
LEMMA CountersKept ==
  ASSUME CountersPart, UNCHANGED <<restock, tasks, faults>>
  PROVE  CountersPart'
  BY DEF CountersPart

-----------------------------------------------------------------------------
(* What the building blocks of the actions do.                             *)

(* A job that is saved may leave a final status, but not enter one.        *)
LEMMA JobSaved ==
  ASSUME JobPart, UNCHANGED admitted,
         NEW j \in Jobs, NEW x \in JobRow, SaveJob(j, x),
         x.status \in Final => x.status = job[j].status /\ x.grade = job[j].grade
  PROVE  JobPart'
  <1>1. job' \in [Jobs -> JobRow]
    BY DEF JobPart, SaveJob
  <1>2. ASSUME NEW i \in Jobs, job'[i].status \in Final
        PROVE  /\ [job |-> i, grade |-> job'[i].grade] \in admitted'
               /\ job'[i].status = StatusOf(job'[i].grade)
    <2>1. job'[i].status = job[i].status /\ job'[i].grade = job[i].grade
      <3>1. CASE i = j
        BY <1>2, <3>1 DEF JobPart, SaveJob
      <3>2. CASE i # j
        BY <1>2, <3>2 DEF JobPart, SaveJob
      <3>. QED  BY <3>1, <3>2
    <2>. QED  BY <2>1, <1>2 DEF JobPart, FinalMeansAdmitted
  <1>. QED  BY <1>1, <1>2 DEF JobPart, FinalMeansAdmitted

(* A worker goes to a state in which it waits for no answer and relies on  *)
(* none; a request of its own is given up.                                 *)
LEMMA WorkerMoved ==
  ASSUME WorkPart, UNCHANGED admitted,
         NEW w \in Workers, NEW x \in WorkerState,
         worker' = [worker EXCEPT ![w] = x],
         x.pc \notin {"wait", "admitted"},
         x.pc # "idle" => x.msg \in Message,
         x.pc = "send" => x.wms \in Nat,
         \/ UNCHANGED server /\ ~At(w, "wait")
         \/ Forget(w)
  PROVE  WorkPart'
  <1>. /\ worker \in [Workers -> WorkerState]
       /\ server \in [Servers -> ServerState]
    BY DEF WorkPart
  <1>1. worker' \in [Workers -> WorkerState]
    OBVIOUS
  <1>2. \A v \in Workers : worker'[v] = IF v = w THEN x ELSE worker[v]
    OBVIOUS
  <1>3. /\ server' \in [Servers -> ServerState]
        /\ \A s \in Servers :
             /\ server'[s].pc = server[s].pc /\ server'[s].job = server[s].job
             /\ server'[s].verdict = server[s].verdict
             /\ server'[s].caller # None =>
                  server'[s].caller = server[s].caller /\ server[s].caller # w
    <2>1. CASE UNCHANGED server /\ ~At(w, "wait")
      BY <2>1 DEF WorkPart, CallersWait
    <2>2. CASE Forget(w)
      <3>1. \A s \in Servers : [server[s] EXCEPT !.caller = None] \in ServerState
        BY DEF ServerState
      <3>2. \A s \in Servers : server'[s] =
              IF server[s].caller = w THEN [server[s] EXCEPT !.caller = None] ELSE server[s]
        BY <2>2 DEF Forget
      <3>3. server' \in [Servers -> ServerState]
        BY <2>2, <3>1 DEF Forget
      <3>. QED  BY <3>2, <3>3 DEF ServerState
    <2>. QED  BY <2>1, <2>2
  <1>4. WorkersAtWork'
    BY <1>2 DEF WorkPart, WorkersAtWork, At
  <1>5. ServersAtWork'
    BY <1>3 DEF WorkPart, ServersAtWork
  <1>6. AnswersAreTrue'
    BY <1>2 DEF WorkPart, AnswersAreTrue, At, Of
  <1>7. CallersWait'
    <2>. SUFFICES ASSUME NEW s \in Servers, server'[s].caller # None
                  PROVE  /\ worker'[server'[s].caller].pc = "wait"
                         /\ worker'[server'[s].caller].msg.job = server'[s].job
                         /\ worker'[server'[s].caller].verdict = server'[s].verdict
                         /\ \A t \in Servers \ {s} : server'[t].caller # server'[s].caller
      BY DEF CallersWait, At, Of
    <2>1. server'[s].caller = server[s].caller /\ server[s].caller \in Workers \ {w}
      BY <1>3 DEF ServerState
    <2>2. /\ worker[server[s].caller].pc = "wait"
          /\ worker[server[s].caller].msg.job = server[s].job
          /\ worker[server[s].caller].verdict = server[s].verdict
          /\ \A t \in Servers \ {s} : server[t].caller # server[s].caller
      BY <2>1, NoneIsNoValue DEF WorkPart, CallersWait, At, Of
    <2>3. worker'[server[s].caller] = worker[server[s].caller]
      BY <1>2, <2>1
    <2>4. \A t \in Servers \ {s} : server'[t].caller # server'[s].caller
      BY <1>3, <2>1, <2>2
    <2>. QED  BY <2>1, <2>2, <2>3, <2>4, <1>3
  <1>. QED  BY <1>1, <1>3, <1>4, <1>5, <1>6, <1>7 DEF WorkPart

(* From one of its states to another, in the middle of its work.           *)
LEMMA WorkerGoes ==
  ASSUME WorkPart, UNCHANGED admitted, NEW w \in Workers, NEW pc,
         ~At(w, "idle"), Goto(w, pc),
         pc \in {"start", "graph", "register", "undo", "error", "phase1", "call",
                 "unreachable", "failed", "restock", "ack"},
         \/ UNCHANGED server /\ ~At(w, "wait")
         \/ Forget(w)
  PROVE  WorkPart'
  <1>. DEFINE x == [worker[w] EXCEPT !.pc = pc]
  <1>1. x \in WorkerState /\ x.pc = pc /\ x.msg \in Message
    BY DEF WorkPart, WorkerState, WorkersAtWork, At
  <1>2. worker' = [worker EXCEPT ![w] = x]
    BY DEF Goto
  <1>. QED  BY <1>1, <1>2, WorkerMoved

(* The job of a worker that is at work.                                    *)
LEMMA WorkersJob ==
  ASSUME WorkPart, NEW w \in Workers, ~At(w, "idle")
  PROVE  /\ worker[w] \in WorkerState /\ worker[w].msg \in Message
         /\ Of(w) \in Jobs /\ Id(w) \in Nat
  BY DEF WorkPart, WorkersAtWork, At, Of, Id, Message

(* A message that is put on the queue.                                     *)
LEMMA QueuePut ==
  ASSUME QueuePart, NEW m \in Message, Put(m)
  PROVE  QueuePart'
  <1>1. Cardinality(queue) \in Nat
    BY FS_CardinalityType DEF QueuePart
  <1>2. PICK n \in 0..Cardinality(queue) : queue' = queue \cup {[m EXCEPT !.copy = n]}
    BY DEF Put
  <1>3. [m EXCEPT !.copy = n] \in Message
    BY <1>1 DEF Message
  <1>4. IsFiniteSet(queue')
    BY <1>2, FS_AddElement DEF QueuePart
  <1>. QED  BY <1>2, <1>3, <1>4 DEF QueuePart

(* The first message of a task.                                            *)
LEMMA QueueSubmit ==
  ASSUME QueuePart, NEW kind \in {"inspection", "wms"}, NEW t \in Nat,
         NEW j \in Jobs, Submit(kind, t, j)
  PROVE  QueuePart'
  BY QueuePut DEF Submit, Message

(* A message that is acknowledged.                                         *)
LEMMA QueueShrinks ==
  ASSUME QueuePart, NEW m, queue' = queue \ {m}
  PROVE  QueuePart'
  BY FS_RemoveElement DEF QueuePart

(* A fault stays within its limit.                                         *)
LEMMA FaultCounted ==
  ASSUME CountersPart, UNCHANGED <<restock, tasks>>, NEW f \in Faults, Fault(f)
  PROVE  CountersPart'
  <1>1. faults[f] < FaultLimit[f] /\ faults' = [faults EXCEPT ![f] = faults[f] + 1]
    BY DEF Fault
  <1>2. /\ faults \in [Faults -> Nat] /\ faults[f] \in Nat /\ FaultLimit[f] \in Nat
        /\ \A e \in Faults : faults[e] <= FaultLimit[e]
    BY Bounds DEF CountersPart
  <1>3. \A e \in Faults : faults'[e] = IF e = f THEN faults[f] + 1 ELSE faults[e]
    BY <1>1, <1>2
  <1>4. faults' \in [Faults -> Nat] /\ \A e \in Faults : faults'[e] <= FaultLimit[e]
    BY <1>1, <1>2, <1>3
  <1>. QED  BY <1>4 DEF CountersPart

(* A task id is drawn.                                                     *)
LEMMA TaskDrawn ==
  ASSUME CountersPart, UNCHANGED <<restock, faults>>, DrawTask
  PROVE  CountersPart' /\ Fresh \in Nat
  BY DEF CountersPart, DrawTask, Fresh

(* An API request goes to any state that has what it needs.                *)
LEMMA ClientMoved ==
  ASSUME ClientPart, NEW c \in Clients, NEW x \in ClientState,
         client' = [client EXCEPT ![c] = x],
         x.pc # "idle" => x.job \in Jobs,
         x.pc \in {"send", "resend", "hitlSend"} => x.task \in Nat
  PROVE  ClientPart'
  <1>1. /\ client' \in [Clients -> ClientState]
        /\ \A d \in Clients : client'[d] = IF d = c THEN x ELSE client[d]
    BY DEF ClientPart
  <1>. QED  BY <1>1 DEF ClientPart, ClientsAtWork

(* An API request ends.                                                    *)
LEMMA ClientDone ==
  ASSUME ClientPart, NEW c \in Clients, Done(c)
  PROVE  ClientPart'
  <1>1. ClientIdle \in ClientState /\ ClientIdle.pc = "idle"
    BY DEF ClientIdle, ClientState, NoLogs, Logs
  <1>. QED  BY <1>1, ClientMoved DEF Done

(* An API request goes on after a message was sent or refused.             *)
LEMMA ClientProceeds ==
  ASSUME ClientPart, NEW c \in Clients, client[c].pc # "idle",
         NEW pc \in {"undo", "reundo", "restore", "hitlRestore", "hitlClear"},
         Proceed(c, pc)
  PROVE  ClientPart'
  <1>. DEFINE x == [client[c] EXCEPT !.pc = pc]
  <1>1. x \in ClientState /\ x.pc = pc /\ x.job \in Jobs
    BY DEF ClientPart, ClientState, ClientsAtWork
  <1>. QED  BY <1>1, ClientMoved DEF Proceed

(* An API request begins, with its first commit.                           *)
LEMMA ClientServes ==
  ASSUME ClientPart, NEW c \in Clients, NEW j \in Jobs, NEW logs \in Logs,
         NEW pc, NEW t, Serve(c, pc, j, t, logs),
         \/ pc \in {"enqueue", "reenqueue"} /\ t = None
         \/ pc = "hitlSend" /\ t \in Nat
  PROVE  ClientPart'
  <1>. DEFINE x == [pc |-> pc, job |-> j, task |-> t, logs |-> logs]
  <1>1. x \in ClientState
    BY DEF ClientState
  <1>. QED  BY <1>1, ClientMoved DEF Serve

(* The job of a client that is at work.                                    *)
LEMMA ClientsJob ==
  ASSUME JobPart, ClientPart, NEW c \in Clients, client[c].pc # "idle"
  PROVE  /\ client[c] \in ClientState /\ client[c].logs \in Logs
         /\ client[c].job \in Jobs /\ MyJob(c) \in JobRow
  BY DEF JobPart, ClientPart, ClientsAtWork, ClientState, MyJob

-----------------------------------------------------------------------------
(* The actions of the API handlers.                                        *)

(* A new job is not final.                                                 *)
LEMMA CreateInspectionStep ==
  ASSUME AdmissionInvariant, NEW c \in Clients, NEW j \in Jobs, CreateInspection(c, j)
  PROVE  AdmissionInvariant'
  <1>1. /\ JobPart /\ AdmissionPart /\ WorkPart /\ QueuePart
        /\ ClientPart /\ CountersPart
    BY Parts
  <1>2. UNCHANGED <<copy, admitted, queue, worker, server, restock, tasks, faults>>
    BY DEF CreateInspection
  <1>3. JobPart'
    <2>. DEFINE x == [NoJob EXCEPT !.status = "PENDING"]
    <2>1. SaveJob(j, x)
      BY DEF CreateInspection
    <2>2. x \in JobRow /\ x.status \notin Final
      BY DEF JobRow, NoJob, NoLogs, Logs, Statuses, Final
    <2>. QED  BY <1>1, <1>2, <2>1, <2>2, JobSaved
  <1>4. ClientPart'
    <2>1. NoLogs \in Logs /\ Serve(c, "enqueue", j, None, NoLogs)
      BY DEF CreateInspection, NoLogs, Logs
    <2>. QED  BY <1>1, <2>1, ClientServes
  <1>. QED  BY <1>1, <1>2, <1>3, <1>4, AdmissionsKept, WorkKept, QueueKept,
               CountersKept, PartsPrime

(* A job with new images is not final.                                     *)
LEMMA RecheckInspectionStep ==
  ASSUME AdmissionInvariant, NEW c \in Clients, NEW j \in Jobs, RecheckInspection(c, j)
  PROVE  AdmissionInvariant'
  <1>1. /\ JobPart /\ AdmissionPart /\ WorkPart /\ QueuePart
        /\ ClientPart /\ CountersPart
    BY Parts
  <1>2. UNCHANGED <<copy, admitted, queue, worker, server, restock, tasks, faults>>
    BY DEF RecheckInspection
  <1>3. job[j] \in JobRow /\ job[j].logs \in Logs
    BY <1>1 DEF JobPart, JobRow
  <1>4. JobPart'
    <2>. DEFINE x == [job[j] EXCEPT !.status = "PENDING", !.task = None]
    <2>1. SaveJob(j, x)
      BY DEF RecheckInspection
    <2>2. x \in JobRow /\ x.status \notin Final
      BY <1>3 DEF JobRow, Statuses, Final
    <2>. QED  BY <1>1, <1>2, <2>1, <2>2, JobSaved
  <1>5. ClientPart'
    <2>1. Serve(c, "reenqueue", j, None, job[j].logs)
      BY DEF RecheckInspection
    <2>. QED  BY <1>1, <1>3, <2>1, ClientServes
  <1>. QED  BY <1>1, <1>2, <1>4, <1>5, AdmissionsKept, WorkKept, QueueKept,
               CountersKept, PartsPrime

(* The task id and the logs do not touch status and grade.                 *)
LEMMA SaveTaskIdStep ==
  ASSUME AdmissionInvariant, NEW c \in Clients, SaveTaskId(c)
  PROVE  AdmissionInvariant'
  <1>1. /\ JobPart /\ AdmissionPart /\ WorkPart /\ QueuePart
        /\ ClientPart /\ CountersPart
    BY Parts
  <1>2. UNCHANGED <<copy, admitted, queue, worker, server, restock, faults>>
    BY DEF SaveTaskId
  <1>3. /\ client[c] \in ClientState /\ client[c].logs \in Logs
        /\ client[c].job \in Jobs /\ MyJob(c) \in JobRow
    BY <1>1, ClientsJob DEF SaveTaskId
  <1>4. CountersPart' /\ Fresh \in Nat
    BY <1>1, <1>2, TaskDrawn DEF SaveTaskId
  <1>5. JobPart'
    <2>. DEFINE x == [MyJob(c) EXCEPT !.task = Fresh, !.logs = client[c].logs]
    <2>1. SaveJob(client[c].job, x)
      BY DEF SaveTaskId
    <2>2. x \in JobRow /\ x.status = MyJob(c).status /\ x.grade = MyJob(c).grade
      BY <1>3, <1>4 DEF JobRow
    <2>. QED  BY <1>1, <1>2, <1>3, <2>1, <2>2, JobSaved DEF MyJob
  <1>6. ClientPart'
    <2>. DEFINE x == [client[c] EXCEPT !.task = Fresh,
                        !.pc = IF client[c].pc = "enqueue" THEN "send" ELSE "resend"]
    <2>1. client' = [client EXCEPT ![c] = x]
      BY <1>1 DEF SaveTaskId, ClientPart
    <2>2. x \in ClientState /\ x.job \in Jobs /\ x.task \in Nat
      BY <1>3, <1>4 DEF ClientState
    <2>. QED  BY <1>1, <2>1, <2>2, ClientMoved
  <1>. QED  BY <1>1, <1>2, <1>4, <1>5, <1>6, AdmissionsKept, WorkKept, QueueKept,
               PartsPrime

(* The message of an inspection, accepted or refused.                      *)
LEMMA SendInspectionStep ==
  ASSUME AdmissionInvariant, NEW c \in Clients, SendInspection(c)
  PROVE  AdmissionInvariant'
  <1>1. /\ JobPart /\ AdmissionPart /\ WorkPart /\ QueuePart
        /\ ClientPart /\ CountersPart
    BY Parts
  <1>2. UNCHANGED <<job, copy, admitted, worker, server, restock, tasks>>
    BY DEF SendInspection
  <1>3. client[c].job \in Jobs /\ client[c].task \in Nat /\ client[c].pc # "idle"
    BY <1>1 DEF SendInspection, ClientPart, ClientsAtWork
  <1>4. QueuePart' /\ ClientPart' /\ CountersPart'
    <2>1. CASE /\ Submit("inspection", client[c].task, client[c].job)
               /\ Done(c) /\ UNCHANGED faults
      BY <1>1, <1>2, <1>3, <2>1, QueueSubmit, ClientDone, CountersKept
    <2>2. CASE /\ Fault("send")
               /\ Proceed(c, IF client[c].pc = "send" THEN "undo" ELSE "reundo")
               /\ UNCHANGED queue
      BY <1>1, <1>2, <1>3, <2>2, QueueKept, ClientProceeds, FaultCounted DEF Faults
    <2>. QED  BY <2>1, <2>2 DEF SendInspection
  <1>. QED  BY <1>1, <1>2, <1>4, JobsKept, AdmissionsKept, WorkKept, PartsPrime

(* A job whose message was refused has failed.                             *)
LEMMA UndoEnqueueStep ==
  ASSUME AdmissionInvariant, NEW c \in Clients, UndoEnqueue(c)
  PROVE  AdmissionInvariant'
  <1>1. /\ JobPart /\ AdmissionPart /\ WorkPart /\ QueuePart
        /\ ClientPart /\ CountersPart
    BY Parts
  <1>2. /\ client[c].pc # "idle"
        /\ UNCHANGED <<copy, admitted, queue, worker, server, restock, tasks, faults>>
    BY DEF UndoEnqueue
  <1>3. client[c].job \in Jobs /\ MyJob(c) \in JobRow
    BY <1>1, <1>2, ClientsJob
  <1>4. JobPart'
    <2>. DEFINE x == [MyJob(c) EXCEPT !.status = "FAILED", !.task = None]
    <2>1. SaveJob(client[c].job, x)
      BY DEF UndoEnqueue
    <2>2. x \in JobRow /\ x.status \notin Final
      BY <1>3 DEF JobRow, Statuses, Final
    <2>. QED  BY <1>1, <1>2, <1>3, <2>1, <2>2, JobSaved
  <1>5. ClientPart'
    BY <1>1, <1>2, ClientDone, ClientProceeds DEF UndoEnqueue
  <1>. QED  BY <1>1, <1>2, <1>4, <1>5, AdmissionsKept, WorkKept, QueueKept,
               CountersKept, PartsPrime

(* A job that waits for new images is not final.                           *)
LEMMA RestoreRecheckStep ==
  ASSUME AdmissionInvariant, NEW c \in Clients, RestoreRecheck(c)
  PROVE  AdmissionInvariant'
  <1>1. /\ JobPart /\ AdmissionPart /\ WorkPart /\ QueuePart
        /\ ClientPart /\ CountersPart
    BY Parts
  <1>2. /\ client[c].pc # "idle"
        /\ UNCHANGED <<copy, admitted, queue, worker, server, restock, tasks, faults>>
    BY DEF RestoreRecheck
  <1>3. client[c].job \in Jobs /\ MyJob(c) \in JobRow
    BY <1>1, <1>2, ClientsJob
  <1>4. JobPart'
    <2>. DEFINE x == [MyJob(c) EXCEPT !.status = "RECHECK_REQUIRED", !.task = None]
    <2>1. SaveJob(client[c].job, x)
      BY DEF RestoreRecheck
    <2>2. x \in JobRow /\ x.status \notin Final
      BY <1>3 DEF JobRow, Statuses, Final
    <2>. QED  BY <1>1, <1>2, <1>3, <2>1, <2>2, JobSaved
  <1>5. ClientPart'
    BY <1>1, ClientDone DEF RestoreRecheck
  <1>. QED  BY <1>1, <1>2, <1>4, <1>5, AdmissionsKept, WorkKept, QueueKept,
               CountersKept, PartsPrime

(* A claim touches neither status nor grade.                               *)
LEMMA StartHitlReviewStep ==
  ASSUME AdmissionInvariant, NEW a \in Admins, NEW j \in Jobs, StartHitlReview(a, j)
  PROVE  AdmissionInvariant'
  <1>1. /\ JobPart /\ AdmissionPart /\ WorkPart /\ QueuePart
        /\ ClientPart /\ CountersPart
    BY Parts
  <1>2. UNCHANGED <<copy, admitted, queue, worker, server, client, restock, tasks, faults>>
    BY DEF StartHitlReview
  <1>3. JobPart'
    <2>. DEFINE x == [job[j] EXCEPT !.reviewer = a]
    <2>1. SaveJob(j, x)
      BY DEF StartHitlReview
    <2>2. x \in JobRow /\ x.status = job[j].status /\ x.grade = job[j].grade
      BY <1>1 DEF JobPart, JobRow
    <2>. QED  BY <1>1, <1>2, <2>1, <2>2, JobSaved
  <1>. QED  BY <1>1, <1>2, <1>3, AdmissionsKept, WorkKept, QueueKept, ClientsKept,
               CountersKept, PartsPrime

(* A decision makes a job PROCESSING, not final.                           *)
LEMMA DecideHitlStep ==
  ASSUME AdmissionInvariant, NEW c \in Clients, NEW a \in Admins, NEW j \in Jobs,
         NEW v \in Verdicts, DecideHitl(c, a, j, v)
  PROVE  AdmissionInvariant'
  <1>. DEFINE logs == [job[j].logs EXCEPT !.verdict = v, !.wms = Fresh, !.admin = a]
              x == [job[j] EXCEPT !.status = "PROCESSING", !.task = Fresh,
                      !.logs = logs,
                      !.backup = [task |-> job[j].task, logs |-> job[j].logs]]
  <1>1. /\ JobPart /\ AdmissionPart /\ WorkPart /\ QueuePart
        /\ ClientPart /\ CountersPart
    BY Parts
  <1>2. UNCHANGED <<copy, admitted, queue, worker, server, restock, faults>>
    BY DEF DecideHitl
  <1>3. CountersPart' /\ Fresh \in Nat
    BY <1>1, <1>2, TaskDrawn DEF DecideHitl
  <1>4. /\ job[j] \in JobRow /\ job[j].logs \in Logs
        /\ job[j].task \in Nat \cup {None}
    BY <1>1 DEF JobPart, JobRow
  <1>5. logs \in Logs
    BY <1>3, <1>4 DEF Logs
  <1>6. JobPart'
    <2>1. SaveJob(j, x)
      BY DEF DecideHitl
    <2>2. x \in JobRow /\ x.status \notin Final
      BY <1>3, <1>4, <1>5 DEF JobRow, Statuses, Final
    <2>. QED  BY <1>1, <1>2, <2>1, <2>2, JobSaved
  <1>7. ClientPart'
    <2>1. Serve(c, "hitlSend", j, Fresh, logs)
      BY DEF DecideHitl
    <2>. QED  BY <1>1, <1>3, <1>5, <2>1, ClientServes
  <1>. QED  BY <1>1, <1>2, <1>3, <1>6, <1>7, AdmissionsKept, WorkKept, QueueKept,
               PartsPrime

(* A request for new images makes no job final.                            *)
LEMMA RequestRecheckStep ==
  ASSUME AdmissionInvariant, NEW j \in Jobs, RequestRecheck(j)
  PROVE  AdmissionInvariant'
  <1>1. /\ JobPart /\ AdmissionPart /\ WorkPart /\ QueuePart
        /\ ClientPart /\ CountersPart
    BY Parts
  <1>2. UNCHANGED <<copy, admitted, queue, worker, server, client, restock, tasks, faults>>
    BY DEF RequestRecheck
  <1>3. JobPart'
    <2>. DEFINE logs == [NoLogs EXCEPT !.result = job[j].logs.result]
                x == [job[j] EXCEPT !.status = "RECHECK_REQUIRED", !.task = None,
                        !.logs = logs, !.backup = None, !.reviewer = None]
    <2>1. SaveJob(j, x)
      BY DEF RequestRecheck
    <2>2. logs \in Logs
      BY <1>1 DEF JobPart, JobRow, Logs, NoLogs
    <2>3. x \in JobRow /\ x.status \notin Final
      BY <1>1, <2>2 DEF JobPart, JobRow, Statuses, Final
    <2>. QED  BY <1>1, <1>2, <2>1, <2>3, JobSaved
  <1>. QED  BY <1>1, <1>2, <1>3, AdmissionsKept, WorkKept, QueueKept, ClientsKept,
               CountersKept, PartsPrime

(* The message of a decision, accepted or refused.                         *)
LEMMA SendDecisionStep ==
  ASSUME AdmissionInvariant, NEW c \in Clients, SendDecision(c)
  PROVE  AdmissionInvariant'
  <1>1. /\ JobPart /\ AdmissionPart /\ WorkPart /\ QueuePart
        /\ ClientPart /\ CountersPart
    BY Parts
  <1>2. UNCHANGED <<job, copy, admitted, worker, server, restock, tasks>>
    BY DEF SendDecision
  <1>3. client[c].job \in Jobs /\ client[c].task \in Nat /\ client[c].pc # "idle"
    BY <1>1 DEF SendDecision, ClientPart, ClientsAtWork
  <1>4. QueuePart' /\ ClientPart' /\ CountersPart'
    <2>1. CASE /\ Submit("wms", client[c].task, client[c].job)
               /\ Proceed(c, "hitlClear") /\ UNCHANGED faults
      BY <1>1, <1>2, <1>3, <2>1, QueueSubmit, ClientProceeds, CountersKept
    <2>2. CASE Fault("send") /\ Proceed(c, "hitlRestore") /\ UNCHANGED queue
      BY <1>1, <1>2, <1>3, <2>2, QueueKept, ClientProceeds, FaultCounted DEF Faults
    <2>. QED  BY <2>1, <2>2 DEF SendDecision
  <1>. QED  BY <1>1, <1>2, <1>4, JobsKept, AdmissionsKept, WorkKept, PartsPrime

(* A decision that is undone leaves the job to the admin.                  *)
LEMMA RestoreHitlStep ==
  ASSUME AdmissionInvariant, NEW c \in Clients, RestoreHitl(c)
  PROVE  AdmissionInvariant'
  <1>. DEFINE j == client[c].job
              x == [job[j] EXCEPT !.status = "HITL_REQUIRED", !.backup = None,
                      !.task = job[j].backup.task, !.logs = job[j].backup.logs]
  <1>1. /\ JobPart /\ AdmissionPart /\ WorkPart /\ QueuePart
        /\ ClientPart /\ CountersPart
    BY Parts
  <1>2. /\ client[c].pc # "idle"
        /\ UNCHANGED <<copy, admitted, queue, worker, server, restock, tasks, faults>>
    BY DEF RestoreHitl
  <1>3. j \in Jobs /\ job[j] \in JobRow
    BY <1>1, <1>2, ClientsJob DEF MyJob
  <1>4. JobPart'
    <2>1. CASE job[j].backup # None /\ SaveJob(j, x)
      <3>1. x \in JobRow /\ x.status \notin Final
        BY <1>3, <2>1 DEF JobRow, Statuses, Final
      <3>. QED  BY <1>1, <1>2, <1>3, <2>1, <3>1, JobSaved
    <2>2. CASE KeepJob(j)
      BY <1>1, <1>2, <2>2, JobsKept DEF KeepJob
    <2>. QED  BY <2>1, <2>2 DEF RestoreHitl
  <1>5. ClientPart'
    BY <1>1, ClientDone DEF RestoreHitl
  <1>. QED  BY <1>1, <1>2, <1>4, <1>5, AdmissionsKept, WorkKept, QueueKept,
               CountersKept, PartsPrime

(* Old logs are written back, but status and grade are not.                *)
LEMMA ClearBackupStep ==
  ASSUME AdmissionInvariant, NEW c \in Clients, ClearBackup(c)
  PROVE  AdmissionInvariant'
  <1>1. /\ JobPart /\ AdmissionPart /\ WorkPart /\ QueuePart
        /\ ClientPart /\ CountersPart
    BY Parts
  <1>2. /\ client[c].pc # "idle"
        /\ UNCHANGED <<copy, admitted, queue, worker, server, restock, tasks, faults>>
    BY DEF ClearBackup
  <1>3. client[c].job \in Jobs /\ MyJob(c) \in JobRow /\ client[c].logs \in Logs
    BY <1>1, <1>2, ClientsJob
  <1>4. JobPart'
    <2>. DEFINE x == [MyJob(c) EXCEPT !.logs = client[c].logs, !.backup = None]
    <2>1. SaveJob(client[c].job, x)
      BY DEF ClearBackup
    <2>2. x \in JobRow /\ x.status = MyJob(c).status /\ x.grade = MyJob(c).grade
      BY <1>3 DEF JobRow
    <2>. QED  BY <1>1, <1>2, <1>3, <2>1, <2>2, JobSaved DEF MyJob
  <1>5. ClientPart'
    BY <1>1, ClientDone DEF ClearBackup
  <1>. QED  BY <1>1, <1>2, <1>4, <1>5, AdmissionsKept, WorkKept, QueueKept,
               CountersKept, PartsPrime

(* A lost API process leaves what it has committed.                        *)
LEMMA LoseClientStep ==
  ASSUME AdmissionInvariant, NEW c \in Clients, LoseClient(c)
  PROVE  AdmissionInvariant'
  <1>1. /\ JobPart /\ AdmissionPart /\ WorkPart /\ QueuePart
        /\ ClientPart /\ CountersPart
    BY Parts
  <1>2. UNCHANGED <<job, copy, admitted, queue, worker, server, restock, tasks>>
    BY DEF LoseClient
  <1>3. ClientPart' /\ CountersPart'
    BY <1>1, <1>2, ClientDone, FaultCounted DEF LoseClient, Faults
  <1>. QED  BY <1>1, <1>2, <1>3, JobsKept, AdmissionsKept, WorkKept, QueueKept,
               PartsPrime

-----------------------------------------------------------------------------
(* The actions of the Celery workers.                                      *)

(* A failure is saved unless the job is final.                             *)
LEMMA FailureSaved ==
  ASSUME JobPart, WorkPart, NEW w \in Workers, ~At(w, "idle"), ~At(w, "wait"),
         SaveFailed(w), UNCHANGED <<server, admitted>>
  PROVE  JobPart' /\ WorkPart'
  <1>. DEFINE x == [job[Of(w)] EXCEPT !.status = "FAILED"]
  <1>1. Of(w) \in Jobs /\ job[Of(w)] \in JobRow
    BY WorkersJob DEF JobPart
  <1>2. JobPart'
    <2>1. CASE KeepJob(Of(w))
      BY <2>1, JobsKept DEF KeepJob
    <2>2. CASE SaveJob(Of(w), x)
      <3>1. x \in JobRow /\ x.status \notin Final
        BY <1>1 DEF JobRow, Statuses, Final
      <3>. QED  BY <1>1, <2>2, <3>1, JobSaved
    <2>. QED  BY <2>1, <2>2 DEF SaveFailed
  <1>3. WorkPart'
    BY WorkerGoes DEF SaveFailed
  <1>. QED  BY <1>2, <1>3

(* A retry puts a message of the same task on the queue.                   *)
LEMMA Retried ==
  ASSUME JobPart, WorkPart, QueuePart, NEW w \in Workers, ~At(w, "idle"),
         ~At(w, "wait"), RetryOr(w, SaveFailed(w)), UNCHANGED <<server, admitted>>
  PROVE  JobPart' /\ WorkPart' /\ QueuePart'
  <1>. DEFINE m == [worker[w].msg EXCEPT !.try = @ + 1]
  <1>1. CASE Put(m) /\ Goto(w, "ack") /\ UNCHANGED job
    <2>1. m \in Message
      BY WorkersJob DEF Message
    <2>. QED  BY <1>1, <2>1, QueuePut, WorkerGoes, JobsKept
  <1>2. CASE SaveFailed(w) /\ UNCHANGED queue
    BY <1>2, FailureSaved, QueueKept
  <1>. QED  BY <1>1, <1>2 DEF RetryOr

(* A worker that takes a message has a job to work on.                     *)
LEMMA TakeStep ==
  ASSUME AdmissionInvariant, NEW w \in Workers, NEW m \in queue, Take(w, m)
  PROVE  AdmissionInvariant'
  <1>1. /\ JobPart /\ AdmissionPart /\ WorkPart /\ QueuePart
        /\ ClientPart /\ CountersPart
    BY Parts
  <1>2. UNCHANGED <<job, copy, admitted, queue, server, client, restock, tasks, faults>>
    BY DEF Take, Deliver
  <1>3. WorkPart'
    <2>. DEFINE x == [worker[w] EXCEPT !.msg = m,
                        !.pc = IF m.kind = "wms" THEN "phase1" ELSE "start"]
    <2>1. m \in Message /\ worker[w] \in WorkerState
      BY <1>1 DEF QueuePart, WorkPart
    <2>2. x \in WorkerState /\ x.pc \in {"phase1", "start"} /\ x.msg = m
      BY <2>1 DEF WorkerState
    <2>3. worker' = [worker EXCEPT ![w] = x] /\ ~At(w, "wait")
      BY DEF Take, At
    <2>. QED  BY <1>1, <1>2, <2>1, <2>2, <2>3, WorkerMoved
  <1>. QED  BY <1>1, <1>2, <1>3, JobsKept, AdmissionsKept, QueueKept, ClientsKept,
               CountersKept, PartsPrime

(* An idle worker is a worker.                                             *)
LEMMA IdleWorker == WorkerIdle \in WorkerState /\ WorkerIdle.pc = "idle"
  BY DEF WorkerIdle, WorkerState

(* The task ends and its message goes.                                     *)
LEMMA AckStep ==
  ASSUME AdmissionInvariant, NEW w \in Workers, Ack(w)
  PROVE  AdmissionInvariant'
  <1>1. /\ JobPart /\ AdmissionPart /\ WorkPart /\ QueuePart
        /\ ClientPart /\ CountersPart
    BY Parts
  <1>2. UNCHANGED <<job, copy, admitted, server, client, restock, tasks, faults>>
    BY DEF Ack
  <1>3. WorkPart'
    BY <1>1, <1>2, IdleWorker, WorkerMoved DEF Ack, At
  <1>4. QueuePart'
    BY <1>1, QueueShrinks DEF Ack
  <1>. QED  BY <1>1, <1>2, <1>3, <1>4, JobsKept, AdmissionsKept, ClientsKept,
               CountersKept, PartsPrime

(* The ways in which a worker is stopped: it gives up its WMS request.     *)
LEMMA StopStep ==
  ASSUME AdmissionInvariant, NEW w \in Workers,
         CrashWorker(w) \/ KillTask(w) \/ Interrupt(w) \/ Timeout(w)
  PROVE  AdmissionInvariant'
  <1>1. /\ JobPart /\ AdmissionPart /\ WorkPart /\ QueuePart
        /\ ClientPart /\ CountersPart
    BY Parts
  <1>2. /\ UNCHANGED <<job, copy, admitted, queue, client, restock, tasks>>
        /\ Forget(w) /\ ~At(w, "idle")
    BY DEF CrashWorker, KillTask, Interrupt, Timeout, At
  <1>3. WorkPart'
    <2>1. CASE CrashWorker(w)
      BY <1>1, <1>2, <2>1, IdleWorker, WorkerMoved DEF CrashWorker
    <2>2. CASE KillTask(w)
      BY <1>1, <1>2, <2>2, WorkerGoes DEF KillTask
    <2>3. CASE Interrupt(w)
      <3>1. Handler(worker[w].pc) \in {"error", "undo", "failed"}
        BY <2>3 DEF Interrupt, Handler
      <3>. QED  BY <1>1, <1>2, <2>3, <3>1, WorkerGoes DEF Interrupt
    <2>4. CASE Timeout(w)
      BY <1>1, <1>2, <2>4, WorkerGoes DEF Timeout
    <2>. QED  BY <2>1, <2>2, <2>3, <2>4
  <1>4. CountersPart'
    BY <1>1, <1>2, FaultCounted DEF CrashWorker, KillTask, Interrupt, Timeout, Faults
  <1>. QED  BY <1>1, <1>2, <1>3, <1>4, JobsKept, AdmissionsKept, QueueKept,
               ClientsKept, PartsPrime

(* An inspection that begins makes its job PROCESSING.                     *)
LEMMA PrepareStep ==
  ASSUME AdmissionInvariant, NEW w \in Workers, Prepare(w)
  PROVE  AdmissionInvariant'
  <1>1. /\ JobPart /\ AdmissionPart /\ WorkPart /\ QueuePart
        /\ ClientPart /\ CountersPart
    BY Parts
  <1>2. /\ UNCHANGED <<copy, admitted, queue, server, client, restock, tasks, faults>>
        /\ ~At(w, "idle") /\ ~At(w, "wait")
    BY DEF Prepare, At
  <1>3. Of(w) \in Jobs /\ Id(w) \in Nat /\ job[Of(w)] \in JobRow
    BY <1>1, <1>2, WorkersJob DEF JobPart
  <1>4. JobPart'
    <2>. DEFINE x == [job[Of(w)] EXCEPT !.status = "PROCESSING", !.task = Id(w)]
    <2>1. x \in JobRow /\ x.status \notin Final
      BY <1>3 DEF JobRow, Statuses, Final
    <2>2. CASE SaveJob(Of(w), x)
      BY <1>1, <1>2, <1>3, <2>1, <2>2, JobSaved
    <2>3. CASE KeepJob(Of(w))
      BY <1>1, <1>2, <2>3, JobsKept DEF KeepJob
    <2>. QED  BY <2>2, <2>3 DEF Prepare
  <1>5. WorkPart'
    BY <1>1, <1>2, WorkerGoes DEF Prepare
  <1>. QED  BY <1>1, <1>2, <1>4, <1>5, AdmissionsKept, QueueKept, ClientsKept,
               CountersKept, PartsPrime

(* It may take a job back from a final status, but makes none final.       *)
LEMMA SaveHitlRequiredStep ==
  ASSUME AdmissionInvariant, NEW w \in Workers, SaveHitlRequired(w)
  PROVE  AdmissionInvariant'
  <1>1. /\ JobPart /\ AdmissionPart /\ WorkPart /\ QueuePart
        /\ ClientPart /\ CountersPart
    BY Parts
  <1>2. /\ UNCHANGED <<copy, admitted, queue, server, client, restock, tasks, faults>>
        /\ ~At(w, "idle") /\ ~At(w, "wait")
    BY DEF SaveHitlRequired, At
  <1>3. Of(w) \in Jobs /\ job[Of(w)] \in JobRow
    BY <1>1, <1>2, WorkersJob DEF JobPart
  <1>4. JobPart'
    <2>. DEFINE x == [job[Of(w)] EXCEPT !.status = "HITL_REQUIRED"]
    <2>1. x \in JobRow /\ x.status \notin Final /\ SaveJob(Of(w), x)
      BY <1>3 DEF JobRow, Statuses, Final, SaveHitlRequired
    <2>. QED  BY <1>1, <1>2, <1>3, <2>1, JobSaved
  <1>5. WorkPart'
    BY <1>1, <1>2, WorkerGoes DEF SaveHitlRequired
  <1>. QED  BY <1>1, <1>2, <1>4, <1>5, AdmissionsKept, QueueKept, ClientsKept,
               CountersKept, PartsPrime

(* The verdict of the agents goes to the logs only.                        *)
LEMMA SaveVerdictStep ==
  ASSUME AdmissionInvariant, NEW w \in Workers, NEW v \in Verdicts, SaveVerdict(w, v)
  PROVE  AdmissionInvariant'
  <1>1. /\ JobPart /\ AdmissionPart /\ WorkPart /\ QueuePart
        /\ ClientPart /\ CountersPart
    BY Parts
  <1>2. /\ UNCHANGED <<copy, admitted, queue, server, client, restock, tasks, faults>>
        /\ ~At(w, "idle") /\ ~At(w, "wait")
    BY DEF SaveVerdict, At
  <1>3. Of(w) \in Jobs /\ job[Of(w)] \in JobRow
    BY <1>1, <1>2, WorkersJob DEF JobPart
  <1>4. JobPart'
    <2>. DEFINE x == [job[Of(w)] EXCEPT !.logs.verdict = v]
    <2>1. /\ x \in JobRow
          /\ x.status = job[Of(w)].status /\ x.grade = job[Of(w)].grade
      BY <1>3 DEF JobRow, Logs
    <2>2. CASE SaveJob(Of(w), x)
      BY <1>1, <1>2, <1>3, <2>1, <2>2, JobSaved
    <2>3. CASE KeepJob(Of(w))
      BY <1>1, <1>2, <2>3, JobsKept DEF KeepJob
    <2>. QED  BY <2>2, <2>3 DEF SaveVerdict
  <1>5. WorkPart'
    BY <1>1, <1>2, WorkerGoes DEF SaveVerdict
  <1>. QED  BY <1>1, <1>2, <1>4, <1>5, AdmissionsKept, QueueKept, ClientsKept,
               CountersKept, PartsPrime

(* The agents fail: nothing is saved.                                      *)
LEMMA GraphFailsStep ==
  ASSUME AdmissionInvariant, NEW w \in Workers, GraphFails(w)
  PROVE  AdmissionInvariant'
  <1>1. /\ JobPart /\ AdmissionPart /\ WorkPart /\ QueuePart
        /\ ClientPart /\ CountersPart
    BY Parts
  <1>2. UNCHANGED <<job, copy, admitted, queue, server, client, restock, tasks, faults>>
    BY DEF GraphFails
  <1>3. WorkPart'
    BY <1>1, <1>2, WorkerGoes DEF GraphFails, At
  <1>. QED  BY <1>1, <1>2, <1>3, JobsKept, AdmissionsKept, QueueKept, ClientsKept,
               CountersKept, PartsPrime

(* The id of the WMS task goes to the logs only.                           *)
LEMMA SaveWmsTaskIdStep ==
  ASSUME AdmissionInvariant, NEW w \in Workers, SaveWmsTaskId(w)
  PROVE  AdmissionInvariant'
  <1>1. /\ JobPart /\ AdmissionPart /\ WorkPart /\ QueuePart
        /\ ClientPart /\ CountersPart
    BY Parts
  <1>2. /\ UNCHANGED <<copy, admitted, queue, server, client, restock, faults>>
        /\ ~At(w, "idle") /\ ~At(w, "wait")
    BY DEF SaveWmsTaskId, At
  <1>3. /\ Of(w) \in Jobs /\ job[Of(w)] \in JobRow
        /\ worker[w] \in WorkerState /\ worker[w].msg \in Message
    BY <1>1, <1>2, WorkersJob DEF JobPart
  <1>4. CASE Mine(w)
    <2>. DEFINE x == [job[Of(w)] EXCEPT !.logs.wms = Fresh]
                y == [worker[w] EXCEPT !.pc = "send", !.wms = Fresh]
    <2>1. SaveJob(Of(w), x) /\ DrawTask /\ worker' = [worker EXCEPT ![w] = y]
      BY <1>4 DEF SaveWmsTaskId
    <2>2. CountersPart' /\ Fresh \in Nat
      BY <1>1, <1>2, <2>1, TaskDrawn
    <2>3. /\ x \in JobRow
          /\ x.status = job[Of(w)].status /\ x.grade = job[Of(w)].grade
      BY <1>3, <2>2 DEF JobRow, Logs
    <2>4. JobPart'
      BY <1>1, <1>2, <1>3, <2>1, <2>3, JobSaved
    <2>5. /\ y \in WorkerState /\ y.pc = "send" /\ y.wms = Fresh
          /\ y.msg = worker[w].msg
      BY <1>3, <2>2 DEF WorkerState
    <2>6. WorkPart'
      BY <1>1, <1>2, <1>3, <2>1, <2>2, <2>5, WorkerMoved
    <2>. QED  BY <1>1, <1>2, <2>2, <2>4, <2>6, AdmissionsKept, QueueKept, ClientsKept,
                 PartsPrime
  <1>5. CASE ~Mine(w)
    <2>1. UNCHANGED <<job, tasks>> /\ Goto(w, "undo")
      BY <1>5 DEF SaveWmsTaskId, KeepJob
    <2>2. WorkPart'
      BY <1>1, <1>2, <2>1, WorkerGoes
    <2>. QED  BY <1>1, <1>2, <2>1, <2>2, JobsKept, AdmissionsKept, QueueKept,
                 ClientsKept, CountersKept, PartsPrime
  <1>. QED  BY <1>4, <1>5

(* The message of the WMS task, accepted or refused.                       *)
LEMMA SendWmsStep ==
  ASSUME AdmissionInvariant, NEW w \in Workers, SendWms(w)
  PROVE  AdmissionInvariant'
  <1>1. /\ JobPart /\ AdmissionPart /\ WorkPart /\ QueuePart
        /\ ClientPart /\ CountersPart
    BY Parts
  <1>2. /\ UNCHANGED <<job, copy, admitted, server, client, restock, tasks>>
        /\ ~At(w, "idle") /\ ~At(w, "wait")
    BY DEF SendWms, At
  <1>3. Of(w) \in Jobs /\ worker[w].wms \in Nat
    BY <1>1, <1>2, WorkersJob DEF SendWms, WorkPart, WorkersAtWork
  <1>4. WorkPart'
    BY <1>1, <1>2, WorkerGoes DEF SendWms
  <1>5. QueuePart' /\ CountersPart'
    <2>1. CASE Submit("wms", worker[w].wms, Of(w)) /\ UNCHANGED faults
      BY <1>1, <1>2, <1>3, <2>1, QueueSubmit, CountersKept
    <2>2. CASE Fault("send") /\ UNCHANGED queue
      BY <1>1, <1>2, <2>2, QueueKept, FaultCounted DEF Faults
    <2>. QED  BY <2>1, <2>2 DEF SendWms
  <1>. QED  BY <1>1, <1>2, <1>4, <1>5, JobsKept, AdmissionsKept, ClientsKept, PartsPrime

(* A job whose WMS task was not sent has failed.                           *)
LEMMA SaveDispatchFailedStep ==
  ASSUME AdmissionInvariant, NEW w \in Workers, SaveDispatchFailed(w)
  PROVE  AdmissionInvariant'
  <1>1. /\ JobPart /\ AdmissionPart /\ WorkPart /\ QueuePart
        /\ ClientPart /\ CountersPart
    BY Parts
  <1>2. /\ UNCHANGED <<copy, admitted, queue, server, client, restock, tasks, faults>>
        /\ ~At(w, "idle") /\ ~At(w, "wait")
    BY DEF SaveDispatchFailed, At
  <1>3. Of(w) \in Jobs /\ job[Of(w)] \in JobRow
    BY <1>1, <1>2, WorkersJob DEF JobPart
  <1>4. JobPart'
    <2>. DEFINE x == [job[Of(w)] EXCEPT !.status = "FAILED", !.logs.wms = None]
    <2>1. x \in JobRow /\ x.status \notin Final
      BY <1>3 DEF JobRow, Logs, Statuses, Final
    <2>2. CASE SaveJob(Of(w), x)
      BY <1>1, <1>2, <1>3, <2>1, <2>2, JobSaved
    <2>3. CASE KeepJob(Of(w))
      BY <1>1, <1>2, <2>3, JobsKept DEF KeepJob
    <2>. QED  BY <2>2, <2>3 DEF SaveDispatchFailed
  <1>5. WorkPart'
    BY <1>1, <1>2, WorkerGoes DEF SaveDispatchFailed
  <1>. QED  BY <1>1, <1>2, <1>4, <1>5, AdmissionsKept, QueueKept, ClientsKept,
               CountersKept, PartsPrime

(* The exceptions that are retried until the job fails.                    *)
LEMMA RetryStep ==
  ASSUME AdmissionInvariant, NEW w \in Workers, InspectionError(w) \/ WmsUnreachable(w)
  PROVE  AdmissionInvariant'
  <1>1. /\ JobPart /\ AdmissionPart /\ WorkPart /\ QueuePart
        /\ ClientPart /\ CountersPart
    BY Parts
  <1>2. /\ UNCHANGED <<copy, admitted, server, client, restock, tasks, faults>>
        /\ ~At(w, "idle") /\ ~At(w, "wait")
        /\ RetryOr(w, SaveFailed(w))
    BY DEF InspectionError, WmsUnreachable, At
  <1>3. JobPart' /\ WorkPart' /\ QueuePart'
    BY <1>1, <1>2, Retried
  <1>. QED  BY <1>1, <1>2, <1>3, AdmissionsKept, ClientsKept, CountersKept, PartsPrime

(* The WMS has turned the copy away.                                       *)
LEMMA WmsFailedStep ==
  ASSUME AdmissionInvariant, NEW w \in Workers, WmsFailed(w)
  PROVE  AdmissionInvariant'
  <1>1. /\ JobPart /\ AdmissionPart /\ WorkPart /\ QueuePart
        /\ ClientPart /\ CountersPart
    BY Parts
  <1>2. /\ UNCHANGED <<copy, admitted, queue, server, client, restock, tasks, faults>>
        /\ ~At(w, "idle") /\ ~At(w, "wait")
        /\ SaveFailed(w)
    BY DEF WmsFailed, At
  <1>3. JobPart' /\ WorkPart'
    BY <1>1, <1>2, FailureSaved
  <1>. QED  BY <1>1, <1>2, <1>3, AdmissionsKept, QueueKept, ClientsKept, CountersKept,
               PartsPrime

(* The worker takes the verdict that is in the logs.                       *)
LEMMA CheckSavedResultStep ==
  ASSUME AdmissionInvariant, NEW w \in Workers, CheckSavedResult(w)
  PROVE  AdmissionInvariant'
  <1>1. /\ JobPart /\ AdmissionPart /\ WorkPart /\ QueuePart
        /\ ClientPart /\ CountersPart
    BY Parts
  <1>2. /\ UNCHANGED <<job, copy, admitted, queue, server, client, restock, tasks, faults>>
        /\ ~At(w, "idle") /\ ~At(w, "wait")
    BY DEF CheckSavedResult, KeepJob, At
  <1>3. WorkPart'
    <2>1. CASE \E pc \in {"restock", "ack", "failed"} : Goto(w, pc)
      BY <1>1, <1>2, <2>1, WorkerGoes
    <2>2. CASE ~\E pc \in {"restock", "ack", "failed"} : Goto(w, pc)
      <3>. DEFINE x == [worker[w] EXCEPT !.pc = "call",
                          !.verdict = job[Of(w)].logs.verdict,
                          !.admin = job[Of(w)].logs.admin]
      <3>1. worker' = [worker EXCEPT ![w] = x]
        BY <2>2 DEF CheckSavedResult, AlreadyFinal
      <3>2. /\ worker[w] \in WorkerState /\ worker[w].msg \in Message
            /\ job[Of(w)] \in JobRow
        BY <1>1, <1>2, WorkersJob DEF JobPart
      <3>3. x \in WorkerState /\ x.pc = "call" /\ x.msg \in Message
        BY <3>2 DEF WorkerState, JobRow, Logs
      <3>. QED  BY <1>1, <1>2, <3>1, <3>3, WorkerMoved
    <2>. QED  BY <2>1, <2>2
  <1>. QED  BY <1>1, <1>2, <1>3, JobsKept, AdmissionsKept, QueueKept, ClientsKept,
               CountersKept, PartsPrime

(* The restock message, accepted or refused.                               *)
LEMMA DispatchRestockStep ==
  ASSUME AdmissionInvariant, NEW w \in Workers, DispatchRestock(w)
  PROVE  AdmissionInvariant'
  <1>1. /\ JobPart /\ AdmissionPart /\ WorkPart /\ QueuePart
        /\ ClientPart /\ CountersPart
    BY Parts
  <1>2. /\ UNCHANGED <<job, copy, admitted, queue, server, client, tasks>>
        /\ ~At(w, "idle") /\ ~At(w, "wait")
    BY DEF DispatchRestock, At
  <1>3. WorkPart'
    BY <1>1, <1>2, WorkerGoes DEF DispatchRestock
  <1>4. CountersPart'
    <2>1. CASE restock' = restock \cup {Of(w)} /\ UNCHANGED faults
      BY <1>1, <1>2, <2>1, WorkersJob DEF CountersPart
    <2>2. CASE Fault("send") /\ UNCHANGED restock
      BY <1>1, <1>2, <2>2, FaultCounted DEF Faults
    <2>. QED  BY <2>1, <2>2 DEF DispatchRestock
  <1>. QED  BY <1>1, <1>2, <1>3, <1>4, JobsKept, AdmissionsKept, QueueKept,
               ClientsKept, PartsPrime

(* The only action that makes a job final: an admission is behind it.      *)
LEMMA SaveFinalStep ==
  ASSUME AdmissionInvariant, NEW w \in Workers, SaveFinal(w)
  PROVE  AdmissionInvariant'
  <1>. DEFINE v == worker[w].verdict
              x == [job[Of(w)] EXCEPT !.status = StatusOf(v), !.grade = v,
                                      !.logs.result = TRUE]
  <1>1. /\ JobPart /\ AdmissionPart /\ WorkPart /\ QueuePart
        /\ ClientPart /\ CountersPart
    BY Parts
  <1>2. /\ UNCHANGED <<copy, admitted, queue, server, client, restock, tasks, faults>>
        /\ ~At(w, "idle") /\ ~At(w, "wait")
    BY DEF SaveFinal, At
  <1>3. /\ Of(w) \in Jobs /\ job[Of(w)] \in JobRow
        /\ [job |-> Of(w), grade |-> v] \in admitted
        /\ v \in Grades \cup {"REJECT"}
    <2>1. Of(w) \in Jobs /\ job[Of(w)] \in JobRow
      BY <1>1, <1>2, WorkersJob DEF JobPart
    <2>2. [job |-> Of(w), grade |-> v] \in admitted
      BY <1>1 DEF SaveFinal, WorkPart, AnswersAreTrue
    <2>3. [job |-> Of(w), grade |-> v].grade \in Grades \cup {"REJECT"}
      BY <1>1, <2>2 DEF AdmissionPart
    <2>. QED  BY <2>1, <2>2, <2>3
  <1>4. JobPart'
    <2>1. CASE KeepJob(Of(w))
      BY <1>1, <1>2, <2>1, JobsKept DEF KeepJob
    <2>2. CASE SaveJob(Of(w), x)
      <3>1. x \in JobRow /\ x.status = StatusOf(v) /\ x.grade = v
        <4>1. StatusOf(v) \in Statuses
          BY DEF StatusOf, Statuses
        <4>2. [job[Of(w)].logs EXCEPT !.result = TRUE] \in Logs
          BY <1>3 DEF JobRow, Logs
        <4>3. x = [[[job[Of(w)] EXCEPT !.status = StatusOf(v)] EXCEPT !.grade = v]
                     EXCEPT !.logs = [job[Of(w)].logs EXCEPT !.result = TRUE]]
          BY <1>3 DEF JobRow
        <4>. QED  BY <1>3, <4>1, <4>2, <4>3 DEF JobRow
      <3>2. /\ job' \in [Jobs -> JobRow]
            /\ \A i \in Jobs : job'[i] = IF i = Of(w) THEN x ELSE job[i]
        BY <1>1, <1>3, <2>2, <3>1 DEF JobPart, SaveJob
      <3>3. ASSUME NEW i \in Jobs, job'[i].status \in Final
            PROVE  /\ [job |-> i, grade |-> job'[i].grade] \in admitted'
                   /\ job'[i].status = StatusOf(job'[i].grade)
        BY <1>1, <1>2, <1>3, <3>1, <3>2, <3>3 DEF JobPart, FinalMeansAdmitted
      <3>. QED  BY <3>2, <3>3 DEF JobPart, FinalMeansAdmitted
    <2>. QED  BY <2>1, <2>2 DEF SaveFinal
  <1>5. WorkPart'
    <2>1. \E pc \in {"restock", "ack", "failed"} : Goto(w, pc)
      BY DEF SaveFinal, AlreadyFinal
    <2>. QED  BY <1>1, <1>2, <2>1, WorkerGoes
  <1>. QED  BY <1>1, <1>2, <1>4, <1>5, AdmissionsKept, QueueKept, ClientsKept,
               CountersKept, PartsPrime

-----------------------------------------------------------------------------
(* The actions of the WMS requests.                                        *)

(* A request begins, and its caller is the only one to wait for it.        *)
LEMMA CallWmsStep ==
  ASSUME AdmissionInvariant, NEW w \in Workers, NEW s \in Servers, CallWms(w, s)
  PROVE  AdmissionInvariant'
  <1>. DEFINE x == [worker[w] EXCEPT !.pc = "wait"]
              y == [ServerIdle EXCEPT !.pc = "read", !.job = Of(w), !.caller = w,
                      !.verdict = worker[w].verdict, !.admin = worker[w].admin]
  <1>1. /\ JobPart /\ AdmissionPart /\ WorkPart /\ QueuePart
        /\ ClientPart /\ CountersPart
    BY Parts
  <1>2. /\ UNCHANGED <<job, copy, admitted, queue, client, restock, tasks, faults>>
        /\ At(w, "call") /\ ~At(w, "idle")
        /\ worker' = [worker EXCEPT ![w] = x] /\ server' = [server EXCEPT ![s] = y]
    BY DEF CallWms, Goto, At
  <1>3. /\ worker[w] \in WorkerState /\ worker[w].msg \in Message /\ Of(w) \in Jobs
    BY <1>1, <1>2, WorkersJob
  <1>4. /\ x \in WorkerState /\ x.pc = "wait" /\ x.msg = worker[w].msg
        /\ x.verdict = worker[w].verdict
    BY <1>3 DEF WorkerState
  <1>5. /\ y \in ServerState /\ y.pc = "read" /\ y.job = Of(w) /\ y.caller = w
        /\ y.verdict = worker[w].verdict
    BY <1>3 DEF ServerState, ServerIdle, WorkerState
  <1>6. /\ worker' \in [Workers -> WorkerState] /\ server' \in [Servers -> ServerState]
        /\ \A v \in Workers : worker'[v] = IF v = w THEN x ELSE worker[v]
        /\ \A t \in Servers : server'[t] = IF t = s THEN y ELSE server[t]
    BY <1>1, <1>2, <1>4, <1>5 DEF WorkPart
  <1>7. \A t \in Servers : server[t].caller # w
    BY <1>1, <1>2, NoneIsNoValue DEF WorkPart, CallersWait, At
  <1>8. WorkersAtWork' /\ ServersAtWork' /\ AnswersAreTrue'
    BY <1>1, <1>2, <1>3, <1>4, <1>5, <1>6
    DEF WorkPart, WorkersAtWork, ServersAtWork, AnswersAreTrue, At, Of
  <1>9. CallersWait'
    <2>. SUFFICES ASSUME NEW t \in Servers, server'[t].caller # None
                  PROVE  /\ worker'[server'[t].caller].pc = "wait"
                         /\ worker'[server'[t].caller].msg.job = server'[t].job
                         /\ worker'[server'[t].caller].verdict = server'[t].verdict
                         /\ \A u \in Servers \ {t} : server'[u].caller # server'[t].caller
      BY DEF CallersWait, At, Of
    <2>1. CASE t = s
      BY <1>3, <1>4, <1>5, <1>6, <1>7, <2>1 DEF Of
    <2>2. CASE t # s
      <3>1. server'[t] = server[t] /\ server[t].caller \in Workers \ {w}
        BY <1>1, <1>6, <1>7, <2>2 DEF WorkPart, ServerState
      <3>2. /\ worker[server[t].caller].pc = "wait"
            /\ worker[server[t].caller].msg.job = server[t].job
            /\ worker[server[t].caller].verdict = server[t].verdict
            /\ \A u \in Servers \ {t} : server[u].caller # server[t].caller
        BY <1>1, <3>1, NoneIsNoValue DEF WorkPart, CallersWait, At, Of
      <3>3. worker'[server[t].caller] = worker[server[t].caller]
        BY <1>6, <3>1
      <3>4. \A u \in Servers \ {t} : server'[u].caller # server[t].caller
        BY <1>5, <1>6, <3>1, <3>2
      <3>. QED  BY <3>1, <3>2, <3>3, <3>4
    <2>. QED  BY <2>1, <2>2
  <1>10. WorkPart'
    BY <1>6, <1>8, <1>9 DEF WorkPart
  <1>. QED  BY <1>1, <1>2, <1>10, JobsKept, AdmissionsKept, QueueKept, ClientsKept,
               CountersKept, PartsPrime

(* The request reads the status; its caller still waits.                   *)
LEMMA ReadJobStep ==
  ASSUME AdmissionInvariant, NEW s \in Servers, ReadJob(s)
  PROVE  AdmissionInvariant'
  <1>. DEFINE y == [server[s] EXCEPT !.pc = "admit", !.seen = job[server[s].job].status]
  <1>1. /\ JobPart /\ AdmissionPart /\ WorkPart /\ QueuePart
        /\ ClientPart /\ CountersPart
    BY Parts
  <1>2. /\ UNCHANGED <<job, copy, admitted, queue, worker, client, restock, tasks, faults>>
        /\ server[s].pc # "idle" /\ server' = [server EXCEPT ![s] = y]
    BY DEF ReadJob
  <1>3. server[s] \in ServerState /\ server[s].job \in Jobs
    BY <1>1, <1>2 DEF WorkPart, ServersAtWork
  <1>4. /\ y \in ServerState /\ y.job = server[s].job /\ y.caller = server[s].caller
        /\ y.verdict = server[s].verdict
    BY <1>1, <1>3 DEF JobPart, JobRow, ServerState
  <1>5. /\ server' \in [Servers -> ServerState]
        /\ \A t \in Servers : server'[t] = IF t = s THEN y ELSE server[t]
    BY <1>1, <1>2, <1>4 DEF WorkPart
  <1>6. \A t \in Servers :
          /\ server'[t].job = server[t].job /\ server'[t].caller = server[t].caller
          /\ server'[t].verdict = server[t].verdict
    BY <1>4, <1>5
  <1>7. ServersAtWork'
    BY <1>1, <1>3, <1>4, <1>5 DEF WorkPart, ServersAtWork
  <1>8. WorkersAtWork' /\ AnswersAreTrue'
    BY <1>1, <1>2 DEF WorkPart, WorkersAtWork, AnswersAreTrue, At, Of
  <1>9. CallersWait'
    BY <1>1, <1>2, <1>6 DEF WorkPart, CallersWait, At, Of
  <1>10. WorkPart'
    BY <1>1, <1>2, <1>5, <1>7, <1>8, <1>9 DEF WorkPart
  <1>. QED  BY <1>1, <1>2, <1>10, JobsKept, AdmissionsKept, QueueKept, ClientsKept,
               CountersKept, PartsPrime

(* An answer reaches the caller that waits for it, if there is one; who is *)
(* told of an admission can rely on it.                                    *)
LEMMA Answered ==
  ASSUME WorkPart, NEW s \in Servers, NEW pc \in {"admitted", "failed", "unreachable"},
         Answer(s, pc), admitted \subseteq admitted',
         pc = "admitted" => [job |-> server[s].job, grade |-> server[s].verdict] \in admitted'
  PROVE  WorkPart'
  <1>. DEFINE w == server[s].caller
              x == [worker[w] EXCEPT !.pc = pc]
  <1>1. /\ worker \in [Workers -> WorkerState] /\ server \in [Servers -> ServerState]
        /\ WorkersAtWork /\ ServersAtWork /\ CallersWait /\ AnswersAreTrue
    BY DEF WorkPart
  <1>2. ServerIdle \in ServerState /\ ServerIdle.caller = None /\ ServerIdle.pc = "idle"
    BY DEF ServerIdle, ServerState
  <1>3. /\ server' \in [Servers -> ServerState]
        /\ \A t \in Servers : server'[t] = IF t = s THEN ServerIdle ELSE server[t]
    BY <1>1, <1>2 DEF Answer
  <1>4. ServersAtWork'
    BY <1>1, <1>2, <1>3 DEF ServersAtWork
  <1>5. CASE w = None
    <2>1. worker' = worker
      BY <1>5 DEF Answer
    <2>2. WorkersAtWork' /\ AnswersAreTrue'
      BY <1>1, <2>1 DEF WorkersAtWork, AnswersAreTrue, At, Of
    <2>3. CallersWait'
      BY <1>1, <1>2, <1>3, <2>1 DEF CallersWait, At, Of
    <2>. QED  BY <1>1, <1>3, <1>4, <2>1, <2>2, <2>3 DEF WorkPart
  <1>6. CASE w # None
    <2>1. w \in Workers /\ worker' = [worker EXCEPT ![w] = x]
      BY <1>1, <1>6 DEF Answer, Goto, ServerState
    <2>2. /\ worker[w].pc = "wait" /\ worker[w].msg.job = server[s].job
          /\ worker[w].verdict = server[s].verdict
          /\ \A t \in Servers \ {s} : server[t].caller # w
      BY <1>1, <1>6 DEF CallersWait, At, Of
    <2>3. /\ x \in WorkerState /\ x.pc = pc /\ x.msg = worker[w].msg
          /\ x.verdict = worker[w].verdict /\ x.msg \in Message
      BY <1>1, <2>1, <2>2 DEF WorkerState, WorkersAtWork, At
    <2>4. /\ worker' \in [Workers -> WorkerState]
          /\ \A v \in Workers : worker'[v] = IF v = w THEN x ELSE worker[v]
      BY <1>1, <2>1, <2>3
    <2>5. WorkersAtWork'
      BY <1>1, <2>3, <2>4 DEF WorkersAtWork, At
    <2>6. AnswersAreTrue'
      BY <1>1, <2>2, <2>3, <2>4 DEF AnswersAreTrue, At, Of
    <2>7. CallersWait'
      <3>. SUFFICES ASSUME NEW t \in Servers, server'[t].caller # None
                    PROVE  /\ worker'[server'[t].caller].pc = "wait"
                           /\ worker'[server'[t].caller].msg.job = server'[t].job
                           /\ worker'[server'[t].caller].verdict = server'[t].verdict
                           /\ \A u \in Servers \ {t} :
                                server'[u].caller # server'[t].caller
        BY DEF CallersWait, At, Of
      <3>1. t # s /\ server'[t] = server[t] /\ server[t].caller \in Workers \ {w}
        BY <1>1, <1>2, <1>3, <2>2 DEF ServerState
      <3>2. /\ worker[server[t].caller].pc = "wait"
            /\ worker[server[t].caller].msg.job = server[t].job
            /\ worker[server[t].caller].verdict = server[t].verdict
            /\ \A u \in Servers \ {t} : server[u].caller # server[t].caller
        BY <1>1, <3>1, NoneIsNoValue DEF CallersWait, At, Of
      <3>3. worker'[server[t].caller] = worker[server[t].caller]
        BY <2>4, <3>1
      <3>4. \A u \in Servers \ {t} : server'[u].caller # server[t].caller
        BY <1>2, <1>3, <3>1, <3>2, NoneIsNoValue
      <3>. QED  BY <3>1, <3>2, <3>3, <3>4
    <2>. QED  BY <1>3, <1>4, <2>4, <2>5, <2>6, <2>7 DEF WorkPart
  <1>. QED  BY <1>5, <1>6

(* No copy with a record is admitted again: its grade is in the way.       *)
LEMMA AdmitStep ==
  ASSUME AdmissionInvariant, NEW s \in Servers, Admit(s)
  PROVE  AdmissionInvariant'
  <1>. DEFINE j == server[s].job
              g == server[s].verdict
              new == [job |-> j, grade |-> g]
              x == [job[j] EXCEPT !.grade = g]
  <1>1. /\ JobPart /\ AdmissionPart /\ WorkPart /\ QueuePart
        /\ ClientPart /\ CountersPart
    BY Parts
  <1>2. /\ UNCHANGED <<queue, client, restock, tasks, faults>>
        /\ admitted' = admitted \cup {new}
        /\ copy' = [copy EXCEPT ![CopyOf[j]] = g]
        /\ job' = [job EXCEPT ![j] = x]
        /\ Answer(s, "admitted")
        /\ server[s].pc # "idle"
    BY DEF Admit
  <1>3. /\ j \in Jobs /\ CopyOf[j] \in Copies /\ g \in Grades \cup {"REJECT"} /\ g # None
        /\ ~HasRecord(j) /\ copy[CopyOf[j]] = None
    BY <1>1, <1>2, JobConstants, NoneIsNoValue
    DEF Admit, Admissible, Sound, WorkPart, ServersAtWork
  <1>4. \A y \in admitted : y.job # j /\ CopyOf[y.job] # CopyOf[j]
    <2>. SUFFICES ASSUME NEW y \in admitted
                  PROVE  y.job # j /\ CopyOf[y.job] # CopyOf[j]
      OBVIOUS
    <2>1. y.grade # None /\ copy[CopyOf[y.job]] = y.grade
      BY <1>1, NoneIsNoValue DEF AdmissionPart, GradesAgree
    <2>. QED  BY <1>3, <2>1 DEF HasRecord
  <1>5. AdmissionPart'
    <2>1. copy' \in [Copies -> Grades \cup {"REJECT", None}]
      BY <1>1, <1>2, <1>3 DEF AdmissionPart
    <2>2. admitted' \in SUBSET [job : Jobs, grade : Grades \cup {"REJECT"}]
      BY <1>1, <1>2, <1>3 DEF AdmissionPart
    <2>3. GradesAgree'
      <3>. SUFFICES ASSUME NEW y \in admitted'
                    PROVE  copy'[CopyOf[y.job]] = y.grade
        BY DEF GradesAgree
      <3>1. CASE y = new
        BY <1>1, <1>2, <1>3, <3>1 DEF AdmissionPart
      <3>2. CASE y \in admitted
        <4>1. CopyOf[y.job] \in Copies /\ CopyOf[y.job] # CopyOf[j]
          BY <1>1, <1>4, <3>2, JobConstants DEF AdmissionPart
        <4>. QED  BY <1>1, <1>2, <3>2, <4>1 DEF AdmissionPart, GradesAgree
      <3>. QED  BY <1>2, <3>1, <3>2
    <2>4. AdmittedOnce'
      BY <1>1, <1>2, <1>4 DEF AdmissionPart, AdmittedOnce
    <2>. QED  BY <2>1, <2>2, <2>3, <2>4 DEF AdmissionPart
  <1>6. JobPart'
    <2>1. x \in JobRow /\ x.status = job[j].status
      BY <1>1, <1>3 DEF JobPart, JobRow
    <2>2. /\ job' \in [Jobs -> JobRow]
          /\ \A i \in Jobs : job'[i] = IF i = j THEN x ELSE job[i]
      BY <1>1, <1>2, <1>3, <2>1 DEF JobPart
    <2>3. job[j].status \notin Final
      BY <1>1, <1>3, <1>4 DEF JobPart, FinalMeansAdmitted
    <2>4. ASSUME NEW i \in Jobs, job'[i].status \in Final
          PROVE  /\ [job |-> i, grade |-> job'[i].grade] \in admitted'
                 /\ job'[i].status = StatusOf(job'[i].grade)
      <3>1. i # j /\ job'[i] = job[i]
        BY <2>1, <2>2, <2>3, <2>4
      <3>. QED  BY <1>1, <1>2, <2>4, <3>1 DEF JobPart, FinalMeansAdmitted
    <2>. QED  BY <2>2, <2>4 DEF JobPart, FinalMeansAdmitted
  <1>7. WorkPart'
    BY <1>1, <1>2, Answered
  <1>. QED  BY <1>1, <1>2, <1>5, <1>6, <1>7, QueueKept, ClientsKept, CountersKept,
               PartsPrime

(* The record that is found has the grade that was asked for.              *)
LEMMA ConfirmAdmissionStep ==
  ASSUME AdmissionInvariant, NEW s \in Servers, ConfirmAdmission(s)
  PROVE  AdmissionInvariant'
  <1>1. /\ JobPart /\ AdmissionPart /\ WorkPart /\ QueuePart
        /\ ClientPart /\ CountersPart
    BY Parts
  <1>2. /\ UNCHANGED <<job, copy, admitted, queue, client, restock, tasks, faults>>
        /\ Answer(s, "admitted")
    BY DEF ConfirmAdmission
  <1>3. [job |-> server[s].job, grade |-> server[s].verdict] \in admitted
    <2>1. PICK y \in admitted : y.job = server[s].job
      BY DEF ConfirmAdmission, AdmittedBefore, HasRecord
    <2>2. y.grade = server[s].verdict
      BY <1>1, <2>1 DEF ConfirmAdmission, AdmittedBefore, AdmissionPart, GradesAgree
    <2>3. y = [job |-> y.job, grade |-> y.grade]
      BY <1>1, <2>1 DEF AdmissionPart
    <2>. QED  BY <2>1, <2>2, <2>3
  <1>4. WorkPart'
    BY <1>1, <1>2, <1>3, Answered
  <1>. QED  BY <1>1, <1>2, <1>4, JobsKept, AdmissionsKept, QueueKept, ClientsKept,
               CountersKept, PartsPrime

(* The caller is told that nothing was admitted.                           *)
LEMMA RefuseAdmissionStep ==
  ASSUME AdmissionInvariant, NEW s \in Servers, RefuseAdmission(s)
  PROVE  AdmissionInvariant'
  <1>1. /\ JobPart /\ AdmissionPart /\ WorkPart /\ QueuePart
        /\ ClientPart /\ CountersPart
    BY Parts
  <1>2. /\ UNCHANGED <<job, copy, admitted, queue, client, restock, tasks, faults>>
        /\ Answer(s, "failed")
    BY DEF RefuseAdmission
  <1>3. WorkPart'
    BY <1>1, <1>2, Answered
  <1>. QED  BY <1>1, <1>2, <1>3, JobsKept, AdmissionsKept, QueueKept, ClientsKept,
               CountersKept, PartsPrime

(* A request that is lost has admitted nothing.                            *)
LEMMA LoseServerStep ==
  ASSUME AdmissionInvariant, NEW s \in Servers, LoseServer(s)
  PROVE  AdmissionInvariant'
  <1>1. /\ JobPart /\ AdmissionPart /\ WorkPart /\ QueuePart
        /\ ClientPart /\ CountersPart
    BY Parts
  <1>2. /\ UNCHANGED <<job, copy, admitted, queue, client, restock, tasks>>
        /\ Answer(s, "unreachable")
    BY DEF LoseServer
  <1>3. WorkPart' /\ CountersPart'
    BY <1>1, <1>2, Answered, FaultCounted DEF LoseServer, Faults
  <1>. QED  BY <1>1, <1>2, <1>3, JobsKept, AdmissionsKept, QueueKept, ClientsKept,
               PartsPrime

-----------------------------------------------------------------------------
(* Nothing is admitted and nobody is at work at the start.                 *)
THEOREM AdmissionHoldsInitially == Init => AdmissionInvariant
  <1>. SUFFICES ASSUME Init PROVE AdmissionInvariant
    OBVIOUS
  <1>1. NoJob \in JobRow /\ NoJob.status \notin Final
    BY DEF NoJob, JobRow, NoLogs, Logs, Statuses, Final
  <1>2. JobPart
    BY <1>1 DEF Init, JobPart, FinalMeansAdmitted
  <1>3. AdmissionPart
    BY DEF Init, AdmissionPart, GradesAgree, AdmittedOnce
  <1>4. WorkPart
    <2>1. ServerIdle \in ServerState /\ ServerIdle.pc = "idle" /\ ServerIdle.caller = None
      BY DEF ServerIdle, ServerState
    <2>. QED  BY <2>1, IdleWorker DEF Init, WorkPart, WorkersAtWork, ServersAtWork,
                 CallersWait, AnswersAreTrue, At
  <1>5. QueuePart
    BY FS_EmptySet DEF Init, QueuePart
  <1>6. ClientPart
    BY DEF Init, ClientPart, ClientsAtWork, ClientIdle, ClientState, NoLogs, Logs
  <1>7. CountersPart
    BY Bounds DEF Init, CountersPart
  <1>. QED  BY <1>2, <1>3, <1>4, <1>5, <1>6, <1>7, Parts

(* No step of a worker, an admin, an API process or a fault breaks it.     *)
THEOREM AdmissionIsInductive ==
  AdmissionInvariant /\ [Next]_vars => AdmissionInvariant'
  <1>. SUFFICES ASSUME AdmissionInvariant, [Next]_vars PROVE AdmissionInvariant'
    OBVIOUS
  <1>1. CASE UNCHANGED vars
    BY <1>1, Parts, JobsKept, AdmissionsKept, WorkKept, QueueKept, ClientsKept,
       CountersKept, PartsPrime DEF vars
  <1>2. ASSUME NEW w \in Workers, WorkerStep(w)
        PROVE  AdmissionInvariant'
    BY <1>2, TakeStep, PrepareStep, SaveHitlRequiredStep, GraphFailsStep,
       SaveVerdictStep, SaveWmsTaskIdStep, SendWmsStep, SaveDispatchFailedStep,
       RetryStep, CheckSavedResultStep, SaveFinalStep, WmsFailedStep, CallWmsStep,
       DispatchRestockStep, AckStep DEF WorkerStep
  <1>3. ASSUME NEW w \in Workers,
               CrashWorker(w) \/ KillTask(w) \/ Interrupt(w) \/ Timeout(w)
        PROVE  AdmissionInvariant'
    BY <1>3, StopStep
  <1>4. ASSUME NEW s \in Servers, ServerStep(s) \/ LoseServer(s)
        PROVE  AdmissionInvariant'
    BY <1>4, ReadJobStep, AdmitStep, ConfirmAdmissionStep, RefuseAdmissionStep,
       LoseServerStep DEF ServerStep
  <1>5. ASSUME NEW c \in Clients, Request(c) \/ ClientStep(c) \/ LoseClient(c)
        PROVE  AdmissionInvariant'
    BY <1>5, CreateInspectionStep, RecheckInspectionStep, DecideHitlStep,
       SaveTaskIdStep, SendInspectionStep, UndoEnqueueStep, RestoreRecheckStep,
       SendDecisionStep, RestoreHitlStep, ClearBackupStep, LoseClientStep
    DEF Request, ClientStep
  <1>6. ASSUME NEW a \in Admins, NEW j \in Jobs, StartHitlReview(a, j)
        PROVE  AdmissionInvariant'
    BY <1>6, StartHitlReviewStep
  <1>7. ASSUME NEW j \in Jobs, RequestRecheck(j)
        PROVE  AdmissionInvariant'
    BY <1>7, RequestRecheckStep
  <1>. QED  BY <1>1, <1>2, <1>3, <1>4, <1>5, <1>6, <1>7 DEF Next

(* The grade of an admitted copy, the answers of the WMS and the status of *)
(* the jobs agree in every behaviour: redelivery, retries, time limits and *)
(* lost processes included.                                                *)
THEOREM AdmissionsKeepInvariant == Spec => []AdmissionInvariant
  BY AdmissionHoldsInitially, AdmissionIsInductive, PTL DEF Spec

(* However often and by whomever the WMS is asked, a copy is admitted to   *)
(* the stock or to the rejected items once.                                *)
THEOREM CopiesAreAdmittedOnce == Spec => []AdmittedOnce
  <1>1. AdmissionInvariant => AdmittedOnce
    BY DEF AdmissionInvariant
  <1>. QED  BY <1>1, AdmissionsKeepInvariant, PTL

(* An APPROVED or REJECTED job has its copy in the stock or among the      *)
(* rejected items, with the grade that it names.                           *)
THEOREM FinalJobsAreAdmitted == Spec => []FinalMeansAdmitted
  <1>1. AdmissionInvariant => FinalMeansAdmitted
    BY DEF AdmissionInvariant
  <1>. QED  BY <1>1, AdmissionsKeepInvariant, PTL

(* The variables keep their types, whatever is lost, late or repeated.     *)
THEOREM InspectionTypes == Spec => []TypeOK
  <1>1. AdmissionInvariant => TypeOK
    BY DEF AdmissionInvariant
  <1>. QED  BY <1>1, AdmissionsKeepInvariant, PTL

-----------------------------------------------------------------------------
(* As long as no worker is lost, a job is in one place.                    *)

Idling == {"idle", "restock", "ack"}
InspectionSteps == {"start", "graph", "register", "send", "undo", "error"}
WmsSteps == {"phase1", "call", "wait", "unreachable", "admitted", "failed", "restock"}
WmsCalls == {"call", "wait", "admitted"}

(* A message is live as long as no task has ended with it.                 *)
LEMMA LiveMeans ==
  /\ \A m : Live(m) <=> m \in queue /\ \A w \in Workers : worker[w].msg = m =>
                                         worker[w].pc \notin {"restock", "ack"}
  /\ \A m : Live(m)' <=> m \in queue' /\ \A w \in Workers : worker'[w].msg = m =>
                                           worker'[w].pc \notin {"restock", "ack"}
  BY DEF Live, At

(* A worker at work has a live message, and its job is nowhere else.       *)
LEMMA WorkersPlace ==
  ASSUME AdmissionInvariant, PlacesAgree, NEW w \in Workers, worker[w].pc \notin Idling
  PROVE  /\ worker[w].msg \in Message /\ Of(w) \in Jobs /\ Live(worker[w].msg)
         /\ worker[w].msg \in queue
         /\ job[Of(w)].status \in Underway
         /\ \A m \in queue : Live(m) /\ m.job = Of(w) => m = worker[w].msg
         /\ \A v \in Workers \ {w} : worker[v].pc \notin Idling => Of(v) # Of(w)
         /\ \A c \in Clients : Serving(c) => client[c].job # Of(w)
         /\ \A c \in Clients : client[c].pc = "hitlClear" /\ client[c].job = Of(w)
              => worker[w].msg.kind = "wms"
  <1>1. worker[w].msg \in Message /\ Of(w) \in Jobs
    BY DEF AdmissionInvariant, WorkersAtWork, At, Idling, Message, Of
  <1>2. \A v \in Workers : worker[v].pc \notin Idling => worker[v].msg \in queue /\ Live(worker[v].msg)
    BY LiveMeans DEF PlacesAgree, MessagesHeld, At, Idling
  <1>3. job[Of(w)].status \in Underway
    BY <1>2 DEF PlacesAgree, MessagesAgree, Of
  <1>4. \A m \in queue : Live(m) /\ m.job = Of(w) => m = worker[w].msg
    BY <1>2 DEF PlacesAgree, OneMessage, Of
  <1>5. \A v \in Workers \ {w} : worker[v].pc \notin Idling => Of(v) # Of(w)
    BY <1>2, <1>4 DEF PlacesAgree, MessagesHeld, At, Idling, Of
  <1>6. \A c \in Clients : Serving(c) => client[c].job # Of(w)
    BY <1>2 DEF PlacesAgree, OneRequest, Of
  <1>7. \A c \in Clients : client[c].pc = "hitlClear" /\ client[c].job = Of(w)
              => worker[w].msg.kind = "wms"
    BY <1>2 DEF PlacesAgree, DecisionsStand, Of
  <1>. QED  BY <1>1, <1>2, <1>3, <1>4, <1>5, <1>6, <1>7

(* A status changes while its job is under way or waits for a person, when *)
(* a recheck is undone, or when the job begins.                            *)
StatusStep ==
  \A i \in Jobs :
    \/ job'[i].status = job[i].status
    \/ /\ job[i].status \notin Final \cup {"NONE"}
       /\ job[i].status = "FAILED" => \E c \in Clients : client[c].pc = "restore"
    \/ \E c \in Clients : CreateInspection(c, i)

(* What a step of worker w leaves of its job (x) and of itself (y): the    *)
(* job stays under way unless the task ends and leaves no message behind.  *)
Leaves(w, x, y, sent) ==
  /\ y.msg = worker[w].msg
  /\ y.pc \in IF y.msg.kind = "inspection" THEN InspectionSteps \cup {"ack"} ELSE WmsSteps \cup {"ack"}
  /\ x.status \in Underway \/ (y.pc \in Idling /\ sent = {})
  /\ y.msg.kind = "wms" => /\ x.status \in Final \cup {"PROCESSING", "FAILED", job[Of(w)].status}
                           /\ x.logs.verdict = job[Of(w)].logs.verdict
  /\ y.pc \in WmsCalls => x.status = "PROCESSING" /\ x.logs.verdict = y.verdict
  /\ x.status \in Final => x.logs.verdict = x.grade

(* What it sends is about the same job, and comes when the task ends.      *)
Sends(w, y, sent) ==
  /\ \A m \in sent : m \in Message /\ m \notin queue /\ m.job = Of(w)
                     /\ (worker[w].msg.kind = "wms" => m.kind = "wms")
  /\ \A m, n \in sent : m = n
  /\ sent # {} => y.pc = "ack"

(* A step of a worker on its own job keeps every job in one place.         *)
LEMMA WorkerPlaces ==
  ASSUME AdmissionInvariant, PlacesAgree, NEW w \in Workers, worker[w].pc \notin Idling,
         NEW x, NEW y, NEW sent, Leaves(w, x, y, sent), Sends(w, y, sent),
         \A i \in Jobs : job'[i] = IF i = Of(w) THEN x ELSE job[i],
         \A v \in Workers : worker'[v] = IF v = w THEN y ELSE worker[v],
         queue' = queue \cup sent, UNCHANGED client
  PROVE  PlacesAgree' /\ StatusStep
  <1>. DEFINE j == Of(w)
              mine == worker[w].msg
  <1>1. /\ mine \in Message /\ j \in Jobs /\ Live(mine) /\ mine \in queue /\ mine.job = j
        /\ job[j].status \in Underway
        /\ \A m \in queue : Live(m) /\ m.job = j => m = mine
        /\ \A v \in Workers \ {w} : worker[v].pc \notin Idling => Of(v) # j
        /\ \A c \in Clients : Serving(c) => client[c].job # j
        /\ \A c \in Clients : client[c].pc = "hitlClear" /\ client[c].job = j
             => mine.kind = "wms"
    BY WorkersPlace DEF Of
  <1>2. /\ y.msg = mine /\ y.pc # "idle"
        /\ y.pc \in IF mine.kind = "inspection" THEN InspectionSteps \cup {"ack"} ELSE WmsSteps \cup {"ack"}
    BY DEF Leaves, InspectionSteps, WmsSteps
  <1>3. \A v \in Workers : ~At(v, "idle") => worker[v].msg \in queue
    BY DEF PlacesAgree, MessagesHeld
  <1>4. \A m : Live(m)' => Live(m) \/ m \in sent
    BY <1>2, LiveMeans DEF Idling
  <1>5. \A m : Live(m)' /\ m = mine => sent = {}
    BY <1>1, <1>2, LiveMeans DEF Sends
  <1>6. \A m : Live(m)' /\ m.job = j => \/ m = mine /\ sent = {}
                                        \/ m \in sent
    <2>. SUFFICES ASSUME NEW m, Live(m)', m.job = j, m \notin sent
                  PROVE  m = mine /\ sent = {}
      OBVIOUS
    <2>1. Live(m) /\ m \in queue
      BY <1>4, LiveMeans
    <2>2. m = mine
      BY <1>1, <2>1
    <2>3. sent = {}
      BY <1>5, <2>2
    <2>. QED  BY <2>2, <2>3
  <1>7. \A m \in queue' : Live(m)' /\ m.job # j => Live(m) /\ m \in queue
    BY <1>4, LiveMeans DEF Sends
  <1>8. MessagesHeld'
    BY <1>1, <1>2 DEF PlacesAgree, MessagesHeld, At, Idling
  <1>9. KindsAgree'
    <2>1. mine.kind \in {"inspection", "wms"}
      BY <1>1 DEF Message
    <2>. QED  BY <1>2, <2>1 DEF PlacesAgree, KindsAgree, InspectionSteps, WmsSteps
  <1>10. OneMessage'
    BY <1>6, <1>7 DEF PlacesAgree, OneMessage, Sends
  <1>11. OneRequest'
    BY <1>1, <1>6, <1>7 DEF PlacesAgree, OneRequest, Serving, Sends
  <1>12. MessagesAgree'
    <2>. SUFFICES ASSUME NEW m \in queue', Live(m)'
                  PROVE  job'[m.job].status \in Underway
      BY DEF MessagesAgree
    <2>1. CASE m.job = j
      <3>1. x.status \in Underway
        <4>1. CASE m \in sent
          BY <4>1 DEF Leaves
        <4>2. CASE m = mine /\ sent = {}
          <5>1. y.pc \notin {"restock", "ack"}
            BY <4>2, <1>2, LiveMeans
          <5>. QED  BY <1>2, <5>1 DEF Leaves, Idling
        <4>. QED  BY <1>6, <2>1, <4>1, <4>2
      <3>. QED  BY <1>1, <2>1, <3>1
    <2>2. CASE m.job # j
      <3>1. Live(m) /\ m \in queue /\ m.job \in Jobs
        BY <1>7, <2>2 DEF AdmissionInvariant, TypeOK, Message
      <3>. QED  BY <3>1, <2>2 DEF PlacesAgree, MessagesAgree
    <2>. QED  BY <2>1, <2>2
  <1>13. ASSUME NEW c \in Clients, client[c].pc # "idle"
         PROVE  client[c].job \in Jobs
    BY <1>13 DEF AdmissionInvariant, ClientsAtWork
  <1>14. RequestsAgree'
    BY <1>1, <1>13 DEF PlacesAgree, RequestsAgree, Serving, MyJob
  <1>15. DecisionsStand'
    <2>. SUFFICES ASSUME NEW c \in Clients, client[c].pc = "hitlClear"
                  PROVE  /\ job'[client[c].job].status \in Final \cup {"PROCESSING", "FAILED"}
                         /\ job'[client[c].job].logs.verdict = client[c].logs.verdict
                         /\ \A d \in Clients : Serving(d) => client[d].job # client[c].job
                         /\ \A m \in queue' : Live(m)' /\ m.job = client[c].job => m.kind = "wms"
      BY DEF DecisionsStand, Serving, MyJob
    <2>1. /\ job[client[c].job].status \in Final \cup {"PROCESSING", "FAILED"}
          /\ job[client[c].job].logs.verdict = client[c].logs.verdict
          /\ \A d \in Clients : Serving(d) => client[d].job # client[c].job
          /\ \A m \in queue : Live(m) /\ m.job = client[c].job => m.kind = "wms"
      BY DEF PlacesAgree, DecisionsStand, MyJob
    <2>2. client[c].job \in Jobs
      BY <1>13
    <2>3. CASE client[c].job = j
      BY <1>1, <1>2, <1>6, <2>1, <2>2, <2>3 DEF Leaves, Sends
    <2>4. CASE client[c].job # j
      BY <1>7, <2>1, <2>2, <2>4
    <2>. QED  BY <2>3, <2>4
  <1>16. CallsStand'
    <2>. SUFFICES ASSUME NEW v \in Workers, worker'[v].pc \in WmsCalls
                  PROVE  /\ job'[worker'[v].msg.job].status = "PROCESSING"
                         /\ job'[worker'[v].msg.job].logs.verdict = worker'[v].verdict
      BY DEF CallsStand, Of, WmsCalls
    <2>1. CASE v = w
      BY <1>1, <1>2, <2>1 DEF Leaves
    <2>2. CASE v # w
      <3>1. worker[v].pc \in WmsCalls /\ worker'[v] = worker[v]
        BY <2>2
      <3>2. worker[v].pc \notin Idling
        BY <3>1 DEF WmsCalls, Idling
      <3>3. Of(v) # j /\ Of(v) \in Jobs
        BY <1>1, <2>2, <3>2, WorkersPlace
      <3>. QED  BY <3>1, <3>3 DEF PlacesAgree, CallsStand, Of, WmsCalls
    <2>. QED  BY <2>1, <2>2
  <1>17. FinalMatchesDecision'
    BY <1>1 DEF PlacesAgree, FinalMatchesDecision, Leaves
  <1>18. StatusStep
    BY <1>1 DEF StatusStep, Underway, Final
  <1>. QED  BY <1>8, <1>9, <1>10, <1>11, <1>12, <1>14, <1>15, <1>16, <1>17, <1>18
            DEF PlacesAgree

(* What moving a worker and saving a job say of each worker and each job.  *)
LEMMA GotoMeans ==
  ASSUME AdmissionInvariant, NEW w \in Workers, NEW pc, Goto(w, pc)
  PROVE  /\ \A v \in Workers :
              worker'[v] = IF v = w THEN [worker[w] EXCEPT !.pc = pc] ELSE worker[v]
         /\ LET y == [worker[w] EXCEPT !.pc = pc] IN
            y.pc = pc /\ y.msg = worker[w].msg /\ y.verdict = worker[w].verdict
  BY DEF AdmissionInvariant, TypeOK, Goto, WorkerState

(* A job that is saved is the only one that changes.                       *)
LEMMA SaveMeans ==
  ASSUME AdmissionInvariant, NEW j \in Jobs, NEW x, SaveJob(j, x)
  PROVE  \A i \in Jobs : job'[i] = IF i = j THEN x ELSE job[i]
  BY DEF AdmissionInvariant, TypeOK, SaveJob

(* The steps of one kind of task.                                          *)
StepsOf(w) ==
  IF worker[w].msg.kind = "inspection" THEN InspectionSteps \cup {"ack"} ELSE WmsSteps \cup {"ack"}

(* A worker goes on and leaves its job alone.                              *)
LEMMA WorkerGoesOn ==
  ASSUME AdmissionInvariant, PlacesAgree, NEW w \in Workers, worker[w].pc \notin Idling,
         NEW pc \in StepsOf(w), Goto(w, pc), pc \in WmsCalls => worker[w].pc \in WmsCalls,
         UNCHANGED <<job, queue, client>>
  PROVE  PlacesAgree' /\ StatusStep
  <1>. DEFINE x == job[Of(w)]
              y == [worker[w] EXCEPT !.pc = pc]
  <1>1. /\ Of(w) \in Jobs /\ x.status \in Underway
    BY WorkersPlace
  <1>2. y.pc = pc /\ y.msg = worker[w].msg /\ y.verdict = worker[w].verdict
    BY GotoMeans
  <1>3. worker[w].pc \in WmsCalls => x.status = "PROCESSING" /\ x.logs.verdict = worker[w].verdict
    BY DEF PlacesAgree, CallsStand, WmsCalls
  <1>4. Leaves(w, x, y, {})
    <2>. HIDE DEF y
    <2>. QED  BY <1>1, <1>2, <1>3 DEF Leaves, StepsOf, Underway, Final
  <1>5. Sends(w, y, {})
    BY DEF Sends
  <1>6. queue' = queue \cup {} /\ UNCHANGED client
    OBVIOUS
  <1>7. /\ \A i \in Jobs : job'[i] = IF i = Of(w) THEN x ELSE job[i]
        /\ \A v \in Workers : worker'[v] = IF v = w THEN y ELSE worker[v]
    BY GotoMeans
  <1>. HIDE DEF x, y
  <1>. QED  BY <1>4, <1>5, <1>6, <1>7, WorkerPlaces

(* A worker saves its job and goes on, or ends.                            *)
LEMMA WorkerSavesJob ==
  ASSUME AdmissionInvariant, PlacesAgree, NEW w \in Workers, worker[w].pc \notin Idling,
         NEW pc \in StepsOf(w), NEW x, NEW y,
         y.pc = pc, y.msg = worker[w].msg,
         \A v \in Workers : worker'[v] = IF v = w THEN y ELSE worker[v],
         \A i \in Jobs : job'[i] = IF i = Of(w) THEN x ELSE job[i],
         x.status \in Underway \/ pc \in Idling,
         worker[w].msg.kind = "wms" =>
           /\ x.status \in Final \cup {"PROCESSING", "FAILED", job[Of(w)].status}
           /\ x.logs.verdict = job[Of(w)].logs.verdict,
         pc \in WmsCalls => x.status = "PROCESSING" /\ x.logs.verdict = y.verdict,
         x.status \in Final => x.logs.verdict = x.grade,
         UNCHANGED <<queue, client>>
  PROVE  PlacesAgree' /\ StatusStep
  <1>1. Leaves(w, x, y, {})
    BY DEF Leaves, StepsOf
  <1>2. Sends(w, y, {})
    BY DEF Sends
  <1>3. queue' = queue \cup {} /\ UNCHANGED client
    OBVIOUS
  <1>. QED  BY <1>1, <1>2, <1>3, WorkerPlaces

(* A worker sends a message about its job and ends.                        *)
LEMMA WorkerSends ==
  ASSUME AdmissionInvariant, PlacesAgree, NEW w \in Workers, worker[w].pc \notin Idling,
         NEW m \in Message, Put(m), m.job = Of(w),
         worker[w].msg.kind = "wms" => m.kind = "wms",
         Goto(w, "ack"), UNCHANGED <<job, client>>
  PROVE  PlacesAgree' /\ StatusStep
  <1>1. PICK n \in 0..Cardinality(queue) :
          /\ [m EXCEPT !.copy = n] \notin queue
          /\ queue' = queue \cup {[m EXCEPT !.copy = n]}
    BY DEF Put
  <1>. DEFINE k == [m EXCEPT !.copy = n]
              x == job[Of(w)]
              y == [worker[w] EXCEPT !.pc = "ack"]
  <1>2. Cardinality(queue) \in Nat
    BY FS_CardinalityType DEF AdmissionInvariant
  <1>3. k \in Message /\ k.job = Of(w) /\ k.kind = m.kind
    BY <1>2 DEF Message
  <1>4. Of(w) \in Jobs /\ x.status \in Underway /\ worker[w].msg \in Message
    BY WorkersPlace
  <1>5. y.pc = "ack" /\ y.msg = worker[w].msg
    BY GotoMeans
  <1>6. Leaves(w, x, y, {k})
    <2>. HIDE DEF y, k
    <2>. QED  BY <1>4, <1>5 DEF Leaves, Underway, Final, WmsCalls
  <1>7. Sends(w, y, {k})
    <2>. HIDE DEF y
    <2>. QED  BY <1>1, <1>3, <1>5 DEF Sends
  <1>8. /\ \A i \in Jobs : job'[i] = IF i = Of(w) THEN x ELSE job[i]
        /\ \A v \in Workers : worker'[v] = IF v = w THEN y ELSE worker[v]
    BY GotoMeans
  <1>9. queue' = queue \cup {k} /\ UNCHANGED client
    BY <1>1
  <1>. HIDE DEF x, y, k
  <1>. QED  BY <1>6, <1>7, <1>8, <1>9, WorkerPlaces

(* The kind of task is told by its step.                                   *)
LEMMA WorkersKind ==
  ASSUME AdmissionInvariant, PlacesAgree, NEW w \in Workers, worker[w].pc \notin Idling
  PROVE  /\ worker[w].msg.kind = IF worker[w].pc \in InspectionSteps THEN "inspection" ELSE "wms"
         /\ job[Of(w)] \in JobRow /\ Of(w) \in Jobs /\ worker[w].msg \in Message
         /\ job[Of(w)].status \in Underway
         /\ worker[w].pc \in InspectionSteps => StepsOf(w) = InspectionSteps \cup {"ack"}
         /\ worker[w].pc \in WmsSteps => StepsOf(w) = WmsSteps \cup {"ack"}
  <1>1. worker[w] \in WorkerState
    BY DEF AdmissionInvariant, TypeOK
  <1>2. worker[w].pc \in InspectionSteps \cup WmsSteps
    BY <1>1 DEF WorkerState, Idling, InspectionSteps, WmsSteps
  <1>3. /\ worker[w].pc \in InspectionSteps => worker[w].msg.kind = "inspection"
        /\ worker[w].pc \in WmsSteps => worker[w].msg.kind = "wms"
    BY DEF PlacesAgree, KindsAgree, InspectionSteps, WmsSteps
  <1>4. job[Of(w)] \in JobRow /\ Of(w) \in Jobs /\ job[Of(w)].status \in Underway
    BY WorkersPlace DEF AdmissionInvariant, TypeOK
  <1>. QED  BY <1>2, <1>3, <1>4, WorkersPlace DEF StepsOf

(* A worker of an inspection saves its job and goes on.                    *)
LEMMA InspectionSaves ==
  ASSUME AdmissionInvariant, PlacesAgree, NEW w \in Workers, worker[w].pc \in InspectionSteps,
         NEW pc \in InspectionSteps \cup {"ack"}, NEW x, NEW y,
         y.pc = pc, y.msg = worker[w].msg,
         \A v \in Workers : worker'[v] = IF v = w THEN y ELSE worker[v],
         SaveJob(Of(w), x), x.status \in Underway \/ pc = "ack", x.status \notin Final,
         UNCHANGED <<queue, client>>
  PROVE  PlacesAgree' /\ StatusStep
  <1>1. worker[w].pc \notin Idling
    BY DEF Idling, InspectionSteps
  <1>2. Of(w) \in Jobs /\ pc \in StepsOf(w) /\ worker[w].msg.kind # "wms"
    BY <1>1, WorkersKind
  <1>3. \A i \in Jobs : job'[i] = IF i = Of(w) THEN x ELSE job[i]
    BY <1>2, SaveMeans
  <1>4. pc \notin WmsCalls /\ (x.status \in Underway \/ pc \in Idling)
    BY DEF WmsCalls, InspectionSteps, Idling
  <1>. QED  BY <1>1, <1>2, <1>3, <1>4, WorkerSavesJob

(* The same with only its step changed.                                    *)
LEMMA InspectionSavesAndGoes ==
  ASSUME AdmissionInvariant, PlacesAgree, NEW w \in Workers, worker[w].pc \in InspectionSteps,
         NEW pc \in InspectionSteps \cup {"ack"}, NEW x, Goto(w, pc),
         SaveJob(Of(w), x), x.status \in Underway \/ pc = "ack", x.status \notin Final,
         UNCHANGED <<queue, client>>
  PROVE  PlacesAgree' /\ StatusStep
  <1>. DEFINE y == [worker[w] EXCEPT !.pc = pc]
  <1>1. /\ y.pc = pc /\ y.msg = worker[w].msg
        /\ \A v \in Workers : worker'[v] = IF v = w THEN y ELSE worker[v]
    BY GotoMeans
  <1>. HIDE DEF y
  <1>. QED  BY <1>1, InspectionSaves

(* A worker of an inspection goes on without touching its job.             *)
LEMMA InspectionGoes ==
  ASSUME AdmissionInvariant, PlacesAgree, NEW w \in Workers, worker[w].pc \in InspectionSteps,
         NEW pc \in InspectionSteps \cup {"ack"}, Goto(w, pc), UNCHANGED <<job, queue, client>>
  PROVE  PlacesAgree' /\ StatusStep
  <1>1. worker[w].pc \notin Idling
    BY DEF Idling, InspectionSteps
  <1>2. pc \in StepsOf(w) /\ pc \notin WmsCalls
    BY <1>1, WorkersKind DEF WmsCalls, InspectionSteps
  <1>. QED  BY <1>1, <1>2, WorkerGoesOn

(* A worker of a WMS task goes on without touching its job.                *)
LEMMA WmsGoes ==
  ASSUME AdmissionInvariant, PlacesAgree, NEW w \in Workers,
         worker[w].pc \in WmsSteps \ {"restock"},
         NEW pc \in WmsSteps \cup {"ack"}, Goto(w, pc), UNCHANGED <<job, queue, client>>,
         pc \in WmsCalls => worker[w].pc \in WmsCalls
  PROVE  PlacesAgree' /\ StatusStep
  <1>1. worker[w].pc \notin Idling
    BY DEF Idling, WmsSteps
  <1>2. pc \in StepsOf(w)
    BY <1>1, WorkersKind
  <1>. QED  BY <1>1, <1>2, WorkerGoesOn

(* The start of an inspection.                                             *)
LEMMA PreparePlaces ==
  ASSUME AdmissionInvariant, PlacesAgree, NEW w \in Workers, Prepare(w)
  PROVE  PlacesAgree' /\ StatusStep
  <1>. DEFINE x == [job[Of(w)] EXCEPT !.status = "PROCESSING", !.task = Id(w)]
  <1>1. worker[w].pc = "start" /\ worker[w].pc \in InspectionSteps /\ UNCHANGED <<queue, client>>
    BY DEF Prepare, At, InspectionSteps
  <1>2. CASE KeepJob(Of(w)) /\ Goto(w, "error")
    BY <1>1, <1>2, InspectionGoes DEF KeepJob, InspectionSteps
  <1>3. CASE SaveJob(Of(w), x) /\ Goto(w, "graph")
    <2>1. worker[w].pc \notin Idling
      BY <1>1 DEF Idling
    <2>2. x.status = "PROCESSING"
      BY <2>1, WorkersKind DEF JobRow
    <2>3. x.status \in Underway /\ x.status \notin Final
      BY <2>2 DEF Underway, Final
    <2>. HIDE DEF x
    <2>. QED  BY <1>1, <1>3, <2>3, InspectionSavesAndGoes DEF InspectionSteps
  <1>. QED  BY <1>2, <1>3 DEF Prepare

(* The agents leave the job to an admin.                                   *)
LEMMA SaveHitlRequiredPlaces ==
  ASSUME AdmissionInvariant, PlacesAgree, NEW w \in Workers, SaveHitlRequired(w)
  PROVE  PlacesAgree' /\ StatusStep
  <1>. DEFINE x == [job[Of(w)] EXCEPT !.status = "HITL_REQUIRED"]
  <1>1. /\ worker[w].pc = "graph" /\ worker[w].pc \in InspectionSteps
        /\ UNCHANGED <<queue, client>> /\ SaveJob(Of(w), x) /\ Goto(w, "ack")
    BY DEF SaveHitlRequired, At, InspectionSteps
  <1>2. worker[w].pc \notin Idling
    BY <1>1 DEF Idling
  <1>3. x.status = "HITL_REQUIRED"
    BY <1>2, WorkersKind DEF JobRow
  <1>4. x.status \notin Final
    BY <1>3 DEF Final
  <1>. HIDE DEF x
  <1>. QED  BY <1>1, <1>4, InspectionSavesAndGoes

(* They come to a verdict.                                                 *)
LEMMA SaveVerdictPlaces ==
  ASSUME AdmissionInvariant, PlacesAgree, NEW w \in Workers, NEW v \in Verdicts, SaveVerdict(w, v)
  PROVE  PlacesAgree' /\ StatusStep
  <1>. DEFINE x == [job[Of(w)] EXCEPT !.logs.verdict = v]
  <1>1. worker[w].pc = "graph" /\ worker[w].pc \in InspectionSteps /\ UNCHANGED <<queue, client>>
    BY DEF SaveVerdict, At, InspectionSteps
  <1>2. worker[w].pc \notin Idling
    BY <1>1 DEF Idling
  <1>3. CASE Mine(w) /\ SaveJob(Of(w), x) /\ Goto(w, "register")
    <2>1. x.status = job[Of(w)].status
      BY <1>2, WorkersKind DEF JobRow
    <2>2. x.status \in Underway /\ x.status \notin Final
      BY <1>2, <2>1, WorkersKind DEF Underway, Final
    <2>. HIDE DEF x
    <2>. QED  BY <1>1, <1>3, <2>2, InspectionSavesAndGoes DEF InspectionSteps
  <1>4. CASE KeepJob(Of(w)) /\ Goto(w, "error")
    BY <1>1, <1>4, InspectionGoes DEF KeepJob, InspectionSteps
  <1>. QED  BY <1>3, <1>4 DEF SaveVerdict

(* The id of the WMS task is saved.                                        *)
LEMMA SaveWmsTaskIdPlaces ==
  ASSUME AdmissionInvariant, PlacesAgree, NEW w \in Workers, SaveWmsTaskId(w)
  PROVE  PlacesAgree' /\ StatusStep
  <1>. DEFINE x == [job[Of(w)] EXCEPT !.logs.wms = Fresh]
              y == [worker[w] EXCEPT !.pc = "send", !.wms = Fresh]
  <1>1. worker[w].pc = "register" /\ worker[w].pc \in InspectionSteps /\ UNCHANGED <<queue, client>>
    BY DEF SaveWmsTaskId, At, InspectionSteps
  <1>2. worker[w].pc \notin Idling
    BY <1>1 DEF Idling
  <1>3. CASE SaveJob(Of(w), x) /\ worker' = [worker EXCEPT ![w].pc = "send", ![w].wms = Fresh]
    <2>1. x.status = job[Of(w)].status
      BY <1>2, WorkersKind DEF JobRow
    <2>2. x.status \in Underway /\ x.status \notin Final
      BY <1>2, <2>1, WorkersKind DEF Underway, Final
    <2>3. /\ y.pc = "send" /\ y.msg = worker[w].msg
          /\ \A v \in Workers : worker'[v] = IF v = w THEN y ELSE worker[v]
      BY <1>3 DEF AdmissionInvariant, TypeOK, WorkerState
    <2>. HIDE DEF x, y
    <2>4. "send" \in InspectionSteps \cup {"ack"}
      BY DEF InspectionSteps
    <2>. QED  BY <1>1, <1>3, <2>2, <2>3, <2>4, InspectionSaves
  <1>4. CASE KeepJob(Of(w)) /\ Goto(w, "undo")
    BY <1>1, <1>4, InspectionGoes DEF KeepJob, InspectionSteps
  <1>. QED  BY <1>3, <1>4 DEF SaveWmsTaskId

(* The WMS task is sent, or the message refused.                           *)
LEMMA SendWmsPlaces ==
  ASSUME AdmissionInvariant, PlacesAgree, NEW w \in Workers, SendWms(w)
  PROVE  PlacesAgree' /\ StatusStep
  <1>. DEFINE m == [kind |-> "wms", id |-> worker[w].wms, job |-> Of(w), try |-> 0, copy |-> 0]
  <1>1. worker[w].pc = "send" /\ worker[w].pc \in InspectionSteps /\ UNCHANGED <<job, client>>
    BY DEF SendWms, At, InspectionSteps
  <1>2. worker[w].pc \notin Idling
    BY <1>1 DEF Idling
  <1>3. CASE Submit("wms", worker[w].wms, Of(w)) /\ Goto(w, "ack")
    <2>1. worker[w].wms \in Nat
      BY <1>1 DEF AdmissionInvariant, WorkersAtWork, At
    <2>2. m \in Message /\ m.job = Of(w) /\ m.kind = "wms" /\ Put(m)
      BY <1>2, <1>3, <2>1, WorkersKind DEF Message, Submit
    <2>. HIDE DEF m
    <2>. QED  BY <1>1, <1>2, <1>3, <2>2, WorkerSends
  <1>4. CASE Goto(w, "undo") /\ UNCHANGED queue
    BY <1>1, <1>4, InspectionGoes DEF InspectionSteps
  <1>. QED  BY <1>3, <1>4 DEF SendWms

(* The message was refused: the job fails.                                 *)
LEMMA SaveDispatchFailedPlaces ==
  ASSUME AdmissionInvariant, PlacesAgree, NEW w \in Workers, SaveDispatchFailed(w)
  PROVE  PlacesAgree' /\ StatusStep
  <1>. DEFINE x == [job[Of(w)] EXCEPT !.status = "FAILED", !.logs.wms = None]
  <1>1. /\ worker[w].pc = "undo" /\ worker[w].pc \in InspectionSteps
        /\ UNCHANGED <<queue, client>> /\ Goto(w, "ack")
    BY DEF SaveDispatchFailed, At, InspectionSteps
  <1>2. worker[w].pc \notin Idling
    BY <1>1 DEF Idling
  <1>3. CASE SaveJob(Of(w), x)
    <2>1. x.status = "FAILED"
      BY <1>2, WorkersKind DEF JobRow
    <2>2. x.status \notin Final
      BY <2>1 DEF Final
    <2>. HIDE DEF x
    <2>. QED  BY <1>1, <1>3, <2>2, InspectionSavesAndGoes
  <1>4. CASE KeepJob(Of(w))
    BY <1>1, <1>4, InspectionGoes DEF KeepJob
  <1>. QED  BY <1>3, <1>4 DEF SaveDispatchFailed

(* The last try of a task: the job fails.                                  *)
LEMMA SaveFailedPlaces ==
  ASSUME AdmissionInvariant, PlacesAgree, NEW w \in Workers, worker[w].pc \notin Idling,
         SaveFailed(w), UNCHANGED <<queue, client>>
  PROVE  PlacesAgree' /\ StatusStep
  <1>. DEFINE x == [job[Of(w)] EXCEPT !.status = "FAILED"]
              y == [worker[w] EXCEPT !.pc = "ack"]
  <1>1. Goto(w, "ack") /\ (UNCHANGED job \/ SaveJob(Of(w), x))
    BY DEF SaveFailed, KeepJob
  <1>2. "ack" \in StepsOf(w) /\ Of(w) \in Jobs
    BY WorkersKind DEF StepsOf
  <1>3. CASE UNCHANGED job
    BY <1>1, <1>2, <1>3, WorkerGoesOn DEF WmsCalls
  <1>4. CASE SaveJob(Of(w), x)
    <2>1. x.status = "FAILED" /\ x.logs = job[Of(w)].logs
      BY WorkersKind DEF JobRow
    <2>2. /\ y.pc = "ack" /\ y.msg = worker[w].msg
          /\ \A v \in Workers : worker'[v] = IF v = w THEN y ELSE worker[v]
      BY <1>1, GotoMeans
    <2>3. \A i \in Jobs : job'[i] = IF i = Of(w) THEN x ELSE job[i]
      BY <1>2, <1>4, SaveMeans
    <2>4. "ack" \in Idling /\ "ack" \notin WmsCalls /\ "FAILED" \notin Final
      BY DEF Idling, WmsCalls, Final
    <2>. HIDE DEF x, y
    <2>. QED  BY <1>2, <2>1, <2>2, <2>3, <2>4, WorkerSavesJob
  <1>. QED  BY <1>1, <1>3, <1>4

(* A retry, or the last try.                                               *)
LEMMA RetryPlaces ==
  ASSUME AdmissionInvariant, PlacesAgree, NEW w \in Workers, worker[w].pc \notin Idling,
         RetryOr(w, SaveFailed(w)), UNCHANGED client
  PROVE  PlacesAgree' /\ StatusStep
  <1>. DEFINE m == [worker[w].msg EXCEPT !.try = @ + 1]
  <1>1. CASE Put(m) /\ Goto(w, "ack") /\ UNCHANGED job
    <2>1. m \in Message /\ m.job = Of(w) /\ m.kind = worker[w].msg.kind
      BY WorkersKind DEF Message, Of
    <2>. HIDE DEF m
    <2>. QED  BY <1>1, <2>1, WorkerSends
  <1>2. CASE SaveFailed(w) /\ UNCHANGED queue
    BY <1>2, SaveFailedPlaces
  <1>. QED  BY <1>1, <1>2 DEF RetryOr

(* A step that makes no message live and leaves jobs and requests alone.   *)
LEMMA PlacesSame ==
  ASSUME PlacesAgree, UNCHANGED <<job, client>>, queue' \subseteq queue,
         \A m \in queue' : Live(m)' => Live(m), MessagesHeld', KindsAgree', CallsStand'
  PROVE  PlacesAgree' /\ StatusStep
  <1>1. OneMessage'
    BY DEF PlacesAgree, OneMessage
  <1>2. OneRequest'
    BY DEF PlacesAgree, OneRequest, Serving
  <1>3. MessagesAgree'
    BY DEF PlacesAgree, MessagesAgree
  <1>4. RequestsAgree'
    BY DEF PlacesAgree, RequestsAgree, Serving, MyJob
  <1>5. DecisionsStand'
    BY DEF PlacesAgree, DecisionsStand, Serving, MyJob
  <1>6. FinalMatchesDecision'
    BY DEF PlacesAgree, FinalMatchesDecision
  <1>7. StatusStep
    BY DEF StatusStep
  <1>8. PlacesAgree'
    BY <1>1, <1>2, <1>3, <1>4, <1>5, <1>6 DEF PlacesAgree
  <1>. QED  BY <1>7, <1>8

(* A worker takes a message that nobody has.                               *)
LEMMA TakePlaces ==
  ASSUME AdmissionInvariant, PlacesAgree, NEW w \in Workers, NEW m \in queue, Take(w, m)
  PROVE  PlacesAgree' /\ StatusStep
  <1>. DEFINE pc == IF m.kind = "wms" THEN "phase1" ELSE "start"
  <1>1. /\ worker[w].pc = "idle" /\ \A x \in Workers : worker[x].msg # m
        /\ queue' = queue /\ UNCHANGED <<job, client>>
    BY DEF Take, Deliver, At
  <1>2. /\ \A v \in Workers \ {w} : worker'[v] = worker[v]
        /\ worker'[w].msg = m /\ worker'[w].pc = pc
    BY DEF Take, AdmissionInvariant, TypeOK, WorkerState
  <1>3. m \in Message
    BY DEF AdmissionInvariant, TypeOK
  <1>4. \A k \in queue' : Live(k)' => Live(k)
    BY <1>1, <1>2, LiveMeans
  <1>5. MessagesHeld'
    BY <1>1, <1>2 DEF PlacesAgree, MessagesHeld, At
  <1>6. KindsAgree'
    <2>1. m.kind \in {"inspection", "wms"}
      BY <1>3 DEF Message
    <2>2. /\ pc \in {"phase1", "start"} /\ (pc = "phase1" => m.kind = "wms")
          /\ (pc = "start" => m.kind = "inspection")
      BY <2>1
    <2>. HIDE DEF pc
    <2>. QED  BY <1>1, <1>2, <2>2 DEF PlacesAgree, KindsAgree
  <1>7. CallsStand'
    <2>1. worker'[w].pc \notin WmsCalls
      BY <1>2 DEF WmsCalls
    <2>. QED  BY <1>1, <1>2, <2>1 DEF PlacesAgree, CallsStand, Of, WmsCalls
  <1>. QED  BY <1>1, <1>4, <1>5, <1>6, <1>7, PlacesSame

(* A task that has ended goes on to its acknowledgement.                   *)
LEMMA RestockPlaces ==
  ASSUME AdmissionInvariant, PlacesAgree, NEW w \in Workers, worker[w].pc = "restock",
         Goto(w, "ack"), UNCHANGED <<job, queue, client>>
  PROVE  PlacesAgree' /\ StatusStep
  <1>1. /\ \A v \in Workers \ {w} : worker'[v] = worker[v]
        /\ worker'[w].msg = worker[w].msg /\ worker'[w].pc = "ack"
    BY DEF Goto, AdmissionInvariant, TypeOK, WorkerState
  <1>2. \A k \in queue' : Live(k)' => Live(k)
    BY <1>1, LiveMeans
  <1>3. MessagesHeld'
    BY <1>1 DEF PlacesAgree, MessagesHeld, At
  <1>4. KindsAgree'
    BY <1>1 DEF PlacesAgree, KindsAgree
  <1>5. CallsStand'
    BY <1>1 DEF PlacesAgree, CallsStand, Of
  <1>. QED  BY <1>2, <1>3, <1>4, <1>5, PlacesSame

(* The acknowledgement.                                                    *)
LEMMA AckPlaces ==
  ASSUME AdmissionInvariant, PlacesAgree, NEW w \in Workers, Ack(w)
  PROVE  PlacesAgree' /\ StatusStep
  <1>1. /\ worker[w].pc = "ack" /\ queue' = queue \ {worker[w].msg}
        /\ UNCHANGED <<job, client>>
    BY DEF Ack, At
  <1>2. /\ \A v \in Workers \ {w} : worker'[v] = worker[v]
        /\ worker'[w].pc = "idle"
    BY DEF Ack, AdmissionInvariant, TypeOK, WorkerIdle
  <1>3. \A k \in queue' : Live(k)' => Live(k)
    BY <1>1, <1>2, LiveMeans
  <1>4. MessagesHeld'
    BY <1>1, <1>2 DEF PlacesAgree, MessagesHeld, At
  <1>5. KindsAgree'
    BY <1>2 DEF PlacesAgree, KindsAgree
  <1>6. CallsStand'
    BY <1>1, <1>2 DEF PlacesAgree, CallsStand, Of
  <1>. QED  BY <1>1, <1>3, <1>4, <1>5, <1>6, PlacesSame

(* What the WMS said before is read, or what to ask for.                   *)
LEMMA CheckSavedResultPlaces ==
  ASSUME AdmissionInvariant, PlacesAgree, NEW w \in Workers, CheckSavedResult(w)
  PROVE  PlacesAgree' /\ StatusStep
  <1>. DEFINE x == job[Of(w)]
              y == [worker[w] EXCEPT !.pc = "call", !.verdict = x.logs.verdict,
                                     !.admin = x.logs.admin]
  <1>1. /\ worker[w].pc = "phase1" /\ worker[w].pc \in WmsSteps \ {"restock"}
        /\ UNCHANGED <<job, queue, client>>
    BY DEF CheckSavedResult, At, WmsSteps, KeepJob
  <1>2. worker[w].pc \notin Idling
    BY <1>1 DEF Idling
  <1>3. x.status \notin Final
    BY <1>2, WorkersKind DEF Underway, Final
  <1>4. CASE Goto(w, "failed") \/ Goto(w, "ack")
    <2>1. "failed" \in WmsSteps \cup {"ack"} /\ {"failed", "ack"} \cap WmsCalls = {}
      BY DEF WmsSteps, WmsCalls
    <2>. QED  BY <1>1, <1>4, <2>1, WmsGoes
  <1>5. CASE /\ x.status = "PROCESSING"
             /\ worker' = [worker EXCEPT ![w].pc = "call", ![w].verdict = x.logs.verdict,
                                         ![w].admin = x.logs.admin]
    <2>1. /\ y.pc = "call" /\ y.msg = worker[w].msg /\ y.verdict = x.logs.verdict
          /\ \A v \in Workers : worker'[v] = IF v = w THEN y ELSE worker[v]
      BY <1>5 DEF AdmissionInvariant, TypeOK, WorkerState
    <2>2. "call" \in StepsOf(w)
      BY <1>1, <1>2, WorkersKind DEF WmsSteps
    <2>3. \A i \in Jobs : job'[i] = IF i = Of(w) THEN x ELSE job[i]
      BY <1>1
    <2>4. x.status \in Underway
      BY <1>2, WorkersKind
    <2>5. x.status \in Final => x.logs.verdict = x.grade
      BY <1>3
    <2>6. /\ x.status \in Final \cup {"PROCESSING", "FAILED", job[Of(w)].status}
          /\ x.logs.verdict = job[Of(w)].logs.verdict
      OBVIOUS
    <2>7. UNCHANGED <<queue, client>> /\ x.status = "PROCESSING"
      BY <1>1, <1>5
    <2>. DEFINE pc == "call"
    <2>8. y.pc = pc /\ y.msg = worker[w].msg /\ pc \in StepsOf(w)
      BY <2>1, <2>2
    <2>9. /\ x.status \in Underway \/ pc \in Idling
          /\ pc \in WmsCalls => x.status = "PROCESSING" /\ x.logs.verdict = y.verdict
      BY <2>1, <2>4, <2>7
    <2>. HIDE DEF x, y, pc
    <2>. QED  BY <1>2, <2>1, <2>3, <2>5, <2>6, <2>7, <2>8, <2>9, WorkerSavesJob
  <1>. QED  BY <1>3, <1>4, <1>5 DEF CheckSavedResult

(* The final status.                                                       *)
LEMMA SaveFinalPlaces ==
  ASSUME AdmissionInvariant, PlacesAgree, NEW w \in Workers, SaveFinal(w)
  PROVE  PlacesAgree' /\ StatusStep
  <1>. DEFINE st == StatusOf(worker[w].verdict)
              pc == IF st = "REJECTED" THEN "restock" ELSE "ack"
              x == [job[Of(w)] EXCEPT !.status = st, !.grade = worker[w].verdict,
                                      !.logs.result = TRUE]
              y == [worker[w] EXCEPT !.pc = pc]
  <1>1. worker[w].pc = "admitted" /\ UNCHANGED <<queue, client>>
    BY DEF SaveFinal, At
  <1>2. worker[w].pc \notin Idling /\ worker[w].pc \in WmsSteps /\ worker[w].pc \notin InspectionSteps
    BY <1>1 DEF Idling, WmsSteps, InspectionSteps
  <1>3. job[Of(w)].status = "PROCESSING" /\ job[Of(w)].logs.verdict = worker[w].verdict
    BY <1>1 DEF PlacesAgree, CallsStand
  <1>4. SaveJob(Of(w), x) /\ Goto(w, pc)
    BY <1>3 DEF SaveFinal
  <1>5. /\ x.status = st /\ x.grade = worker[w].verdict
        /\ x.logs.verdict = job[Of(w)].logs.verdict
    BY <1>2, WorkersKind DEF JobRow, Logs
  <1>6. st \in Final
    BY DEF StatusOf, Final
  <1>7. pc \in StepsOf(w) /\ pc \in Idling /\ pc \notin WmsCalls
    BY <1>2, WorkersKind DEF WmsSteps, Idling, WmsCalls
  <1>8. /\ y.pc = pc /\ y.msg = worker[w].msg
        /\ \A v \in Workers : worker'[v] = IF v = w THEN y ELSE worker[v]
    BY <1>4, GotoMeans
  <1>9. \A i \in Jobs : job'[i] = IF i = Of(w) THEN x ELSE job[i]
    BY <1>2, <1>4, SaveMeans, WorkersKind
  <1>. HIDE DEF x, y, pc, st
  <1>. QED  BY <1>1, <1>2, <1>3, <1>5, <1>6, <1>7, <1>8, <1>9, WorkerSavesJob

(* A worker is killed, or met by an exception: its task ends or goes to    *)
(* its handler.                                                            *)
LEMMA StopPlaces ==
  ASSUME AdmissionInvariant, PlacesAgree, NEW w \in Workers,
         KillTask(w) \/ Interrupt(w) \/ Timeout(w)
  PROVE  PlacesAgree' /\ StatusStep
  <1>1. UNCHANGED <<job, queue, client>>
    BY DEF KillTask, Interrupt, Timeout
  <1>2. worker[w] \in WorkerState
    BY DEF AdmissionInvariant, TypeOK
  <1>3. CASE worker[w].pc = "restock"
    BY <1>1, <1>3, RestockPlaces DEF KillTask, Interrupt, Timeout
  <1>4. CASE worker[w].pc # "restock"
    <2>1. PICK pc : Goto(w, pc) /\ \/ worker[w].pc \in InspectionSteps /\ pc \in {"error", "undo", "ack"}
                                   \/ /\ worker[w].pc \in WmsSteps \ {"restock"}
                                      /\ pc \in {"failed", "unreachable", "ack"}
      <3>1. CASE KillTask(w)
        <4>1. Goto(w, "ack") /\ worker[w].pc \notin {"idle", "ack"}
          BY <3>1 DEF KillTask
        <4>. QED  BY <1>2, <1>4, <4>1 DEF WorkerState, InspectionSteps, WmsSteps
      <3>2. CASE Interrupt(w)
        <4>1. /\ Goto(w, Handler(worker[w].pc))
              /\ worker[w].pc \in {"start", "graph", "register", "send",
                                   "phase1", "call", "wait", "admitted"}
          BY <3>2 DEF Interrupt
        <4>2. /\ worker[w].pc \in {"start", "graph"} => Handler(worker[w].pc) = "error"
              /\ worker[w].pc \in {"register", "send"} => Handler(worker[w].pc) = "undo"
              /\ worker[w].pc \in {"phase1", "call", "wait", "admitted"}
                   => Handler(worker[w].pc) = "failed"
          BY DEF Handler
        <4>. QED  BY <4>1, <4>2 DEF InspectionSteps, WmsSteps
      <3>3. CASE Timeout(w)
        BY <3>3 DEF Timeout, WmsSteps
      <3>. QED  BY <3>1, <3>2, <3>3
    <2>2. CASE worker[w].pc \in InspectionSteps /\ pc \in {"error", "undo", "ack"}
      <3>1. pc \in InspectionSteps \cup {"ack"}
        BY <2>2 DEF InspectionSteps
      <3>. QED  BY <1>1, <2>1, <2>2, <3>1, InspectionGoes
    <2>3. CASE worker[w].pc \in WmsSteps \ {"restock"} /\ pc \in {"failed", "unreachable", "ack"}
      <3>1. pc \in WmsSteps \cup {"ack"} /\ pc \notin WmsCalls
        BY <2>3 DEF WmsSteps, WmsCalls
      <3>. QED  BY <1>1, <2>1, <2>3, <3>1, WmsGoes
    <2>. QED  BY <2>1, <2>2, <2>3
  <1>. QED  BY <1>3, <1>4

(* The steps of a worker together.                                         *)
LEMMA WorkerStepPlaces ==
  ASSUME AdmissionInvariant, PlacesAgree, NEW w \in Workers, WorkerStep(w)
  PROVE  PlacesAgree' /\ StatusStep
  <1>1. CASE \E m \in queue : Take(w, m)
    BY <1>1, TakePlaces
  <1>2. CASE Prepare(w) \/ SaveHitlRequired(w) \/ SaveWmsTaskId(w) \/ SendWms(w) \/ SaveDispatchFailed(w)
    BY <1>2, PreparePlaces, SaveHitlRequiredPlaces, SaveWmsTaskIdPlaces, SendWmsPlaces,
       SaveDispatchFailedPlaces
  <1>3. CASE \E v \in Verdicts : SaveVerdict(w, v)
    BY <1>3, SaveVerdictPlaces
  <1>4. CASE GraphFails(w)
    <2>1. /\ worker[w].pc \in InspectionSteps /\ "error" \in InspectionSteps \cup {"ack"}
          /\ Goto(w, "error") /\ UNCHANGED <<job, queue, client>>
      BY <1>4 DEF GraphFails, At, InspectionSteps
    <2>. QED  BY <2>1, InspectionGoes
  <1>5. CASE InspectionError(w) \/ WmsUnreachable(w)
    <2>1. worker[w].pc \notin Idling /\ RetryOr(w, SaveFailed(w)) /\ UNCHANGED client
      BY <1>5 DEF InspectionError, WmsUnreachable, At, Idling
    <2>. QED  BY <2>1, RetryPlaces
  <1>6. CASE WmsFailed(w)
    <2>1. worker[w].pc \notin Idling /\ SaveFailed(w) /\ UNCHANGED <<queue, client>>
      BY <1>6 DEF WmsFailed, At, Idling
    <2>. QED  BY <2>1, SaveFailedPlaces
  <1>7. CASE CheckSavedResult(w) \/ SaveFinal(w) \/ Ack(w)
    BY <1>7, CheckSavedResultPlaces, SaveFinalPlaces, AckPlaces
  <1>8. CASE \E s \in Servers : CallWms(w, s)
    <2>1. /\ worker[w].pc \in WmsSteps \ {"restock"} /\ "wait" \in WmsSteps \cup {"ack"}
          /\ worker[w].pc \in WmsCalls
          /\ Goto(w, "wait") /\ UNCHANGED <<job, queue, client>>
      BY <1>8 DEF CallWms, At, WmsSteps, WmsCalls
    <2>. QED  BY <2>1, WmsGoes
  <1>9. CASE DispatchRestock(w)
    BY <1>9, RestockPlaces DEF DispatchRestock, At
  <1>. QED  BY <1>1, <1>2, <1>3, <1>4, <1>5, <1>6, <1>7, <1>8, <1>9 DEF WorkerStep

(* What a step of request c leaves of its job (x) and of itself (y).       *)
RequestLeaves(c, j, x, y, sent) ==
  /\ y.pc # "idle" => y.job = j
  /\ \A m \in sent : m \in Message /\ m \notin queue /\ m.job = j
                     /\ (y.pc = "hitlClear" => m.kind = "wms")
  /\ \A m, n \in sent : m = n
  /\ sent # {} => y.pc \in {"idle", "hitlClear"} /\ x.status \in Underway
  /\ y.pc \notin {"idle", "hitlClear", "restore"} => x.status \in Underway
  /\ y.pc = "restore" => x.status = "FAILED"
  /\ y.pc \in {"hitlSend", "hitlClear"} =>
       x.status = "PROCESSING" /\ x.logs.verdict = y.logs.verdict
  /\ x.status \notin Final

(* A request has a job of its own, or a job that waits for a person.       *)
Waiting == {"NONE", "RECHECK_REQUIRED", "HITL_REQUIRED"}
Owns(c, j) ==
  \/ Serving(c) /\ client[c].job = j
  \/ client[c].pc = "idle" /\ job[j].status \in Waiting

(* So nothing else is at work on it.                                       *)
LEMMA RequestsPlace ==
  ASSUME AdmissionInvariant, PlacesAgree, NEW c \in Clients, NEW j \in Jobs, Owns(c, j)
  PROVE  /\ \A m \in queue : Live(m) => m.job # j
         /\ \A d \in Clients \ {c} : client[d].pc # "idle" => client[d].job # j
         /\ \A w \in Workers : worker[w].pc \notin Idling => Of(w) # j
         /\ job[j].status \notin Final
         /\ client[c].pc # "hitlClear"
  <1>1. CASE Serving(c) /\ client[c].job = j
    <2>1. \A m \in queue : Live(m) => m.job # j
      BY <1>1 DEF PlacesAgree, OneRequest
    <2>2. \A d \in Clients \ {c} : client[d].pc # "idle" => client[d].job # j
      BY <1>1 DEF PlacesAgree, OneRequest, DecisionsStand, Serving
    <2>3. job[j].status \notin Final /\ client[c].pc # "hitlClear"
      BY <1>1 DEF PlacesAgree, RequestsAgree, MyJob, Underway, Final, Serving
    <2>4. \A w \in Workers : worker[w].pc \notin Idling => Of(w) # j
      BY <1>1, WorkersPlace
    <2>. QED  BY <2>1, <2>2, <2>3, <2>4
  <1>2. CASE client[c].pc = "idle" /\ job[j].status \in Waiting
    <2>1. \A m \in queue : Live(m) => m.job # j
      BY <1>2 DEF PlacesAgree, MessagesAgree, Underway, Waiting
    <2>2. \A d \in Clients : Serving(d) => client[d].job # j
      BY <1>2 DEF PlacesAgree, RequestsAgree, MyJob, Underway, Waiting
    <2>3. \A d \in Clients : client[d].pc = "hitlClear" => client[d].job # j
      BY <1>2 DEF PlacesAgree, DecisionsStand, MyJob, Final, Waiting
    <2>4. \A d \in Clients \ {c} : client[d].pc # "idle" => client[d].job # j
      BY <2>2, <2>3 DEF Serving
    <2>5. \A w \in Workers : worker[w].pc \notin Idling => Of(w) # j
      BY <1>2, WorkersPlace DEF Waiting, Underway
    <2>6. job[j].status \notin Final /\ client[c].pc # "hitlClear"
      BY <1>2 DEF Final, Waiting
    <2>. QED  BY <2>1, <2>4, <2>5, <2>6
  <1>. QED  BY <1>1, <1>2 DEF Owns

(* A step of a request on its own job keeps every job in one place.        *)
LEMMA RequestPlaces ==
  ASSUME AdmissionInvariant, PlacesAgree, NEW c \in Clients, NEW j \in Jobs, Owns(c, j),
         NEW x, NEW y, NEW sent, RequestLeaves(c, j, x, y, sent),
         \A i \in Jobs : job'[i] = IF i = j THEN x ELSE job[i],
         \A d \in Clients : client'[d] = IF d = c THEN y ELSE client[d],
         queue' = queue \cup sent, UNCHANGED worker
  PROVE  PlacesAgree'
  <1>1. /\ \A m \in queue : Live(m) => m.job # j
        /\ \A d \in Clients \ {c} : client[d].pc # "idle" => client[d].job # j
        /\ \A w \in Workers : worker[w].pc \notin Idling => Of(w) # j
        /\ client[c].pc # "hitlClear"
    BY RequestsPlace
  <1>2. \A m \in queue : Live(m)' => Live(m)
    BY LiveMeans
  <1>3. \A m \in queue' : Live(m)' => \/ Live(m) /\ m \in queue /\ m.job # j
                                      \/ m \in sent /\ m.job = j
    BY <1>1, <1>2 DEF RequestLeaves
  <1>4. MessagesHeld'
    BY DEF PlacesAgree, MessagesHeld, At
  <1>5. KindsAgree'
    BY DEF PlacesAgree, KindsAgree
  <1>6. OneMessage'
    BY <1>3 DEF PlacesAgree, OneMessage, RequestLeaves
  <1>7. ASSUME NEW d \in Clients, client'[d].pc # "idle"
        PROVE  \/ d = c /\ client'[d].job = j /\ client'[d] = y
               \/ d # c /\ client'[d] = client[d] /\ client[d].job # j /\ client[d].job \in Jobs
    BY <1>1, <1>7 DEF RequestLeaves, AdmissionInvariant, ClientsAtWork
  <1>8. OneRequest'
    <2>. SUFFICES ASSUME NEW d \in Clients, client'[d].pc \notin {"idle", "hitlClear"}
                  PROVE  /\ \A m \in queue' : Live(m)' => m.job # client'[d].job
                         /\ \A e \in Clients \ {d} : client'[e].pc \notin {"idle", "hitlClear"}
                                                       => client'[e].job # client'[d].job
      BY DEF OneRequest, Serving
    <2>1. CASE d = c
      <3>1. sent = {}
        BY <2>1 DEF RequestLeaves
      <3>. QED  BY <1>3, <1>7, <2>1, <3>1
    <2>2. CASE d # c
      <3>1. /\ client[d].pc \notin {"idle", "hitlClear"} /\ client'[d] = client[d]
            /\ client[d].job # j
        BY <1>7, <2>2
      <3>2. \A m \in queue' : Live(m)' => m.job # client'[d].job
        BY <1>3, <3>1 DEF PlacesAgree, OneRequest, Serving
      <3>3. \A e \in Clients \ {d} : client'[e].pc \notin {"idle", "hitlClear"}
                                       => client'[e].job # client'[d].job
        BY <1>7, <3>1 DEF PlacesAgree, OneRequest, Serving
      <3>. QED  BY <3>2, <3>3
    <2>. QED  BY <2>1, <2>2
  <1>9. MessagesAgree'
    <2>. SUFFICES ASSUME NEW m \in queue', Live(m)'
                  PROVE  job'[m.job].status \in Underway
      BY DEF MessagesAgree
    <2>1. CASE Live(m) /\ m \in queue /\ m.job # j
      BY <2>1 DEF PlacesAgree, MessagesAgree, AdmissionInvariant, TypeOK, Message
    <2>2. CASE m \in sent /\ m.job = j
      BY <2>2 DEF RequestLeaves
    <2>. QED  BY <1>3, <2>1, <2>2
  <1>10. RequestsAgree'
    <2>. SUFFICES ASSUME NEW d \in Clients, client'[d].pc \notin {"idle", "hitlClear"}
                  PROVE  LET r == job'[client'[d].job] IN
                         /\ client'[d].pc = "restore" => r.status = "FAILED"
                         /\ client'[d].pc # "restore" => r.status \in Underway
                         /\ client'[d].pc = "hitlSend" =>
                              r.status = "PROCESSING" /\ r.logs.verdict = client'[d].logs.verdict
      BY DEF RequestsAgree, Serving, MyJob
    <2>1. CASE d = c
      BY <1>7, <2>1 DEF RequestLeaves
    <2>2. CASE d # c
      BY <1>7, <2>2 DEF PlacesAgree, RequestsAgree, Serving, MyJob
    <2>. QED  BY <2>1, <2>2
  <1>11. DecisionsStand'
    <2>. SUFFICES ASSUME NEW d \in Clients, client'[d].pc = "hitlClear"
                  PROVE  LET i == client'[d].job IN
                         /\ job'[i].status \in Final \cup {"PROCESSING", "FAILED"}
                         /\ job'[i].logs.verdict = client'[d].logs.verdict
                         /\ \A e \in Clients : client'[e].pc \notin {"idle", "hitlClear"}
                                                 => client'[e].job # i
                         /\ \A m \in queue' : Live(m)' /\ m.job = i => m.kind = "wms"
      BY DEF DecisionsStand, Serving, MyJob
    <2>1. CASE d = c
      <3>1. \A e \in Clients : client'[e].pc \notin {"idle", "hitlClear"} => client'[e].job # j
        BY <1>7, <2>1
      <3>2. \A m \in queue' : Live(m)' /\ m.job = j => m.kind = "wms"
        BY <1>3, <2>1 DEF RequestLeaves
      <3>. QED  BY <1>7, <2>1, <3>1, <3>2 DEF RequestLeaves
    <2>2. CASE d # c
      <3>1. client'[d] = client[d] /\ client[d].job # j /\ client[d].job \in Jobs
        BY <1>7, <2>2
      <3>2. \A e \in Clients : client'[e].pc \notin {"idle", "hitlClear"}
                                 => client'[e].job # client[d].job
        BY <1>7, <3>1 DEF PlacesAgree, DecisionsStand, Serving
      <3>3. \A m \in queue' : Live(m)' /\ m.job = client[d].job => m.kind = "wms"
        BY <1>3, <3>1 DEF PlacesAgree, DecisionsStand
      <3>. QED  BY <3>1, <3>2, <3>3 DEF PlacesAgree, DecisionsStand, MyJob
    <2>. QED  BY <2>1, <2>2
  <1>12. CallsStand'
    <2>. SUFFICES ASSUME NEW v \in Workers, worker[v].pc \in WmsCalls
                  PROVE  /\ job'[Of(v)].status = "PROCESSING"
                         /\ job'[Of(v)].logs.verdict = worker[v].verdict
      BY DEF CallsStand, Of, WmsCalls
    <2>1. worker[v].pc \notin Idling
      BY DEF WmsCalls, Idling
    <2>2. Of(v) # j /\ Of(v) \in Jobs
      BY <1>1, <2>1, WorkersPlace
    <2>. QED  BY <2>2 DEF PlacesAgree, CallsStand, WmsCalls
  <1>13. FinalMatchesDecision'
    BY DEF PlacesAgree, FinalMatchesDecision, RequestLeaves
  <1>. QED  BY <1>4, <1>5, <1>6, <1>8, <1>9, <1>10, <1>11, <1>12, <1>13 DEF PlacesAgree

(* What it does to the statuses.                                           *)
LEMMA RequestStatus ==
  ASSUME AdmissionInvariant, PlacesAgree, NEW c \in Clients, NEW j \in Jobs, Owns(c, j), NEW x,
         \A i \in Jobs : job'[i] = IF i = j THEN x ELSE job[i],
         job[j].status # "NONE" \/ CreateInspection(c, j)
  PROVE  StatusStep
  <1>1. job[j].status \notin Final
    BY RequestsPlace
  <1>2. job[j].status = "FAILED" => client[c].pc = "restore"
    BY DEF Owns, PlacesAgree, RequestsAgree, MyJob, Underway, Waiting
  <1>. QED  BY <1>1, <1>2 DEF StatusStep

(* A request saves its job, or leaves it alone, and goes on or ends.       *)
LEMMA RequestSaves ==
  ASSUME AdmissionInvariant, PlacesAgree, NEW c \in Clients, NEW j \in Jobs, Owns(c, j),
         NEW x, NEW y, RequestLeaves(c, j, x, y, {}),
         \A i \in Jobs : job'[i] = IF i = j THEN x ELSE job[i],
         client' = [client EXCEPT ![c] = y],
         job[j].status # "NONE" \/ CreateInspection(c, j),
         UNCHANGED <<queue, worker>>
  PROVE  PlacesAgree' /\ StatusStep
  <1>1. \A d \in Clients : client'[d] = IF d = c THEN y ELSE client[d]
    BY DEF AdmissionInvariant, TypeOK
  <1>2. queue' = queue \cup {} /\ UNCHANGED worker
    OBVIOUS
  <1>3. PlacesAgree'
    BY <1>1, <1>2, RequestPlaces
  <1>4. StatusStep
    BY RequestStatus
  <1>. QED  BY <1>3, <1>4

(* A request ends with its job not final.                                  *)
LEMMA RequestEnds ==
  ASSUME AdmissionInvariant, PlacesAgree, NEW c \in Clients, NEW j \in Jobs, Owns(c, j),
         NEW x, x.status \notin Final, \A i \in Jobs : job'[i] = IF i = j THEN x ELSE job[i],
         Done(c), job[j].status # "NONE", UNCHANGED <<queue, worker>>
  PROVE  PlacesAgree' /\ StatusStep
  <1>1. RequestLeaves(c, j, x, ClientIdle, {})
    BY DEF RequestLeaves, ClientIdle
  <1>2. client' = [client EXCEPT ![c] = ClientIdle]
    BY DEF Done
  <1>. QED  BY <1>1, <1>2, RequestSaves

(* A request has a job while it has still to send its message.             *)
LEMMA RequestOwns ==
  ASSUME AdmissionInvariant, PlacesAgree, NEW c \in Clients,
         client[c].pc \notin {"idle", "hitlClear"}
  PROVE  /\ Owns(c, client[c].job) /\ client[c].job \in Jobs
         /\ client[c] \in ClientState /\ MyJob(c) \in JobRow
         /\ MyJob(c) = job[client[c].job]
         /\ MyJob(c).status \in Underway \cup {"FAILED"}
         /\ client[c].pc # "restore" => MyJob(c).status \in Underway
         /\ job[client[c].job].status # "NONE"
         /\ client[c].pc = "hitlSend" => /\ MyJob(c).status = "PROCESSING"
                                         /\ MyJob(c).logs.verdict = client[c].logs.verdict
  <1>1. Serving(c)
    BY DEF Serving
  <1>2. /\ client[c].pc = "restore" => MyJob(c).status = "FAILED"
        /\ client[c].pc # "restore" => MyJob(c).status \in Underway
        /\ client[c].pc = "hitlSend" => /\ MyJob(c).status = "PROCESSING"
                                        /\ MyJob(c).logs.verdict = client[c].logs.verdict
    BY <1>1 DEF PlacesAgree, RequestsAgree
  <1>3. client[c].job \in Jobs /\ client[c] \in ClientState /\ MyJob(c) \in JobRow
    BY DEF AdmissionInvariant, TypeOK, ClientsAtWork, MyJob
  <1>4. MyJob(c).status # "NONE"
    BY <1>2 DEF Underway
  <1>. QED  BY <1>1, <1>2, <1>3, <1>4 DEF Owns, MyJob

(* A request sends its message and goes on to y.                           *)
LEMMA RequestSends ==
  ASSUME AdmissionInvariant, PlacesAgree, NEW c \in Clients,
         client[c].pc \notin {"idle", "hitlClear", "restore"}, client[c].task \in Nat,
         NEW kind \in {"inspection", "wms"}, Submit(kind, client[c].task, client[c].job),
         NEW y, client' = [client EXCEPT ![c] = y], UNCHANGED <<job, worker>>,
         y.pc = "idle" \/ /\ y.pc = "hitlClear" /\ y.job = client[c].job /\ kind = "wms"
                          /\ client[c].pc = "hitlSend" /\ y.logs = client[c].logs
  PROVE  PlacesAgree' /\ StatusStep
  <1>. DEFINE j == client[c].job
              x == job[j]
              m == [kind |-> kind, id |-> client[c].task, job |-> j, try |-> 0, copy |-> 0]
  <1>1. /\ Owns(c, j) /\ j \in Jobs /\ x.status \in Underway /\ x.status # "NONE"
        /\ client[c].pc = "hitlSend" => /\ x.status = "PROCESSING"
                                        /\ x.logs.verdict = client[c].logs.verdict
    BY RequestOwns
  <1>2. PICK n \in 0..Cardinality(queue) :
          /\ [m EXCEPT !.copy = n] \notin queue
          /\ queue' = queue \cup {[m EXCEPT !.copy = n]}
    BY DEF Submit, Put
  <1>. DEFINE k == [m EXCEPT !.copy = n]
  <1>3. Cardinality(queue) \in Nat
    BY FS_CardinalityType DEF AdmissionInvariant
  <1>4. k \in Message /\ k.job = j /\ k.kind = kind /\ k \notin queue /\ queue' = queue \cup {k}
    BY <1>1, <1>2, <1>3 DEF Message
  <1>5. /\ \A i \in Jobs : job'[i] = IF i = j THEN x ELSE job[i]
        /\ \A d \in Clients : client'[d] = IF d = c THEN y ELSE client[d]
    BY DEF AdmissionInvariant, TypeOK
  <1>. HIDE DEF k
  <1>6. RequestLeaves(c, j, x, y, {k})
    <2>. HIDE DEF j, x
    <2>1. x.status \notin Final
      BY <1>1 DEF Underway, Final
    <2>. QED  BY <1>1, <1>4, <2>1 DEF RequestLeaves, j
  <1>. HIDE DEF j, x
  <1>7. PlacesAgree'
    BY <1>1, <1>4, <1>5, <1>6, RequestPlaces
  <1>8. job[j].status # "NONE"
    BY <1>1 DEF x
  <1>9. StatusStep
    BY <1>1, <1>5, <1>8, RequestStatus
  <1>. QED  BY <1>7, <1>9

(* A new inspection.                                                       *)
LEMMA CreateInspectionPlaces ==
  ASSUME AdmissionInvariant, PlacesAgree, NEW c \in Clients, NEW j \in Jobs, CreateInspection(c, j)
  PROVE  PlacesAgree' /\ StatusStep
  <1>. DEFINE x == [NoJob EXCEPT !.status = "PENDING"]
              y == [pc |-> "enqueue", job |-> j, task |-> None, logs |-> NoLogs]
  <1>1. /\ Owns(c, j) /\ client' = [client EXCEPT ![c] = y] /\ UNCHANGED <<queue, worker>>
        /\ \A i \in Jobs : job'[i] = IF i = j THEN x ELSE job[i]
    BY SaveMeans DEF CreateInspection, Serve, Owns, Waiting
  <1>2. x.status = "PENDING"
    BY DEF NoJob
  <1>. HIDE DEF x
  <1>3. RequestLeaves(c, j, x, y, {})
    BY <1>2 DEF RequestLeaves, Underway, Final
  <1>. HIDE DEF y
  <1>. QED  BY <1>1, <1>3, RequestSaves

(* An inspection with new images.                                          *)
LEMMA RecheckInspectionPlaces ==
  ASSUME AdmissionInvariant, PlacesAgree, NEW c \in Clients, NEW j \in Jobs, RecheckInspection(c, j)
  PROVE  PlacesAgree' /\ StatusStep
  <1>. DEFINE x == [job[j] EXCEPT !.status = "PENDING", !.task = None]
              y == [pc |-> "reenqueue", job |-> j, task |-> None, logs |-> job[j].logs]
  <1>1. /\ Owns(c, j) /\ client' = [client EXCEPT ![c] = y] /\ UNCHANGED <<queue, worker>>
        /\ \A i \in Jobs : job'[i] = IF i = j THEN x ELSE job[i]
        /\ job[j].status # "NONE"
    BY SaveMeans DEF RecheckInspection, Serve, Owns, Waiting
  <1>2. x.status = "PENDING"
    BY DEF AdmissionInvariant, TypeOK, JobRow
  <1>. HIDE DEF x
  <1>3. RequestLeaves(c, j, x, y, {})
    BY <1>2 DEF RequestLeaves, Underway, Final
  <1>. HIDE DEF y
  <1>. QED  BY <1>1, <1>3, RequestSaves

(* The decision of an admin.                                               *)
LEMMA DecideHitlPlaces ==
  ASSUME AdmissionInvariant, PlacesAgree, NEW c \in Clients, NEW a \in Admins, NEW j \in Jobs,
         NEW v \in Verdicts, DecideHitl(c, a, j, v)
  PROVE  PlacesAgree' /\ StatusStep
  <1>. DEFINE logs == [job[j].logs EXCEPT !.verdict = v, !.wms = Fresh, !.admin = a]
              x == [job[j] EXCEPT !.status = "PROCESSING", !.task = Fresh, !.logs = logs,
                      !.backup = [task |-> job[j].task, logs |-> job[j].logs]]
              y == [pc |-> "hitlSend", job |-> j, task |-> Fresh, logs |-> logs]
  <1>1. /\ Owns(c, j) /\ client' = [client EXCEPT ![c] = y] /\ UNCHANGED <<queue, worker>>
        /\ \A i \in Jobs : job'[i] = IF i = j THEN x ELSE job[i]
        /\ job[j].status # "NONE"
    BY SaveMeans DEF DecideHitl, Serve, Owns, Waiting, AwaitsAdmin
  <1>. HIDE DEF logs
  <1>2. x.status = "PROCESSING" /\ x.logs = logs
    BY DEF AdmissionInvariant, TypeOK, JobRow
  <1>. HIDE DEF x
  <1>3. RequestLeaves(c, j, x, y, {})
    BY <1>2 DEF RequestLeaves, Underway, Final
  <1>. HIDE DEF y
  <1>. QED  BY <1>1, <1>3, RequestSaves

(* The task id of an inspection is saved.                                  *)
LEMMA SaveTaskIdPlaces ==
  ASSUME AdmissionInvariant, PlacesAgree, NEW c \in Clients, SaveTaskId(c)
  PROVE  PlacesAgree' /\ StatusStep
  <1>. DEFINE j == client[c].job
              pc == IF client[c].pc = "enqueue" THEN "send" ELSE "resend"
              x == [MyJob(c) EXCEPT !.task = Fresh, !.logs = client[c].logs]
              y == [client[c] EXCEPT !.task = Fresh, !.pc = pc]
  <1>1. client[c].pc \in {"enqueue", "reenqueue"} /\ UNCHANGED <<queue, worker>>
    BY DEF SaveTaskId
  <1>2. /\ Owns(c, j) /\ j \in Jobs /\ client[c] \in ClientState /\ MyJob(c) \in JobRow
        /\ MyJob(c).status \in Underway /\ job[j].status # "NONE"
    BY <1>1, RequestOwns
  <1>3. /\ client' = [client EXCEPT ![c] = y]
        /\ \A i \in Jobs : job'[i] = IF i = j THEN x ELSE job[i]
    BY <1>2, SaveMeans DEF SaveTaskId, AdmissionInvariant, TypeOK
  <1>4. x.status = MyJob(c).status /\ y.pc = pc /\ y.job = j
    BY <1>2 DEF JobRow, ClientState
  <1>. HIDE DEF x, y, j
  <1>5. RequestLeaves(c, j, x, y, {})
    BY <1>2, <1>4 DEF RequestLeaves, Underway, Final
  <1>. QED  BY <1>1, <1>2, <1>3, <1>5, RequestSaves

(* A refused message: the request goes on to undo what it has saved.       *)
LEMMA RequestUndoes ==
  ASSUME AdmissionInvariant, PlacesAgree, NEW c \in Clients,
         client[c].pc \in {"send", "resend", "hitlSend"},
         NEW pc \in {"undo", "reundo", "hitlRestore"}, Proceed(c, pc),
         UNCHANGED <<job, queue, worker>>
  PROVE  PlacesAgree' /\ StatusStep
  <1>. DEFINE j == client[c].job
              x == job[j]
              y == [client[c] EXCEPT !.pc = pc]
  <1>1. /\ Owns(c, j) /\ j \in Jobs /\ client[c] \in ClientState
        /\ x.status \in Underway /\ job[j].status # "NONE"
    BY RequestOwns
  <1>2. /\ client' = [client EXCEPT ![c] = y]
        /\ \A i \in Jobs : job'[i] = IF i = j THEN x ELSE job[i]
    BY DEF Proceed, AdmissionInvariant, TypeOK
  <1>3. y.pc = pc /\ y.job = j
    BY <1>1 DEF ClientState
  <1>. HIDE DEF x, y, j
  <1>4. RequestLeaves(c, j, x, y, {})
    BY <1>1, <1>3 DEF RequestLeaves, Underway, Final
  <1>. QED  BY <1>1, <1>2, <1>4, RequestSaves

(* The message of an inspection or of a decision.                          *)
LEMMA SendsPlaces ==
  ASSUME AdmissionInvariant, PlacesAgree, NEW c \in Clients, SendInspection(c) \/ SendDecision(c)
  PROVE  PlacesAgree' /\ StatusStep
  <1>1. /\ client[c].pc \in {"send", "resend", "hitlSend"} /\ UNCHANGED <<job, worker>>
        /\ SendDecision(c) => client[c].pc = "hitlSend"
    BY DEF SendInspection, SendDecision
  <1>2. client[c].task \in Nat /\ client[c] \in ClientState
    BY <1>1 DEF AdmissionInvariant, ClientsAtWork, TypeOK
  <1>3. CASE UNCHANGED queue /\ \E pc \in {"undo", "reundo", "hitlRestore"} : Proceed(c, pc)
    BY <1>1, <1>3, RequestUndoes
  <1>4. CASE Submit("inspection", client[c].task, client[c].job) /\ Done(c)
    <2>1. client' = [client EXCEPT ![c] = ClientIdle] /\ ClientIdle.pc = "idle"
      BY <1>4 DEF Done, ClientIdle
    <2>. QED  BY <1>1, <1>2, <1>4, <2>1, RequestSends
  <1>5. CASE /\ Submit("wms", client[c].task, client[c].job) /\ Proceed(c, "hitlClear")
             /\ client[c].pc = "hitlSend"
    <2>. DEFINE y == [client[c] EXCEPT !.pc = "hitlClear"]
    <2>1. /\ client' = [client EXCEPT ![c] = y] /\ y.pc = "hitlClear"
          /\ y.job = client[c].job /\ y.logs = client[c].logs
      BY <1>2, <1>5 DEF Proceed, AdmissionInvariant, TypeOK, ClientState
    <2>. HIDE DEF y
    <2>. QED  BY <1>1, <1>2, <1>5, <2>1, RequestSends
  <1>6. CASE SendInspection(c)
    BY <1>3, <1>4, <1>6 DEF SendInspection
  <1>7. CASE SendDecision(c)
    BY <1>1, <1>3, <1>5, <1>7 DEF SendDecision
  <1>. QED  BY <1>6, <1>7

(* What a refused message undoes.                                          *)
LEMMA UndoPlaces ==
  ASSUME AdmissionInvariant, PlacesAgree, NEW c \in Clients, UndoEnqueue(c) \/ RestoreRecheck(c)
  PROVE  PlacesAgree' /\ StatusStep
  <1>. DEFINE j == client[c].job
  <1>1. client[c].pc \in {"undo", "reundo", "restore"} /\ UNCHANGED <<queue, worker>>
    BY DEF UndoEnqueue, RestoreRecheck
  <1>2. /\ Owns(c, j) /\ j \in Jobs /\ client[c] \in ClientState /\ MyJob(c) \in JobRow
        /\ job[j].status # "NONE"
    BY <1>1, RequestOwns
  <1>3. CASE UndoEnqueue(c)
    <2>. DEFINE x == [MyJob(c) EXCEPT !.status = "FAILED", !.task = None]
    <2>1. \A i \in Jobs : job'[i] = IF i = j THEN x ELSE job[i]
      BY <1>2, <1>3, SaveMeans DEF UndoEnqueue
    <2>2. x.status = "FAILED" /\ x.status \notin Final
      BY <1>2 DEF JobRow, Final
    <2>. HIDE DEF x
    <2>3. CASE Done(c)
      <3>. HIDE DEF j
      <3>. QED  BY <1>1, <1>2, <2>1, <2>2, <2>3, RequestEnds
    <2>4. CASE Proceed(c, "restore")
      <3>. DEFINE y == [client[c] EXCEPT !.pc = "restore"]
      <3>1. client' = [client EXCEPT ![c] = y] /\ y.pc = "restore" /\ y.job = j
        BY <1>2, <2>4 DEF Proceed, AdmissionInvariant, TypeOK, ClientState
      <3>. HIDE DEF y, j
      <3>2. RequestLeaves(c, j, x, y, {})
        BY <2>2, <3>1 DEF RequestLeaves
      <3>3. \/ job[j].status # "NONE"
            \/ CreateInspection(c, j)
        BY <1>2
      <3>4. client' = [client EXCEPT ![c] = y] /\ Owns(c, j) /\ j \in Jobs
            /\ UNCHANGED <<queue, worker>>
        BY <1>1, <1>2, <3>1
      <3>. QED  BY <2>1, <3>2, <3>3, <3>4, RequestSaves
    <2>. QED  BY <1>3, <2>3, <2>4 DEF UndoEnqueue
  <1>4. CASE RestoreRecheck(c)
    <2>. DEFINE x == [MyJob(c) EXCEPT !.status = "RECHECK_REQUIRED", !.task = None]
    <2>1. \A i \in Jobs : job'[i] = IF i = j THEN x ELSE job[i]
      BY <1>2, <1>4, SaveMeans DEF RestoreRecheck
    <2>2. x.status \notin Final
      BY <1>2 DEF JobRow, Final
    <2>. HIDE DEF x
    <2>3. Done(c)
      BY <1>4 DEF RestoreRecheck
    <2>. HIDE DEF j
    <2>. QED  BY <1>1, <1>2, <2>1, <2>2, <2>3, RequestEnds
  <1>. QED  BY <1>3, <1>4

(* A decision that could not be sent is taken back.                        *)
LEMMA RestoreHitlPlaces ==
  ASSUME AdmissionInvariant, PlacesAgree, NEW c \in Clients, RestoreHitl(c)
  PROVE  PlacesAgree' /\ StatusStep
  <1>. DEFINE j == client[c].job
              x == [job[j] EXCEPT !.status = "HITL_REQUIRED", !.backup = None,
                      !.task = job[j].backup.task, !.logs = job[j].backup.logs]
  <1>1. /\ client[c].pc = "hitlRestore" /\ UNCHANGED <<queue, worker>>
        /\ Done(c)
    BY DEF RestoreHitl
  <1>2. /\ Owns(c, j) /\ j \in Jobs /\ job[j] \in JobRow
        /\ job[j].status # "NONE" /\ job[j].status \in Underway
    BY <1>1, RequestOwns
  <1>3. CASE SaveJob(j, x)
    <2>1. \A i \in Jobs : job'[i] = IF i = j THEN x ELSE job[i]
      BY <1>2, <1>3, SaveMeans
    <2>2. x.status \notin Final
      BY <1>2 DEF JobRow, Final
    <2>. HIDE DEF x
    <2>. HIDE DEF j
    <2>. QED  BY <1>1, <1>2, <2>1, <2>2, RequestEnds
  <1>4. CASE UNCHANGED job
    <2>. DEFINE z == job[j]
    <2>1. \A i \in Jobs : job'[i] = IF i = j THEN z ELSE job[i]
      BY <1>4
    <2>2. z.status \notin Final
      BY <1>2 DEF Underway, Final
    <2>. HIDE DEF z
    <2>. HIDE DEF j
    <2>. QED  BY <1>1, <1>2, <2>1, <2>2, RequestEnds
  <1>. QED  BY <1>3, <1>4 DEF RestoreHitl, KeepJob

(* Jobs that keep their status and their verdict stay where they are, as   *)
(* requests end and workers get their answers.                             *)
LEMMA JobsStay ==
  ASSUME AdmissionInvariant, PlacesAgree, UNCHANGED queue,
         \A i \in Jobs : /\ job'[i].status = job[i].status
                         /\ job'[i].logs.verdict = job[i].logs.verdict
                         /\ job[i].status \in Final => job'[i].grade = job[i].grade,
         \A d \in Clients : client'[d] = client[d] \/ client'[d].pc = "idle",
         \A v \in Workers :
           /\ worker'[v].msg = worker[v].msg /\ worker'[v].verdict = worker[v].verdict
           /\ \/ worker'[v].pc = worker[v].pc
              \/ worker[v].pc = "wait" /\ worker'[v].pc \in {"admitted", "failed", "unreachable"}
  PROVE  PlacesAgree' /\ StatusStep
  <1>1. \A m : Live(m)' => Live(m)
    BY LiveMeans
  <1>2. MessagesHeld'
    BY DEF PlacesAgree, MessagesHeld, At
  <1>3. KindsAgree'
    BY DEF PlacesAgree, KindsAgree
  <1>4. OneMessage'
    BY <1>1 DEF PlacesAgree, OneMessage
  <1>5. OneRequest'
    BY <1>1 DEF PlacesAgree, OneRequest, Serving
  <1>6. MessagesAgree'
    <2>. SUFFICES ASSUME NEW m \in queue', Live(m)'
                  PROVE  job'[m.job].status \in Underway
      BY DEF MessagesAgree
    <2>1. m.job \in Jobs
      BY DEF AdmissionInvariant, TypeOK, Message
    <2>. QED  BY <1>1, <2>1 DEF PlacesAgree, MessagesAgree
  <1>7. ASSUME NEW d \in Clients, client[d].pc # "idle"
        PROVE  client[d].job \in Jobs
    BY <1>7 DEF AdmissionInvariant, ClientsAtWork
  <1>8. RequestsAgree'
    <2>. SUFFICES ASSUME NEW d \in Clients, client'[d].pc \notin {"idle", "hitlClear"}
                  PROVE  LET r == job'[client'[d].job] IN
                         /\ client'[d].pc = "restore" => r.status = "FAILED"
                         /\ client'[d].pc # "restore" => r.status \in Underway
                         /\ client'[d].pc = "hitlSend" =>
                              r.status = "PROCESSING" /\ r.logs.verdict = client'[d].logs.verdict
      BY DEF RequestsAgree, Serving, MyJob
    <2>. QED  BY <1>7 DEF PlacesAgree, RequestsAgree, Serving, MyJob
  <1>9. DecisionsStand'
    <2>. SUFFICES ASSUME NEW d \in Clients, client'[d].pc = "hitlClear"
                  PROVE  LET i == client'[d].job IN
                         /\ job'[i].status \in Final \cup {"PROCESSING", "FAILED"}
                         /\ job'[i].logs.verdict = client'[d].logs.verdict
                         /\ \A e \in Clients : client'[e].pc \notin {"idle", "hitlClear"}
                                                 => client'[e].job # i
                         /\ \A m \in queue' : Live(m)' /\ m.job = i => m.kind = "wms"
      BY DEF DecisionsStand, Serving, MyJob
    <2>1. client'[d] = client[d] /\ client[d].pc = "hitlClear" /\ client[d].job \in Jobs
      BY <1>7
    <2>. DEFINE i == client[d].job
    <2>2. /\ job[i].status \in Final \cup {"PROCESSING", "FAILED"}
          /\ job[i].logs.verdict = client[d].logs.verdict
          /\ \A e \in Clients : client[e].pc \notin {"idle", "hitlClear"} => client[e].job # i
          /\ \A m \in queue : Live(m) /\ m.job = i => m.kind = "wms"
      BY <2>1 DEF PlacesAgree, DecisionsStand, Serving, MyJob
    <2>3. \A e \in Clients : client'[e].pc \notin {"idle", "hitlClear"} => client'[e].job # i
      BY <2>2
    <2>. QED  BY <1>1, <2>1, <2>2, <2>3
  <1>10. CallsStand'
    <2>. SUFFICES ASSUME NEW v \in Workers, worker'[v].pc \in WmsCalls
                  PROVE  /\ job'[worker'[v].msg.job].status = "PROCESSING"
                         /\ job'[worker'[v].msg.job].logs.verdict = worker'[v].verdict
      BY DEF CallsStand, Of, WmsCalls
    <2>1. worker[v].pc \in WmsCalls /\ worker[v].pc \notin Idling
      BY DEF WmsCalls, Idling
    <2>2. Of(v) \in Jobs /\ worker'[v].msg.job = Of(v)
      BY <2>1, WorkersPlace DEF Of
    <2>. QED  BY <2>1, <2>2 DEF PlacesAgree, CallsStand, WmsCalls
  <1>11. FinalMatchesDecision'
    BY DEF PlacesAgree, FinalMatchesDecision
  <1>12. StatusStep
    BY DEF StatusStep
  <1>. QED  BY <1>2, <1>3, <1>4, <1>5, <1>6, <1>8, <1>9, <1>10, <1>11, <1>12 DEF PlacesAgree

(* A request that is lost, or that clears the backup of its decision.      *)
LEMMA RequestDonePlaces ==
  ASSUME AdmissionInvariant, PlacesAgree, NEW c \in Clients, LoseClient(c) \/ ClearBackup(c)
  PROVE  PlacesAgree' /\ StatusStep
  <1>1. UNCHANGED <<queue, worker>> /\ Done(c)
    BY DEF LoseClient, ClearBackup
  <1>2. \A d \in Clients : client'[d] = client[d] \/ client'[d].pc = "idle"
    BY <1>1 DEF Done, AdmissionInvariant, TypeOK, ClientIdle
  <1>3. CASE UNCHANGED job
    BY <1>1, <1>2, <1>3, JobsStay
  <1>4. CASE ClearBackup(c)
    <2>. DEFINE j == client[c].job
                x == [MyJob(c) EXCEPT !.logs = client[c].logs, !.backup = None]
    <2>1. client[c].pc = "hitlClear" /\ SaveJob(j, x)
      BY <1>4 DEF ClearBackup
    <2>2. j \in Jobs /\ MyJob(c) \in JobRow /\ MyJob(c) = job[j]
      BY <2>1 DEF AdmissionInvariant, TypeOK, ClientsAtWork, MyJob
    <2>3. \A i \in Jobs : job'[i] = IF i = j THEN x ELSE job[i]
      BY <2>1, <2>2, SaveMeans
    <2>4. x.status = MyJob(c).status /\ x.logs = client[c].logs /\ x.grade = MyJob(c).grade
      BY <2>2 DEF JobRow
    <2>5. MyJob(c).logs.verdict = client[c].logs.verdict
      BY <2>1 DEF PlacesAgree, DecisionsStand
    <2>. HIDE DEF x, j
    <2>6. \A i \in Jobs : /\ job'[i].status = job[i].status
                          /\ job'[i].logs.verdict = job[i].logs.verdict
                          /\ job[i].status \in Final => job'[i].grade = job[i].grade
      BY <2>2, <2>3, <2>4, <2>5
    <2>. QED  BY <1>1, <1>2, <2>6, JobsStay
  <1>. QED  BY <1>3, <1>4 DEF LoseClient

(* An admin claims a job.                                                  *)
LEMMA StartHitlReviewPlaces ==
  ASSUME AdmissionInvariant, PlacesAgree, NEW a \in Admins, NEW j \in Jobs, StartHitlReview(a, j)
  PROVE  PlacesAgree' /\ StatusStep
  <1>. DEFINE x == [job[j] EXCEPT !.reviewer = a]
  <1>1. UNCHANGED <<queue, worker, client>> /\ SaveJob(j, x)
    BY DEF StartHitlReview
  <1>2. \A i \in Jobs : job'[i] = IF i = j THEN x ELSE job[i]
    BY <1>1, SaveMeans
  <1>3. x.status = job[j].status /\ x.logs = job[j].logs /\ x.grade = job[j].grade
    BY DEF AdmissionInvariant, TypeOK, JobRow
  <1>. HIDE DEF x
  <1>4. \A i \in Jobs : /\ job'[i].status = job[i].status
                        /\ job'[i].logs.verdict = job[i].logs.verdict
                        /\ job[i].status \in Final => job'[i].grade = job[i].grade
    BY <1>2, <1>3
  <1>. QED  BY <1>1, <1>4, JobsStay

(* An admin asks for new images: nothing is at work on the job.            *)
LEMMA RequestRecheckPlaces ==
  ASSUME AdmissionInvariant, PlacesAgree, NEW j \in Jobs, RequestRecheck(j)
  PROVE  PlacesAgree' /\ StatusStep
  <1>. DEFINE x == [job[j] EXCEPT !.status = "RECHECK_REQUIRED", !.task = None,
                      !.logs = [NoLogs EXCEPT !.result = job[j].logs.result],
                      !.backup = None, !.reviewer = None]
  <1>1. UNCHANGED <<queue, worker, client>> /\ SaveJob(j, x) /\ job[j].status = "HITL_REQUIRED"
    BY DEF RequestRecheck, AwaitsAdmin
  <1>2. \A i \in Jobs : job'[i] = IF i = j THEN x ELSE job[i]
    BY <1>1, SaveMeans
  <1>3. x.status = "RECHECK_REQUIRED"
    BY DEF AdmissionInvariant, TypeOK, JobRow
  <1>. HIDE DEF x
  <1>4. \A m : Live(m)' => Live(m)
    BY <1>1, LiveMeans
  <1>5. MessagesHeld' /\ KindsAgree'
    BY <1>1 DEF PlacesAgree, MessagesHeld, KindsAgree, At
  <1>6. OneMessage'
    BY <1>1, <1>4 DEF PlacesAgree, OneMessage
  <1>7. OneRequest'
    BY <1>1, <1>4 DEF PlacesAgree, OneRequest, Serving
  <1>8. MessagesAgree'
    <2>. SUFFICES ASSUME NEW m \in queue', Live(m)'
                  PROVE  job'[m.job].status \in Underway
      BY DEF MessagesAgree
    <2>1. m \in queue /\ Live(m) /\ m.job \in Jobs
      BY <1>1, <1>4 DEF AdmissionInvariant, TypeOK, Message
    <2>2. job[m.job].status \in Underway
      BY <2>1 DEF PlacesAgree, MessagesAgree
    <2>. QED  BY <1>1, <1>2, <2>1, <2>2 DEF Underway
  <1>9. ASSUME NEW d \in Clients, client[d].pc # "idle"
        PROVE  client[d].job \in Jobs
    BY <1>9 DEF AdmissionInvariant, ClientsAtWork
  <1>10. RequestsAgree'
    <2>. SUFFICES ASSUME NEW d \in Clients, Serving(d)
                  PROVE  LET r == job'[client[d].job] IN
                         /\ client[d].pc = "restore" => r.status = "FAILED"
                         /\ client[d].pc # "restore" => r.status \in Underway
                         /\ client[d].pc = "hitlSend" =>
                              r.status = "PROCESSING" /\ r.logs.verdict = client[d].logs.verdict
      BY <1>1 DEF RequestsAgree, Serving, MyJob
    <2>1. job[client[d].job].status \in Underway \cup {"FAILED"}
      BY DEF PlacesAgree, RequestsAgree, MyJob
    <2>2. client[d].job \in Jobs /\ client[d].job # j
      BY <1>1, <1>9, <2>1 DEF Serving, Underway
    <2>3. job'[client[d].job] = job[client[d].job]
      BY <1>2, <2>2
    <2>. QED  BY <2>3 DEF PlacesAgree, RequestsAgree, MyJob
  <1>11. DecisionsStand'
    <2>. SUFFICES ASSUME NEW d \in Clients, client[d].pc = "hitlClear"
                  PROVE  LET i == client[d].job IN
                         /\ job'[i].status \in Final \cup {"PROCESSING", "FAILED"}
                         /\ job'[i].logs.verdict = client[d].logs.verdict
                         /\ \A e \in Clients : Serving(e) => client[e].job # i
                         /\ \A m \in queue' : Live(m)' /\ m.job = i => m.kind = "wms"
      BY <1>1 DEF DecisionsStand, Serving, MyJob
    <2>1. job[client[d].job].status \in Final \cup {"PROCESSING", "FAILED"}
      BY DEF PlacesAgree, DecisionsStand, MyJob
    <2>2. client[d].job \in Jobs /\ client[d].job # j
      BY <1>1, <1>9, <2>1 DEF Final
    <2>3. job'[client[d].job] = job[client[d].job]
      BY <1>2, <2>2
    <2>. QED  BY <1>1, <1>4, <2>3 DEF PlacesAgree, DecisionsStand, MyJob
  <1>12. CallsStand'
    <2>. SUFFICES ASSUME NEW v \in Workers, worker[v].pc \in WmsCalls
                  PROVE  /\ job'[Of(v)].status = "PROCESSING"
                         /\ job'[Of(v)].logs.verdict = worker[v].verdict
      BY <1>1 DEF CallsStand, Of, WmsCalls
    <2>1. job[Of(v)].status = "PROCESSING" /\ worker[v].pc \notin Idling
      BY DEF PlacesAgree, CallsStand, WmsCalls, Idling
    <2>2. Of(v) \in Jobs /\ Of(v) # j
      BY <1>1, <2>1, WorkersPlace
    <2>. QED  BY <1>2, <2>2 DEF PlacesAgree, CallsStand, WmsCalls
  <1>13. FinalMatchesDecision'
    BY <1>2, <1>3 DEF PlacesAgree, FinalMatchesDecision, Final
  <1>14. StatusStep
    BY <1>1, <1>2 DEF StatusStep, Final
  <1>. QED  BY <1>5, <1>6, <1>7, <1>8, <1>10, <1>11, <1>12, <1>13, <1>14 DEF PlacesAgree

(* The WMS answers.                                                        *)
LEMMA AnswerPlaces ==
  ASSUME AdmissionInvariant, PlacesAgree, NEW s \in Servers, server[s].pc # "idle",
         NEW pc \in {"admitted", "failed", "unreachable"}, Answer(s, pc), UNCHANGED <<queue, client>>,
         \A i \in Jobs : /\ job'[i].status = job[i].status
                         /\ job'[i].logs.verdict = job[i].logs.verdict
                         /\ job[i].status \in Final => job'[i].grade = job[i].grade
  PROVE  PlacesAgree' /\ StatusStep
  <1>1. \A v \in Workers :
          /\ worker'[v].msg = worker[v].msg /\ worker'[v].verdict = worker[v].verdict
          /\ \/ worker'[v].pc = worker[v].pc
             \/ worker[v].pc = "wait" /\ worker'[v].pc \in {"admitted", "failed", "unreachable"}
    <2>1. CASE server[s].caller = None
      BY <2>1 DEF Answer
    <2>2. CASE server[s].caller # None
      <3>. DEFINE w == server[s].caller
      <3>1. worker[w].pc = "wait" /\ Goto(w, pc)
        BY <2>2 DEF Answer, AdmissionInvariant, CallersWait, At
      <3>2. w \in Workers
        BY <2>2 DEF AdmissionInvariant, TypeOK, ServerState
      <3>. HIDE DEF w
      <3>3. \A v \in Workers : worker'[v] = IF v = w THEN [worker[w] EXCEPT !.pc = pc] ELSE worker[v]
        BY <3>1, <3>2, GotoMeans
      <3>4. worker[w] \in WorkerState
        BY <3>2 DEF AdmissionInvariant, TypeOK
      <3>5. worker'[w].pc = pc /\ worker'[w].msg = worker[w].msg /\ worker'[w].verdict = worker[w].verdict
        BY <3>2, <3>3, <3>4 DEF WorkerState
      <3>. QED  BY <3>1, <3>3, <3>5
    <2>. QED  BY <2>1, <2>2
  <1>. QED  BY <1>1, JobsStay

(* The steps of the API server.                                            *)
LEMMA ServerStepPlaces ==
  ASSUME AdmissionInvariant, PlacesAgree, NEW s \in Servers, ServerStep(s) \/ LoseServer(s)
  PROVE  PlacesAgree' /\ StatusStep
  <1>1. CASE ReadJob(s)
    BY <1>1, JobsStay DEF ReadJob
  <1>2. CASE Admit(s)
    <2>. DEFINE j == server[s].job
                x == [job[j] EXCEPT !.grade = server[s].verdict]
    <2>1. /\ server[s].pc # "idle" /\ Answer(s, "admitted") /\ UNCHANGED <<queue, client>>
          /\ ~HasRecord(j) /\ job' = [job EXCEPT ![j].grade = server[s].verdict]
      BY <1>2 DEF Admit, Admissible
    <2>2. j \in Jobs /\ job[j] \in JobRow
      BY <2>1 DEF AdmissionInvariant, TypeOK, ServersAtWork
    <2>3. job[j].status \notin Final
      BY <2>1, <2>2 DEF AdmissionInvariant, FinalMeansAdmitted, HasRecord
    <2>4. \A i \in Jobs : job'[i] = IF i = j THEN x ELSE job[i]
      BY <2>1 DEF AdmissionInvariant, TypeOK
    <2>5. x.status = job[j].status /\ x.logs = job[j].logs
      BY <2>2 DEF JobRow
    <2>. HIDE DEF x, j
    <2>6. \A i \in Jobs : /\ job'[i].status = job[i].status
                          /\ job'[i].logs.verdict = job[i].logs.verdict
                          /\ job[i].status \in Final => job'[i].grade = job[i].grade
      BY <2>3, <2>4, <2>5
    <2>. QED  BY <2>1, <2>6, AnswerPlaces
  <1>3. CASE ConfirmAdmission(s) \/ RefuseAdmission(s) \/ LoseServer(s)
    <2>1. /\ server[s].pc # "idle" /\ UNCHANGED <<job, queue, client>>
          /\ \E pc \in {"admitted", "failed", "unreachable"} : Answer(s, pc)
      BY <1>3 DEF ConfirmAdmission, RefuseAdmission, LoseServer
    <2>. QED  BY <2>1, AnswerPlaces
  <1>. QED  BY <1>1, <1>2, <1>3 DEF ServerStep

(* The steps of a request together.                                        *)
LEMMA ClientStepPlaces ==
  ASSUME AdmissionInvariant, PlacesAgree, NEW c \in Clients,
         Request(c) \/ ClientStep(c) \/ LoseClient(c)
  PROVE  PlacesAgree' /\ StatusStep
  <1>1. CASE Request(c)
    BY <1>1, CreateInspectionPlaces, RecheckInspectionPlaces, DecideHitlPlaces DEF Request
  <1>2. CASE ClientStep(c)
    BY <1>2, SaveTaskIdPlaces, SendsPlaces, UndoPlaces, RestoreHitlPlaces, RequestDonePlaces
    DEF ClientStep
  <1>3. CASE LoseClient(c)
    BY <1>3, RequestDonePlaces
  <1>. QED  BY <1>1, <1>2, <1>3

(* Faults are counted one at a time.                                       *)
LEMMA FaultsCounted ==
  ASSUME [Next]_vars
  PROVE  UNCHANGED faults \/ \E f \in Faults : Fault(f)
  <1>1. CASE UNCHANGED vars
    BY <1>1 DEF vars
  <1>2. ASSUME NEW w \in Workers, WorkerStep(w)
        PROVE  UNCHANGED faults \/ \E f \in Faults : Fault(f)
    BY <1>2 DEF WorkerStep, Take, Prepare, SaveHitlRequired, GraphFails, SaveVerdict,
       SaveWmsTaskId, SendWms, SaveDispatchFailed, InspectionError, CheckSavedResult,
       SaveFinal, WmsUnreachable, WmsFailed, CallWms, DispatchRestock, Ack, Faults
  <1>3. ASSUME NEW w \in Workers, CrashWorker(w) \/ KillTask(w) \/ Interrupt(w) \/ Timeout(w)
        PROVE  \E f \in Faults : Fault(f)
    BY <1>3 DEF CrashWorker, KillTask, Interrupt, Timeout, Faults
  <1>4. ASSUME NEW s \in Servers, ServerStep(s) \/ LoseServer(s)
        PROVE  UNCHANGED faults \/ \E f \in Faults : Fault(f)
    BY <1>4 DEF ServerStep, ReadJob, Admit, ConfirmAdmission, RefuseAdmission, LoseServer, Faults
  <1>5. ASSUME NEW c \in Clients, Request(c) \/ ClientStep(c) \/ LoseClient(c)
        PROVE  UNCHANGED faults \/ \E f \in Faults : Fault(f)
    BY <1>5 DEF Request, ClientStep, LoseClient, CreateInspection, RecheckInspection, DecideHitl,
       SaveTaskId, SendInspection, UndoEnqueue, RestoreRecheck, SendDecision, RestoreHitl,
       ClearBackup, Faults
  <1>6. ASSUME NEW a \in Admins, NEW j \in Jobs, StartHitlReview(a, j) \/ RequestRecheck(j)
        PROVE  UNCHANGED faults
    BY <1>6 DEF StartHitlReview, RequestRecheck
  <1>7. ASSUME NEW j \in Jobs, RequestRecheck(j)
        PROVE  UNCHANGED faults
    BY <1>7 DEF RequestRecheck
  <1>. QED  BY <1>1, <1>2, <1>3, <1>4, <1>5, <1>6, <1>7 DEF Next

(* A fault that happened is not forgotten.                                 *)
LEMMA FaultShows ==
  ASSUME AdmissionInvariant, NEW f \in Faults, Fault(f)
  PROVE  faults'[f] # 0 /\ \A e \in Faults : faults'[e] = 0 => faults[e] = 0
  <1>1. faults' = [faults EXCEPT ![f] = faults[f] + 1] /\ faults \in [Faults -> Nat]
    BY DEF Fault, AdmissionInvariant, TypeOK
  <1>2. faults[f] \in Nat
    BY <1>1
  <1>. QED  BY <1>1, <1>2

(* So what has not happened after a step had not happened before it.       *)
LEMMA FaultsGrow ==
  ASSUME AdmissionInvariant, [Next]_vars
  PROVE  \A e \in Faults : faults'[e] = 0 => faults[e] = 0
  BY FaultsCounted, FaultShows

(* Unless a worker is lost, every step keeps each job in one place and     *)
(* changes its status as the task or the request at work on it does.       *)
LEMMA PlaceStep ==
  ASSUME AdmissionInvariant, PlacesAgree, [Next]_vars, NoWorkerLost'
  PROVE  PlacesAgree' /\ StatusStep
  <1>1. CASE UNCHANGED vars
    BY <1>1, JobsStay DEF vars
  <1>2. ASSUME NEW w \in Workers, WorkerStep(w)
        PROVE  PlacesAgree' /\ StatusStep
    BY <1>2, WorkerStepPlaces
  <1>3. ASSUME NEW w \in Workers, KillTask(w) \/ Interrupt(w) \/ Timeout(w)
        PROVE  PlacesAgree' /\ StatusStep
    BY <1>3, StopPlaces
  <1>4. ASSUME NEW w \in Workers, CrashWorker(w)
        PROVE  FALSE
    <2>1. "crash" \in Faults /\ Fault("crash")
      BY <1>4 DEF CrashWorker, Faults
    <2>. QED  BY <2>1, FaultShows DEF NoWorkerLost
  <1>5. ASSUME NEW s \in Servers, ServerStep(s) \/ LoseServer(s)
        PROVE  PlacesAgree' /\ StatusStep
    BY <1>5, ServerStepPlaces
  <1>6. ASSUME NEW c \in Clients, Request(c) \/ ClientStep(c) \/ LoseClient(c)
        PROVE  PlacesAgree' /\ StatusStep
    BY <1>6, ClientStepPlaces
  <1>7. ASSUME NEW a \in Admins, NEW j \in Jobs, StartHitlReview(a, j)
        PROVE  PlacesAgree' /\ StatusStep
    BY <1>7, StartHitlReviewPlaces
  <1>8. ASSUME NEW j \in Jobs, RequestRecheck(j)
        PROVE  PlacesAgree' /\ StatusStep
    BY <1>8, RequestRecheckPlaces
  <1>. QED  BY <1>1, <1>2, <1>3, <1>4, <1>5, <1>6, <1>7, <1>8 DEF Next

(* At first no job is anywhere.                                            *)
LEMMA PlacesAgreeInitially == Init => PlacesAgree
  <1>. SUFFICES ASSUME Init PROVE PlacesAgree
    OBVIOUS
  <1>1. /\ queue = {} /\ \A w \in Workers : worker[w].pc = "idle"
        /\ \A c \in Clients : client[c].pc = "idle"
        /\ \A j \in Jobs : job[j].status = "NONE"
    BY DEF Init, WorkerIdle, ClientIdle, NoJob
  <1>. QED  BY <1>1 DEF PlacesAgree, MessagesHeld, KindsAgree, OneMessage, OneRequest, MessagesAgree,
                RequestsAgree, DecisionsStand, CallsStand, FinalMatchesDecision, Serving, Final, At

(* As long as no worker is lost, a job is with one request or one message, *)
(* or nowhere: retries, time limits, refused messages, lost API processes  *)
(* and late answers of the WMS included.                                   *)
THEOREM JobsAreInOnePlace == Spec => []PlaceInvariant
  <1>1. Init => PlaceInvariant
    BY PlacesAgreeInitially DEF PlaceInvariant
  <1>2. ASSUME AdmissionInvariant, PlaceInvariant, [Next]_vars PROVE PlaceInvariant'
    <2>1. NoWorkerLost' => NoWorkerLost
      BY <1>2, FaultsGrow DEF NoWorkerLost, Faults
    <2>. QED  BY <1>2, <2>1, PlaceStep DEF PlaceInvariant
  <1>. QED  BY <1>1, <1>2, AdmissionsKeepInvariant, PTL DEF Spec

(* What agent_logs says was decided is what was admitted, as long as no    *)
(* worker is lost: a late verdict or an older copy of the logs does not    *)
(* replace the decision.                                                   *)
THEOREM DecisionsAreFinal == Spec => [](NoWorkerLost => FinalMatchesDecision)
  <1>1. PlaceInvariant => (NoWorkerLost => FinalMatchesDecision)
    BY DEF PlaceInvariant, PlacesAgree
  <1>. QED  BY <1>1, JobsAreInOnePlace, PTL

(* An inspection that is done stays done, as long as no worker is lost.    *)
THEOREM FinalJobsStay == Spec /\ []NoWorkerLost => FinalStatusStays
  <1>1. ASSUME AdmissionInvariant, PlaceInvariant, NoWorkerLost, NoWorkerLost', [Next]_vars
        PROVE  [\A j \in Jobs : job[j].status \in Final => job'[j].status = job[j].status]_vars
    <2>1. StatusStep
      BY <1>1, PlaceStep DEF PlaceInvariant
    <2>2. ASSUME NEW j \in Jobs, job[j].status \in Final
          PROVE  job'[j].status = job[j].status
      <3>1. \A c \in Clients : ~CreateInspection(c, j)
        BY <2>2 DEF CreateInspection, Final
      <3>. QED  BY <2>1, <2>2, <3>1 DEF StatusStep
    <2>. QED  BY <2>2
  <1>. QED  BY <1>1, AdmissionsKeepInvariant, JobsAreInOnePlace, PTL DEF Spec, FinalStatusStays

(* Numbers below a bound have a largest one.                               *)
LEMMA LatestExists ==
  ASSUME NEW n \in Nat, NEW S \in SUBSET Nat, S # {}, \A i \in S : i < n
  PROVE  \E m \in S : \A i \in S : i <= m
  <1>. DEFINE T == {n - i : i \in S}
  <1>1. T # {} /\ T \subseteq Nat
    OBVIOUS
  <1>. HIDE DEF T
  <1>2. PICK t \in T : \A u \in T : ~(<<u, t>> \in OpToRel(<, Nat))
    BY <1>1, NatLessThanWellFounded, WFMin
  <1>3. \A u \in T : ~(u < t)
    BY <1>1, <1>2 DEF OpToRel
  <1>4. PICK m \in S : t = n - m
    BY <1>2 DEF T
  <1>5. ASSUME NEW i \in S PROVE i <= m
    <2>1. n - i \in T
      BY DEF T
    <2>. QED  BY <1>3, <1>4, <2>1
  <1>. QED  BY <1>5

(* When the latest of the earlier inspections of a copy has failed, all    *)
(* of them have.                                                           *)
LEMMA EarlierHaveFailed ==
  ASSUME AdmissionInvariant, OneActiveJob, NEW j \in Jobs, MayInspectAgain(j)
  PROVE  \A i \in Earlier(j) : job[i].status = "FAILED"
  <1>. SUFFICES ASSUME NEW i \in Earlier(j) PROVE job[i].status = "FAILED"
    OBVIOUS
  <1>1. Earlier(j) \in SUBSET Nat /\ j \in Nat /\ Earlier(j) # {} /\ \A h \in Earlier(j) : h < j
    BY JobConstants DEF Earlier
  <1>2. PICK m \in Earlier(j) : \A h \in Earlier(j) : h <= m
    BY <1>1, LatestExists
  <1>3. job[m].status = "FAILED" /\ m \in Jobs
    BY <1>2 DEF MayInspectAgain, Latest, Earlier
  <1>4. CASE i = m
    BY <1>3, <1>4
  <1>5. CASE i # m
    <2>1. i < m
      BY <1>1, <1>2, <1>5
    <2>2. i \in Earlier(m)
      BY <1>2, <2>1 DEF Earlier
    <2>. QED  BY <1>3, <2>2 DEF OneActiveJob
  <1>. QED  BY <1>4, <1>5

(* A request gives up its job only when a message is refused.              *)
LEMMA RetiringStep ==
  ASSUME AdmissionInvariant, Retiring, [Next]_vars, NoMessageRefused'
  PROVE  Retiring'
  <1>1. ~Fault("send")
    BY FaultShows DEF NoMessageRefused, Faults
  <1>2. client \in [Clients -> ClientState]
    BY DEF AdmissionInvariant, TypeOK
  <1>3. ASSUME UNCHANGED client PROVE Retiring'
    BY <1>3 DEF Retiring
  <1>4. ASSUME NEW c \in Clients, NEW x, client' = [client EXCEPT ![c] = x],
               x.pc \notin {"undo", "reundo", "restore"}
        PROVE  Retiring'
    BY <1>2, <1>4 DEF Retiring
  <1>5. ASSUME NEW c \in Clients, Done(c) PROVE Retiring'
    BY <1>4, <1>5 DEF Done, ClientIdle
  <1>6. ASSUME NEW c \in Clients, NEW pc, Proceed(c, pc), pc \notin {"undo", "reundo", "restore"}
        PROVE  Retiring'
    <2>. DEFINE x == [client[c] EXCEPT !.pc = pc]
    <2>1. client' = [client EXCEPT ![c] = x] /\ x.pc = pc
      BY <1>2, <1>6 DEF Proceed, ClientState
    <2>. HIDE DEF x
    <2>. QED  BY <1>4, <1>6, <2>1
  <1>7. ASSUME NEW c \in Clients, Request(c) PROVE Retiring'
    BY <1>4, <1>7 DEF Request, CreateInspection, RecheckInspection, DecideHitl, Serve
  <1>8. ASSUME NEW c \in Clients, ClientStep(c) PROVE Retiring'
    <2>1. CASE SaveTaskId(c)
      <3>. DEFINE x == [client[c] EXCEPT !.task = Fresh,
                          !.pc = IF client[c].pc = "enqueue" THEN "send" ELSE "resend"]
      <3>1. client' = [client EXCEPT ![c] = x] /\ x.pc \in {"send", "resend"}
        BY <1>2, <2>1 DEF SaveTaskId, ClientState
      <3>. HIDE DEF x
      <3>. QED  BY <1>4, <3>1
    <2>2. CASE SendInspection(c)
      BY <1>1, <1>5, <2>2 DEF SendInspection
    <2>3. CASE UndoEnqueue(c) \/ RestoreRecheck(c)
      BY <2>3 DEF UndoEnqueue, RestoreRecheck, Retiring
    <2>4. CASE SendDecision(c)
      BY <1>1, <1>6, <2>4 DEF SendDecision
    <2>5. CASE RestoreHitl(c) \/ ClearBackup(c)
      BY <1>5, <2>5 DEF RestoreHitl, ClearBackup
    <2>. QED  BY <1>8, <2>1, <2>2, <2>3, <2>4, <2>5 DEF ClientStep
  <1>9. ASSUME NEW c \in Clients, LoseClient(c) PROVE Retiring'
    BY <1>5, <1>9 DEF LoseClient
  <1>10. ASSUME NEW w \in Workers, WorkerStep(w) PROVE UNCHANGED client
    BY <1>10 DEF WorkerStep, Take, Prepare, SaveHitlRequired, GraphFails, SaveVerdict,
       SaveWmsTaskId, SendWms, SaveDispatchFailed, InspectionError, CheckSavedResult,
       SaveFinal, WmsUnreachable, WmsFailed, CallWms, DispatchRestock, Ack
  <1>11. ASSUME NEW w \in Workers, CrashWorker(w) \/ KillTask(w) \/ Interrupt(w) \/ Timeout(w)
         PROVE  UNCHANGED client
    BY <1>11 DEF CrashWorker, KillTask, Interrupt, Timeout
  <1>12. ASSUME NEW s \in Servers, ServerStep(s) \/ LoseServer(s) PROVE UNCHANGED client
    BY <1>12 DEF ServerStep, ReadJob, Admit, ConfirmAdmission, RefuseAdmission, LoseServer
  <1>13. ASSUME NEW a \in Admins, NEW j \in Jobs, StartHitlReview(a, j) PROVE UNCHANGED client
    BY <1>13 DEF StartHitlReview
  <1>14. ASSUME NEW j \in Jobs, RequestRecheck(j) PROVE UNCHANGED client
    BY <1>14 DEF RequestRecheck
  <1>15. CASE UNCHANGED vars
    BY <1>3, <1>15 DEF vars
  <1>. QED  BY <1>3, <1>7, <1>8, <1>9, <1>10, <1>11, <1>12, <1>13, <1>14, <1>15 DEF Next

(* A job that has failed is given up, and a job begins when those before   *)
(* it have failed.                                                         *)
LEMMA ActiveStep ==
  ASSUME AdmissionInvariant, Retiring, OneActiveJob, StatusStep
  PROVE  OneActiveJob'
  <1>. SUFFICES ASSUME NEW j \in Jobs, job'[j].status # "NONE", NEW i \in Earlier(j)
                PROVE  job'[i].status = "FAILED"
    BY DEF OneActiveJob, Earlier
  <1>1. i \in Jobs /\ i # j
    BY JobConstants DEF Earlier
  <1>2. CASE job[j].status # "NONE"
    <2>1. job[i].status = "FAILED"
      BY <1>2 DEF OneActiveJob
    <2>2. \A c \in Clients : client[c].pc # "restore" /\ ~CreateInspection(c, i)
      BY <2>1 DEF Retiring, CreateInspection
    <2>. QED  BY <1>1, <2>1, <2>2 DEF StatusStep
  <1>3. CASE job[j].status = "NONE"
    <2>1. PICK c \in Clients : CreateInspection(c, j)
      BY <1>3 DEF StatusStep
    <2>2. job[i].status = "FAILED"
      BY <2>1, EarlierHaveFailed DEF CreateInspection
    <2>3. job'[i] = job[i]
      BY <1>1, <2>1, SaveMeans DEF CreateInspection
    <2>. QED  BY <2>2, <2>3
  <1>. QED  BY <1>2, <1>3

(* A copy is inspected again only when every earlier inspection of it has  *)
(* failed for good, as long as no worker is lost and no message refused.   *)
THEOREM OneInspectionIsActive ==
  Spec => [](NoWorkerLost /\ NoMessageRefused => OneActiveJob)
  <1>1. Init => ActiveInvariant
    BY DEF Init, ActiveInvariant, Retiring, OneActiveJob, NoJob, ClientIdle
  <1>2. ASSUME AdmissionInvariant, PlaceInvariant, ActiveInvariant, [Next]_vars
        PROVE  ActiveInvariant'
    <2>. SUFFICES ASSUME NoWorkerLost', NoMessageRefused' PROVE Retiring' /\ OneActiveJob'
      BY DEF ActiveInvariant
    <2>1. NoWorkerLost /\ NoMessageRefused
      BY <1>2, FaultsGrow DEF NoWorkerLost, NoMessageRefused, Faults
    <2>2. PlacesAgree /\ Retiring /\ OneActiveJob
      BY <1>2, <2>1 DEF PlaceInvariant, ActiveInvariant
    <2>3. StatusStep
      BY <1>2, <2>2, PlaceStep
    <2>. QED  BY <1>2, <2>2, <2>3, RetiringStep, ActiveStep
  <1>3. ActiveInvariant => (NoWorkerLost /\ NoMessageRefused => OneActiveJob)
    BY DEF ActiveInvariant
  <1>. QED  BY <1>1, <1>2, <1>3, AdmissionsKeepInvariant, JobsAreInOnePlace, PTL DEF Spec

(* A worker moves nobody else, and admits nothing.                         *)
LEMMA WorkerAlone ==
  ASSUME AdmissionInvariant, NEW w \in Workers, WorkerStep(w)
  PROVE  /\ \A v \in Workers \ {w} : worker'[v] = worker[v]
         /\ UNCHANGED admitted
         /\ UNCHANGED server \/ \E s \in Servers : CallWms(w, s)
         /\ worker[w].pc = "admitted" => SaveFinal(w)
  <1>1. worker \in [Workers -> WorkerState]
    BY DEF AdmissionInvariant, TypeOK
  <1>2. CASE \E m \in queue : Take(w, m)
    BY <1>1, <1>2 DEF Take, At
  <1>3. CASE Prepare(w)
    BY <1>1, <1>3 DEF Prepare, At, Goto
  <1>4. CASE SaveHitlRequired(w) \/ GraphFails(w) \/ \E v \in Verdicts : SaveVerdict(w, v)
    BY <1>1, <1>4 DEF SaveHitlRequired, GraphFails, SaveVerdict, At, Goto
  <1>5. CASE SaveWmsTaskId(w) \/ SendWms(w) \/ SaveDispatchFailed(w)
    BY <1>1, <1>5 DEF SaveWmsTaskId, SendWms, SaveDispatchFailed, At, Goto
  <1>6. CASE InspectionError(w) \/ WmsUnreachable(w) \/ WmsFailed(w)
    BY <1>1, <1>6 DEF InspectionError, WmsUnreachable, WmsFailed, RetryOr, SaveFailed, At, Goto
  <1>7. CASE CheckSavedResult(w)
    BY <1>1, <1>7 DEF CheckSavedResult, At, Goto
  <1>8. CASE SaveFinal(w)
    BY <1>1, <1>8 DEF SaveFinal, At, Goto
  <1>9. CASE \E s \in Servers : CallWms(w, s)
    BY <1>1, <1>9 DEF CallWms, At, Goto
  <1>10. CASE DispatchRestock(w) \/ Ack(w)
    BY <1>1, <1>10 DEF DispatchRestock, Ack, At, Goto
  <1>. QED  BY <1>2, <1>3, <1>4, <1>5, <1>6, <1>7, <1>8, <1>9, <1>10 DEF WorkerStep

(* An admission stays on its way: the final status of a job stays, and a   *)
(* worker that was told of it goes on to save it.                          *)
LEMMA RecordsArrive ==
  ASSUME AdmissionInvariant, AdmissionsArrive, StatusStep, UNCHANGED admitted,
         \A w \in Workers : worker[w].pc = "admitted" =>
           worker'[w] = worker[w] \/ job'[Of(w)].status \in Final
  PROVE  \A j \in Jobs : HasRecord(j)' =>
           job'[j].status \in Final \/ \E w \in Workers : At(w, "admitted")' /\ (Of(w) = j)'
  <1>. SUFFICES ASSUME NEW j \in Jobs, HasRecord(j)', job'[j].status \notin Final
                PROVE  \E w \in Workers : worker'[w].pc = "admitted" /\ worker'[w].msg.job = j
    BY DEF At, Of
  <1>1. job[j].status \in Final \/ \E w \in Workers : worker[w].pc = "admitted" /\ Of(w) = j
    BY DEF HasRecord, AdmissionsArrive, At
  <1>2. job[j].status \notin Final
    BY DEF StatusStep, CreateInspection, Final
  <1>. QED  BY <1>1, <1>2 DEF Of

(* As long as nothing is cut short, an admission arrives.                  *)
LEMMA ArrivalStep ==
  ASSUME AdmissionInvariant, PlacesAgree, AdmissionsArrive, [Next]_vars, NothingCutShort'
  PROVE  AdmissionsArrive'
  <1>1. /\ ~Fault("crash") /\ ~Fault("limit") /\ ~Fault("api") /\ ~Fault("timeout")
        /\ NoWorkerLost'
    BY FaultShows DEF NothingCutShort, NoWorkerLost, Faults
  <1>2. StatusStep
    BY <1>1, PlaceStep
  <1>3. worker \in [Workers -> WorkerState] /\ server \in [Servers -> ServerState]
    BY DEF AdmissionInvariant, TypeOK
  <1>4. ASSUME UNCHANGED <<worker, server, admitted>> PROVE AdmissionsArrive'
    <2>1. \A s \in Servers : server'[s].pc # "idle" => server'[s].caller # None
      BY <1>4 DEF AdmissionsArrive
    <2>. QED  BY <1>2, <1>4, <2>1, RecordsArrive DEF AdmissionsArrive
  <1>5. ASSUME NEW w \in Workers, WorkerStep(w) PROVE AdmissionsArrive'
    <2>1. \A s \in Servers : server'[s].pc # "idle" => server'[s].caller # None
      <3>1. CASE UNCHANGED server
        BY <3>1 DEF AdmissionsArrive
      <3>2. CASE \E s \in Servers : CallWms(w, s)
        <4>1. PICK s \in Servers : CallWms(w, s)
          BY <3>2
        <4>2. /\ \A t \in Servers \ {s} : server'[t] = server[t]
              /\ server'[s].caller = w
          BY <1>3, <4>1 DEF CallWms, ServerIdle
        <4>. QED  BY <4>2, NoneIsNoValue DEF AdmissionsArrive
      <3>. QED  BY <1>5, <3>1, <3>2, WorkerAlone
    <2>2. ASSUME NEW v \in Workers, worker[v].pc = "admitted"
          PROVE  worker'[v] = worker[v] \/ job'[Of(v)].status \in Final
      <3>1. CASE v # w
        BY <1>5, <3>1, WorkerAlone
      <3>2. CASE v = w
        <4>. DEFINE st == StatusOf(worker[w].verdict)
                    x == [job[Of(w)] EXCEPT !.status = st, !.grade = worker[w].verdict,
                                            !.logs.result = TRUE]
        <4>1. SaveFinal(w) /\ job[Of(w)].status = "PROCESSING"
          BY <1>5, <2>2, <3>2, WorkerAlone DEF PlacesAgree, CallsStand
        <4>2. SaveJob(Of(w), x)
          BY <4>1 DEF SaveFinal
        <4>3. Of(w) \in Jobs /\ job[Of(w)] \in JobRow
          <5>1. worker[w].pc \notin Idling
            BY <2>2, <3>2 DEF Idling
          <5>. QED  BY <5>1, WorkersKind
        <4>4. x.status = st /\ st \in Final
          BY <4>3 DEF JobRow, StatusOf, Final
        <4>. HIDE DEF x, st
        <4>. QED  BY <3>2, <4>2, <4>3, <4>4, SaveMeans
      <3>. QED  BY <3>1, <3>2
    <2>3. UNCHANGED admitted
      BY <1>5, WorkerAlone
    <2>. QED  BY <1>2, <2>1, <2>2, <2>3, RecordsArrive DEF AdmissionsArrive
  <1>6. ASSUME NEW s \in Servers, ServerStep(s) PROVE AdmissionsArrive'
    <2>1. CASE ReadJob(s)
      <3>1. \A t \in Servers : server'[t].pc # "idle" => server'[t].caller # None
        BY <1>3, <2>1 DEF ReadJob, AdmissionsArrive, ServerState
      <3>. QED  BY <1>2, <2>1, <3>1, RecordsArrive DEF ReadJob, AdmissionsArrive
    <2>2. CASE Admit(s) \/ ConfirmAdmission(s) \/ RefuseAdmission(s)
      <3>. DEFINE w == server[s].caller
                  j == server[s].job
      <3>1. PICK pc \in {"admitted", "failed"} : Answer(s, pc) /\ (Admit(s) => pc = "admitted")
        BY <2>2 DEF Admit, ConfirmAdmission, RefuseAdmission, Admissible, AdmittedBefore
      <3>2. server[s].pc = "admit" /\ w # None /\ w \in Workers
        BY <1>3, <2>2 DEF Admit, ConfirmAdmission, RefuseAdmission, AdmissionsArrive, ServerState
      <3>3. worker[w].pc = "wait" /\ Of(w) = j
        BY <3>2 DEF AdmissionInvariant, CallersWait, At
      <3>4. /\ \A v \in Workers \ {w} : worker'[v] = worker[v]
            /\ worker'[w].pc = pc /\ worker'[w].msg = worker[w].msg
        BY <1>3, <3>1, <3>2 DEF Answer, Goto, WorkerState
      <3>5. \A t \in Servers : server'[t].pc # "idle" => server'[t].caller # None
        BY <1>3, <3>1 DEF Answer, ServerIdle, AdmissionsArrive
      <3>6. CASE UNCHANGED admitted
        <4>1. \A v \in Workers : worker[v].pc = "admitted" =>
                worker'[v] = worker[v] \/ job'[Of(v)].status \in Final
          BY <3>3, <3>4
        <4>. QED  BY <1>2, <3>5, <3>6, <4>1, RecordsArrive DEF AdmissionsArrive
      <3>7. CASE Admit(s)
        <4>1. /\ pc = "admitted"
              /\ admitted' = admitted \cup {[job |-> j, grade |-> server[s].verdict]}
          BY <3>1, <3>7 DEF Admit
        <4>2. ASSUME NEW i \in Jobs, HasRecord(i)', job'[i].status \notin Final
              PROVE  \E v \in Workers : worker'[v].pc = "admitted" /\ worker'[v].msg.job = i
          <5>1. CASE i = j
            BY <3>2, <3>3, <3>4, <4>1, <5>1 DEF Of
          <5>2. CASE i # j
            <6>1. HasRecord(i)
              BY <4>1, <4>2, <5>2 DEF HasRecord
            <6>2. job[i].status \notin Final
              BY <1>2, <4>2 DEF StatusStep, CreateInspection, Final
            <6>3. PICK v \in Workers : worker[v].pc = "admitted" /\ Of(v) = i
              BY <6>1, <6>2 DEF AdmissionsArrive, At
            <6>4. worker'[v] = worker[v]
              BY <3>3, <3>4, <6>3
            <6>. QED  BY <6>3, <6>4 DEF Of
          <5>. QED  BY <5>1, <5>2
        <4>. QED  BY <3>5, <4>2 DEF AdmissionsArrive, At, Of
      <3>8. Admit(s) \/ UNCHANGED admitted
        BY <2>2 DEF ConfirmAdmission, RefuseAdmission
      <3>. QED  BY <3>6, <3>7, <3>8
    <2>. QED  BY <1>6, <2>1, <2>2 DEF ServerStep
  <1>7. ASSUME NEW c \in Clients, Request(c) \/ ClientStep(c) \/ LoseClient(c) PROVE AdmissionsArrive'
    BY <1>4, <1>7 DEF Request, ClientStep, LoseClient, CreateInspection, RecheckInspection,
       DecideHitl, SaveTaskId, SendInspection, UndoEnqueue, RestoreRecheck, SendDecision,
       RestoreHitl, ClearBackup
  <1>8. ASSUME NEW a \in Admins, NEW j \in Jobs, StartHitlReview(a, j) PROVE AdmissionsArrive'
    BY <1>4, <1>8 DEF StartHitlReview
  <1>9. ASSUME NEW j \in Jobs, RequestRecheck(j) PROVE AdmissionsArrive'
    BY <1>4, <1>9 DEF RequestRecheck
  <1>10. CASE UNCHANGED vars
    BY <1>4, <1>10 DEF vars
  <1>11. ASSUME NEW w \in Workers, CrashWorker(w) \/ KillTask(w) \/ Interrupt(w) \/ Timeout(w)
         PROVE  FALSE
    BY <1>1, <1>11 DEF CrashWorker, KillTask, Interrupt, Timeout
  <1>12. ASSUME NEW s \in Servers, LoseServer(s) PROVE FALSE
    BY <1>1, <1>12 DEF LoseServer
  <1>. QED  BY <1>5, <1>6, <1>7, <1>8, <1>9, <1>10, <1>11, <1>12 DEF Next

(* As long as no task and no request is cut short, a failed inspection has *)
(* left nothing in the stock, though messages are refused.                 *)
THEOREM FailuresLeaveNoStock == Spec => []FailedLeavesNoStock
  <1>1. Init => ArrivalInvariant
    BY DEF Init, ArrivalInvariant, AdmissionsArrive, FailedLeavesNoStock, HasRecord, NoJob, ServerIdle
  <1>2. ASSUME AdmissionInvariant, PlaceInvariant, ArrivalInvariant, [Next]_vars, PlaceInvariant'
        PROVE  ArrivalInvariant'
    <2>. SUFFICES ASSUME NothingCutShort' PROVE AdmissionsArrive' /\ FailedLeavesNoStock'
      BY DEF ArrivalInvariant
    <2>1. NothingCutShort
      BY <1>2, FaultsGrow DEF NothingCutShort
    <2>2. NoWorkerLost /\ NoWorkerLost'
      BY <2>1 DEF NothingCutShort, NoWorkerLost, Faults
    <2>3. PlacesAgree /\ PlacesAgree' /\ AdmissionsArrive
      BY <1>2, <2>1, <2>2 DEF PlaceInvariant, ArrivalInvariant
    <2>4. AdmissionsArrive'
      BY <1>2, <2>3, ArrivalStep
    <2>5. FailedLeavesNoStock'
      BY <2>3, <2>4 DEF FailedLeavesNoStock, AdmissionsArrive, HasRecord, PlacesAgree, CallsStand,
         At, Final
    <2>. QED  BY <2>4, <2>5
  <1>3. ArrivalInvariant => FailedLeavesNoStock
    BY DEF ArrivalInvariant, NothingCutShort, FailedLeavesNoStock
  <1>. QED  BY <1>1, <1>2, <1>3, AdmissionsKeepInvariant, JobsAreInOnePlace, PTL DEF Spec
=============================================================================
