------------------------------ MODULE Streams ------------------------------
(***************************************************************************)
(* What the outside sees of an inspection: the events that the tasks and   *)
(* the API publish over Redis once a status is committed, the browsers     *)
(* that follow a job over server sent events (api/routes/stream.py), and   *)
(* the alert to the administrators when a job awaits them                  *)
(* (services/notification_service.py).                                     *)
(*                                                                         *)
(* The jobs themselves are those of InspectionPipeline.  Publishing is a   *)
(* step of its own after the commit; a worker goes on only when it has     *)
(* published.  Redis keeps nothing: an event reaches those who are         *)
(* subscribed when it is published.                                        *)
(***************************************************************************)
EXTENDS InspectionPipeline

CONSTANTS Viewers,    \* browsers that follow a job
          MaxDrops    \* bound: connections a browser loses

ASSUME ViewerConstants == MaxDrops \in Nat /\ None \notin Jobs

VARIABLES
  outbox,    \* events committed and not yet published: [by, job, status]
  viewer,    \* the browsers and the streams that serve them
  alerted,   \* the jobs the administrators have an alert about
  missed,    \* history: jobs an event or alert of which was lost for good
  unheard    \* history: jobs a lost worker has failed, and told nobody

streamVars == <<outbox, viewer, alerted, missed, unheard>>
allVars == <<vars, streamVars>>

-----------------------------------------------------------------------------
(* An event is owed by a worker or by a request of the API.                *)
Event(by, j, status) == [by |-> by, job |-> j, status |-> status]

(* Stands for the alert that goes before the event HITL_REQUIRED.          *)
Alert == "ALERT"

(* TERMINAL_STATUSES; the mistake: a failed job does not end the stream    *)
(* (ViewersSeeTheEnd).                                                     *)
SlipTerminal == {"APPROVED", "REJECTED"}
Terminal == {"APPROVED", "REJECTED", "FAILED"}

NoViewer == [pc |-> "off", job |-> None, subscribed |-> FALSE, ended |-> FALSE,
             drops |-> 0, late |-> FALSE]

StreamInit ==
  /\ Init
  /\ outbox = {}
  /\ viewer = [v \in Viewers |-> NoViewer]
  /\ alerted = {}
  /\ missed = {}
  /\ unheard = {}

-----------------------------------------------------------------------------
(* What a step of the pipeline leaves to be published.                     *)

Owes(w) == \E e \in outbox : e.by = w

(* The event of the final status, also when it was there already: a task   *)
(* that is delivered again publishes it again.  The mistake: only the run  *)
(* that called the WMS does (EndIsOnItsWay).                               *)
SlipFinalEvents(w) == IF At(w, "admitted") /\ job'[Of(w)].status \in Final
                      THEN {Event(w, Of(w), job'[Of(w)].status)} ELSE {}
FinalEvents(w) == IF job'[Of(w)].status \in Final
                  THEN {Event(w, Of(w), job'[Of(w)].status)} ELSE {}

(* handle_inspection_failure: nothing is published unless it was this step *)
(* that failed the job.  One that was final or FAILED before is left alone *)
(* without a word.                                                         *)
FailureEvents(w) == IF job[Of(w)].status # "FAILED" /\ job'[Of(w)].status = "FAILED"
                    THEN {Event(w, Of(w), "FAILED")} ELSE {}

WorkerEvents(w) ==
  CASE At(w, "start") -> IF worker'[w].pc = "graph"
                         THEN {Event(w, Of(w), "PROCESSING")} ELSE {}
    [] At(w, "graph") -> IF worker'[w].pc = "ack"
                         THEN {Event(w, Of(w), Alert), Event(w, Of(w), "HITL_REQUIRED")} ELSE {}
    [] At(w, "undo") -> {Event(w, Of(w), "FAILED")}
    [] worker[w].pc \in {"error", "unreachable", "failed"} -> FailureEvents(w)
    [] worker[w].pc \in {"phase1", "admitted"} -> FinalEvents(w)
    [] OTHER -> {}

WorkerPublishes(w) ==
  /\ ~Owes(w)
  /\ WorkerStep(w)
  /\ outbox' = outbox \cup WorkerEvents(w)
  /\ UNCHANGED <<viewer, alerted, missed, unheard>>

(* The route of the recheck publishes once the message is sent, and the    *)
(* route of the decision once the recheck is requested.                    *)
ClientPublishes(c) ==
  /\ ClientStep(c)
  /\ outbox' = IF client[c].pc = "resend" /\ client'[c].pc = "idle"
               THEN outbox \cup {Event("api", client[c].job, "PENDING")} ELSE outbox
  /\ missed' = IF client[c].pc \in {"undo", "reundo"} THEN missed \cup {client[c].job} ELSE missed
  /\ UNCHANGED <<viewer, alerted, unheard>>

RecheckPublishes(j) ==
  /\ RequestRecheck(j)
  /\ outbox' = outbox \cup {Event("api", j, "RECHECK_REQUIRED")}
  /\ UNCHANGED <<viewer, alerted, missed, unheard>>

(* A failure that is committed and not yet told.                           *)
OwesFailure(w) == \E e \in outbox : /\ e.by = w /\ e.status = "FAILED"
                                   /\ job[e.job].status = "FAILED"

(* A lost process publishes nothing more.  When its message is not         *)
(* delivered again, nobody will; when it is, the task finds a failure that *)
(* it does not tell of (FailureEvents).                                    *)
WorkerLost(w) ==
  /\ \/ /\ CrashWorker(w)
        /\ unheard' = IF OwesFailure(w) THEN unheard \cup {Of(w)} ELSE unheard
        /\ UNCHANGED missed
     \/ KillTask(w) /\ missed' = missed \cup {Of(w)} /\ UNCHANGED unheard
     \/ /\ Owes(w) /\ At(w, "ack")
        /\ Fault("limit")
        /\ missed' = missed \cup {Of(w)}
        /\ UNCHANGED <<job, copy, admitted, queue, worker, server, client, restock, tasks,
                       unheard>>
  /\ outbox' = {e \in outbox : e.by # w}
  /\ UNCHANGED <<viewer, alerted>>

(* An exception in a task that was delivered again, before it tells of the *)
(* status it found: handle_inspection_failure leaves the event of a final  *)
(* job out.  (Of a job that was FAILED before no task tells: unheard.)     *)
WorkerInterrupted(w) ==
  /\ ~Owes(w)
  /\ Interrupt(w) \/ Timeout(w)
  /\ missed' = IF At(w, "phase1") /\ job[Of(w)].status \in Final
               THEN missed \cup {Of(w)} ELSE missed
  /\ UNCHANGED <<outbox, viewer, alerted, unheard>>

OtherStep ==
  /\ \/ \E s \in Servers : ServerStep(s) \/ LoseServer(s)
     \/ \E c \in Clients : Request(c) \/ LoseClient(c)
     \/ \E a \in Admins, j \in Jobs : StartHitlReview(a, j)
  /\ UNCHANGED streamVars

-----------------------------------------------------------------------------
(* Publishing.                                                             *)

(* The alert comes before the event of the same worker.                    *)
MayPublish(e) == e \in outbox /\ (e.status # Alert => Event(e.by, e.job, Alert) \notin outbox)

Subscribed(v, j) == viewer[v].subscribed /\ viewer[v].job = j

(* publish_return_job_event: to the channel of the job.  Of the events     *)
(* that wait in a stream, it matters only whether an end is among them.    *)
Publish(e) ==
  /\ MayPublish(e) /\ e.status # Alert
  /\ outbox' = outbox \ {e}
  /\ viewer' = [v \in Viewers |->
       IF Subscribed(v, e.job) /\ e.status \in Terminal
       THEN [viewer[v] EXCEPT !.ended = TRUE] ELSE viewer[v]]
  /\ UNCHANGED <<vars, alerted, missed, unheard>>

(* create_committed_notification_for_tenant                                *)
SaveAlert(e) ==
  /\ MayPublish(e) /\ e.status = Alert
  /\ outbox' = outbox \ {e}
  /\ alerted' = alerted \cup {e.job}
  /\ UNCHANGED <<vars, viewer, missed, unheard>>

(* publish_event_safely and create_agent_hitl_alert_safely: a failure is   *)
(* logged and nothing else.                                                *)
FailToPublish(e) ==
  /\ MayPublish(e)
  /\ Fault("send")
  /\ outbox' = outbox \ {e}
  /\ missed' = missed \cup {e.job}
  /\ UNCHANGED <<job, copy, admitted, queue, worker, server, client, restock, tasks,
                 viewer, alerted, unheard>>

-----------------------------------------------------------------------------
(* A browser and its stream.                                               *)

Change(v, x) ==
  /\ viewer' = [viewer EXCEPT ![v] = x]
  /\ UNCHANGED <<vars, outbox, alerted, missed, unheard>>

(* POST /stream-ticket and GET /stream: a ticket for a job that exists,    *)
(* which may be used again until it expires; then SUBSCRIBE is sent.       *)
Connect(v, j) ==
  /\ viewer[v].pc = "off"
  /\ job[j].status # "NONE"
  /\ Change(v, [viewer[v] EXCEPT !.pc = "reading", !.job = j])

(* Redis has got the SUBSCRIBE.  Nothing waits for that: it may be after   *)
(* the read.                                                               *)
Register(v) ==
  /\ viewer[v].pc \in {"reading", "live"} /\ ~viewer[v].subscribed
  /\ Change(v, [viewer[v] EXCEPT !.subscribed = TRUE, !.late = viewer[v].pc = "live"])

(* The current status is sent once; a job that has ended ends the stream.  *)
ReadStatus(v) ==
  /\ viewer[v].pc = "reading"
  /\ Change(v, IF job[viewer[v].job].status \in Terminal
               THEN [NoViewer EXCEPT !.pc = "closed"]
               ELSE [viewer[v] EXCEPT !.pc = "live"])

(* The events are relayed, and the one that tells of the end is the last.  *)
Relay(v) ==
  /\ viewer[v].pc = "live" /\ viewer[v].ended
  /\ Change(v, [NoViewer EXCEPT !.pc = "closed"])

(* The connection is lost; the browser may connect again.                  *)
Drop(v) ==
  /\ viewer[v].pc \in {"reading", "live"} /\ viewer[v].drops < MaxDrops
  /\ Change(v, [NoViewer EXCEPT !.drops = viewer[v].drops + 1])

ViewerStep(v) == Register(v) \/ ReadStatus(v) \/ Relay(v)

StreamNext ==
  \/ \E w \in Workers : WorkerPublishes(w) \/ WorkerLost(w) \/ WorkerInterrupted(w)
  \/ \E c \in Clients : ClientPublishes(c)
  \/ \E j \in Jobs : RecheckPublishes(j)
  \/ OtherStep
  \/ \E e \in outbox : Publish(e) \/ SaveAlert(e) \/ FailToPublish(e)
  \/ \E v \in Viewers :
       \/ ViewerStep(v) \/ Drop(v)
       \/ \E j \in Jobs : Connect(v, j)

StreamSpec == StreamInit /\ [][StreamNext]_allVars

(* Workers, requests and streams keep going.                               *)
FairStreamSpec ==
  /\ StreamSpec
  /\ \A w \in Workers : WF_allVars(WorkerPublishes(w))
  /\ \A s \in Servers : WF_allVars(OtherStep /\ ServerStep(s))
  /\ \A c \in Clients : WF_allVars(ClientPublishes(c))
  /\ WF_allVars(\E e \in outbox : Publish(e) \/ SaveAlert(e))
  /\ \A v \in Viewers : WF_allVars(ViewerStep(v))

-----------------------------------------------------------------------------
(* What must hold.                                                         *)

StreamTypeOK ==
  /\ outbox \subseteq [by : Workers \cup {"api"}, job : Jobs, status : Statuses \cup {Alert}]
  /\ viewer \in [Viewers -> [pc : {"off", "reading", "live", "closed"},
                             job : Jobs \cup {None}, subscribed : BOOLEAN,
                             ended : BOOLEAN,
                             drops : 0..MaxDrops, late : BOOLEAN]]
  /\ alerted \subseteq Jobs
  /\ missed \subseteq Jobs
  /\ unheard \subseteq Jobs

Ended(j) == job[j].status \in Final \cup {"FAILED"}
InQueue(j) == \E m \in queue : m.job = j

(* A failure that no browser will hear of: the worker was lost after the   *)
(* commit, and the task that is delivered again says nothing.              *)
FailedUnheard(j) == job[j].status = "FAILED" /\ j \in unheard

(* Subscribing before reading the status leaves no gap, and a final status *)
(* is told again by the WMS task when the worker that saved it is lost.  A *)
(* failure is told once only.  So a browser that follows a job that has    *)
(* ended finds the end in its stream, or somebody still has to publish it; *)
(* the only exceptions are an event that Redis or a task killed at its     *)
(* time limit has lost, a SUBSCRIBE that came too late, and a failure that *)
(* was lost with its worker.                                               *)
EndIsOnItsWay ==
  \A v \in Viewers :
    LET j == viewer[v].job IN
    /\ viewer[v].pc = "live" /\ ~viewer[v].late /\ viewer[v].subscribed
    /\ Ended(j)
    /\ j \notin missed /\ ~FailedUnheard(j)
    => \/ viewer[v].ended
       \/ \E e \in outbox : e.job = j /\ e.status \in Final \cup {"FAILED"}
       \/ job[j].status \in Final /\ \E m \in queue : m.job = j /\ m.kind = "wms"

(* And so every browser gets to see the end, with the same exceptions: an  *)
(* approval or a rejection however often workers are lost, a failure       *)
(* unless it was lost with its worker.                                     *)
ViewersSeeTheEnd ==
  \A v \in Viewers :
    (viewer[v].pc = "live" /\ Ended(viewer[v].job))
      ~> \/ viewer[v].pc # "live" \/ viewer[v].late
         \/ viewer[v].job \in missed \/ FailedUnheard(viewer[v].job)

(* No job waits for an administrator unannounced: an alert about it has    *)
(* been saved, is about to be, or the inspection that asks for one will be *)
(* delivered again - unless the alert could not be saved.                  *)
AdminsAreAlerted ==
  \A j \in Jobs : job[j].status = "HITL_REQUIRED" =>
    \/ j \in alerted \cup missed
    \/ \E e \in outbox : e.job = j /\ e.status = Alert
    \/ InQueue(j)
=============================================================================
