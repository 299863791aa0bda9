--------------------------- MODULE StreamsInvariant ---------------------------
(***************************************************************************)
(* The inductive invariant of Streams: why the alert to the administrators *)
(* and the end of an inspection are not forgotten, though workers are lost *)
(* between a commit and what they publish of it - and which end is.        *)
(***************************************************************************)
EXTENDS Streams, InspectionInvariant

(* Only the request of a browser that is being served names a job.         *)
ViewersFollow ==
  \A v \in Viewers : viewer[v].pc \in {"reading", "live"} => viewer[v].job \in Jobs

(* Task ids: a decision has one that no inspection has or will get.        *)
Deciding(c) == client[c].pc \in {"hitlSend", "hitlRestore"}
Sending(c) == client[c].pc \in {"send", "resend"}
IdsApart ==
  /\ \A m \in queue : m.kind = "inspection" => m.id <= tasks
  /\ \A c \in Clients : Deciding(c) \/ Sending(c) =>
       client[c].task \in Nat /\ client[c].task <= tasks
  /\ \A c \in Clients : Deciding(c) =>
       /\ \A m \in queue : m.kind = "inspection" => m.id # client[c].task
       /\ \A d \in Clients : Sending(d) => client[d].task # client[c].task

(* Who owes an alert or an end has just saved it: the task has only to be  *)
(* acknowledged, or to ask for a restock proposal.  Its message is still   *)
(* on the queue.                                                           *)
EventsHeld ==
  \A e \in outbox : e.status \in Terminal \cup {Alert} =>
    /\ e.by \in Workers
    /\ At(e.by, "ack") \/ (At(e.by, "restock") /\ e.status # Alert)
    /\ worker[e.by].msg.job = e.job
    /\ e.status = Alert => worker[e.by].msg.kind = "inspection"

(* A job that waits for an administrator, or will again if the WMS task of *)
(* a decision cannot be sent.                                              *)
Obliged(j) ==
  \/ job[j].status = "HITL_REQUIRED"
  \/ /\ job[j].status = "PROCESSING"
     /\ \E c \in Clients : Deciding(c) /\ client[c].job = j /\ client[c].task = job[j].task

(* An inspection that saves the question again will alert again; one that  *)
(* finds the job taken by a decision will be retried, or fail it.          *)
WillAlert(w) == worker[w].pc \in {"idle", "start", "graph", "error"}
Announced(j) ==
  \/ j \in alerted \cup missed
  \/ \E e \in outbox : e.job = j /\ e.status = Alert
  \/ \E m \in queue : /\ m.job = j /\ m.kind = "inspection"
                      /\ \A w \in Workers : worker[w].msg = m => WillAlert(w)
AlertComes == \A j \in Jobs : Obliged(j) => Announced(j)

(* A final status is told by the WMS task that saved it or, when that one  *)
(* was lost, by the one that is delivered again.                           *)
WillTell(w, j) ==
  \/ \E e \in outbox : e.by = w /\ e.job = j /\ e.status \in Terminal
  \/ worker[w].pc \in {"idle", "phase1"}
WillBeTold(j) ==
  \E m \in queue : /\ m.job = j /\ m.kind = "wms"
                   /\ \A w \in Workers : worker[w].msg = m => WillTell(w, j)

(* A failure is told by the worker that saved it, or by nobody.            *)
FailureTold(j) == j \in unheard \/ \E e \in outbox : e.job = j /\ e.status = "FAILED"
Told(j) == IF job[j].status = "FAILED" THEN FailureTold(j) ELSE WillBeTold(j)
Following(v) == viewer[v].pc = "live" /\ ~viewer[v].late /\ viewer[v].subscribed
EndComes ==
  \A v \in Viewers :
    Following(v) /\ Ended(viewer[v].job) /\ viewer[v].job \notin missed
      => viewer[v].ended \/ Told(viewer[v].job)

StreamInvariant ==
  /\ StreamTypeOK /\ ViewersFollow
  /\ MessagesHeld /\ KindsAgree /\ IdsApart
  /\ EventsHeld /\ AlertComes /\ EndComes
=============================================================================
