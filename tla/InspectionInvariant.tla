------------------------ MODULE InspectionInvariant ------------------------
(***************************************************************************)
(* The inductive invariant of InspectionPipeline: why a copy is admitted   *)
(* once and a final status is backed by an admission, whatever is lost,    *)
(* repeated or late.                                                       *)
(***************************************************************************)
EXTENDS InspectionPipeline

(* Who is at work has something to work on.                                *)
WorkersAtWork ==
  \A w \in Workers :
    /\ ~At(w, "idle") => worker[w].msg \in Message
    /\ At(w, "send") => worker[w].wms \in Nat
ServersAtWork == \A s \in Servers : server[s].pc # "idle" => server[s].job \in Jobs
ClientsAtWork ==
  \A c \in Clients :
    /\ client[c].pc # "idle" => client[c].job \in Jobs
    /\ client[c].pc \in {"send", "resend", "hitlSend"} => client[c].task \in Nat

(* A WMS request that has not been given up works on what its caller       *)
(* waits for, and is the only one the caller waits for.                    *)
CallersWait ==
  \A s \in Servers : server[s].caller # None =>
    LET w == server[s].caller IN
    /\ At(w, "wait")
    /\ Of(w) = server[s].job /\ worker[w].verdict = server[s].verdict
    /\ \A t \in Servers \ {s} : server[t].caller # w

(* The grade of an admitted copy is on its inbound item, which is what     *)
(* turns every later admission away.                                       *)
GradesAgree == \A x \in admitted : copy[CopyOf[x.job]] = x.grade

(* A worker that was told of an admission can rely on it.                  *)
AnswersAreTrue ==
  \A w \in Workers : At(w, "admitted") =>
    [job |-> Of(w), grade |-> worker[w].verdict] \in admitted

(* The inductive invariant: with it, redelivered tasks, retries, requests  *)
(* that were given up and second inspections of a copy neither admit the   *)
(* copy again nor make a job final without an admission.                   *)
AdmissionInvariant ==
  /\ TypeOK /\ IsFiniteSet(queue)
  /\ WorkersAtWork /\ ServersAtWork /\ ClientsAtWork
  /\ CallersWait /\ GradesAgree /\ AnswersAreTrue
  /\ AdmittedOnce /\ FinalMeansAdmitted

-----------------------------------------------------------------------------
(* As long as no worker is lost, a job is in one place at a time: with an  *)
(* API request that has still to send its message, or with one message on  *)
(* the queue or in a worker, or nowhere.  A message whose task has only to *)
(* be acknowledged is done with; so is a decision that was sent.           *)
Underway == {"PENDING", "PROCESSING"}
Live(m) == m \in queue /\ \A w \in Workers : worker[w].msg = m => ~(At(w, "restock") \/ At(w, "ack"))
Serving(c) == client[c].pc \notin {"idle", "hitlClear"}

MessagesHeld ==
  \A w \in Workers : ~At(w, "idle") =>
    /\ worker[w].msg \in queue
    /\ \A v \in Workers \ {w} : ~At(v, "idle") => worker[v].msg # worker[w].msg

KindsAgree ==
  \A w \in Workers :
    /\ worker[w].pc \in {"start", "graph", "register", "send", "undo", "error"}
         => worker[w].msg.kind = "inspection"
    /\ worker[w].pc \in {"phase1", "call", "wait", "unreachable", "admitted", "failed", "restock"}
         => worker[w].msg.kind = "wms"

OneMessage == \A m, n \in queue : Live(m) /\ Live(n) /\ m.job = n.job => m = n
OneRequest ==
  \A c \in Clients : Serving(c) =>
    /\ \A m \in queue : Live(m) => m.job # client[c].job
    /\ \A d \in Clients \ {c} : Serving(d) => client[d].job # client[c].job

(* A job that is somewhere is neither decided nor failed, but for the      *)
(* moment in which a recheck is undone.                                    *)
MessagesAgree == \A m \in queue : Live(m) => job[m.job].status \in Underway
RequestsAgree ==
  \A c \in Clients : Serving(c) =>
    /\ client[c].pc = "restore" => MyJob(c).status = "FAILED"
    /\ client[c].pc # "restore" => MyJob(c).status \in Underway
    /\ client[c].pc = "hitlSend" => /\ MyJob(c).status = "PROCESSING"
                                    /\ MyJob(c).logs.verdict = client[c].logs.verdict

(* Once the decision of an admin was sent, the job is not inspected again, *)
(* and the decision stands.                                                *)
DecisionsStand ==
  \A c \in Clients : client[c].pc = "hitlClear" =>
    /\ MyJob(c).status \in Final \cup {"PROCESSING", "FAILED"}
    /\ MyJob(c).logs.verdict = client[c].logs.verdict
    /\ \A d \in Clients : Serving(d) => client[d].job # client[c].job
    /\ \A m \in queue : Live(m) /\ m.job = client[c].job => m.kind = "wms"

(* While the WMS is at work for a task, its job and the decision stay.     *)
CallsStand ==
  \A w \in Workers : worker[w].pc \in {"call", "wait", "admitted"} =>
    /\ job[Of(w)].status = "PROCESSING"
    /\ job[Of(w)].logs.verdict = worker[w].verdict

NoWorkerLost == faults["crash"] = 0

PlacesAgree ==
  /\ MessagesHeld /\ KindsAgree /\ OneMessage /\ OneRequest
  /\ MessagesAgree /\ RequestsAgree /\ DecisionsStand /\ CallsStand
  /\ FinalMatchesDecision

(* A job fails once and for all if no message is refused.                  *)
NoMessageRefused == faults["send"] = 0
Retiring == \A c \in Clients : client[c].pc \notin {"undo", "reundo", "restore"}

(* If nothing at all goes wrong, an admission is on its way to a final     *)
(* status.                                                                 *)
NothingCutShort == \A f \in Faults \ {"send"} : faults[f] = 0
AdmissionsArrive ==
  /\ \A s \in Servers : server[s].pc # "idle" => server[s].caller # None
  /\ \A j \in Jobs : HasRecord(j) =>
       job[j].status \in Final \/ \E w \in Workers : At(w, "admitted") /\ Of(w) = j

PlaceInvariant == NoWorkerLost => PlacesAgree
ActiveInvariant == NoWorkerLost /\ NoMessageRefused => Retiring /\ OneActiveJob
ArrivalInvariant == NothingCutShort => AdmissionsArrive /\ FailedLeavesNoStock
=============================================================================
