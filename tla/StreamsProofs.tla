---------------------------- MODULE StreamsProofs ----------------------------
(***************************************************************************)
(* The end of an inspection, and the alert about a job that waits for an   *)
(* administrator, are not forgotten, for any number of jobs, workers,      *)
(* requests, browsers and faults - but for what StreamInvariant excepts: a *)
(* failure that was lost with its worker.                                  *)
(*                                                                         *)
(* A step of a worker changes itself, its job, the queue by what it sends, *)
(* and the outbox by what it owes then; WorkerDeeds and WorkerDuties say   *)
(* what such a step must and must not do, once for all actions, and each   *)
(* action then shows that it does no more and no less.  The same for the   *)
(* requests of the API.                                                    *)
(***************************************************************************)
EXTENDS StreamsInvariant, InspectionProofs

Asks(events) == \E e \in events : e.status = Alert
Ends(events) == \E e \in events : e.status \in Terminal
Fails(events) == \E e \in events : e.status = "FAILED"
Alerting == {"start", "graph", "error"}
Quiet == {"ack", "restock"}

(* What worker w does to itself (y), with the messages it sends and the    *)
(* events it owes.                                                         *)
WorkerDeeds(w, y, sent, events) ==
  /\ y.msg = worker[w].msg /\ y.pc \in StepsOf(w)
  /\ \A m \in sent : /\ m \notin queue /\ m.job = Of(w)
                     /\ m.kind = "inspection" => worker[w].msg.kind = "inspection" /\ m.id = Id(w)
  /\ \A e \in events :
       /\ e.by = w /\ e.job = Of(w)
       /\ e.status \in Terminal => y.pc \in Quiet
       /\ e.status = Alert => y.pc = "ack" /\ worker[w].msg.kind = "inspection"

(* What it owes when it leaves its job as x.                               *)
WorkerDuties(w, x, y, sent, events) ==
  /\ x.status = "HITL_REQUIRED" => job[Of(w)].status = "HITL_REQUIRED" \/ Asks(events)
  /\ x.status = "PROCESSING" =>
       \/ job[Of(w)].status = "PROCESSING" /\ x.task = job[Of(w)].task
       \/ worker[w].msg.kind = "inspection" /\ x.task = Id(w)
  /\ worker[w].pc \in Alerting =>
       \/ y.pc \in Alerting \/ Asks(events) \/ \E m \in sent : m.kind = "inspection"
       \/ x.status \notin {"HITL_REQUIRED", "PROCESSING"}
       \/ x.status = "PROCESSING" /\ x.task = Id(w)
  /\ x.status = "FAILED" => job[Of(w)].status = "FAILED" \/ Fails(events)
  /\ x.status \in Final /\ x.status # job[Of(w)].status =>
       Ends(events) /\ worker[w].msg.kind = "wms"
  /\ x.status \in Final /\ worker[w].pc = "phase1" => Ends(events)

(* The pipeline, as far as a step of worker w is concerned.                *)
WorkerStepsTo(w, x, y, sent) ==
  /\ \A v \in Workers : worker'[v] = IF v = w THEN y ELSE worker[v]
  /\ \A i \in Jobs : job'[i] = IF i = Of(w) THEN x ELSE job[i]
  /\ queue' = queue \cup sent /\ UNCHANGED client
  /\ tasks' \in {tasks, tasks + 1}

(* What a worker has in its hands.                                         *)
LEMMA WorkerHolds ==
  ASSUME AdmissionInvariant, MessagesHeld, KindsAgree, NEW w \in Workers, worker[w].pc # "idle"
  PROVE  /\ worker[w] \in WorkerState /\ worker[w].msg \in Message /\ worker[w].msg \in queue
         /\ Of(w) \in Jobs /\ Id(w) \in Nat /\ job[Of(w)] \in JobRow
         /\ Of(w) = worker[w].msg.job /\ Id(w) = worker[w].msg.id
         /\ worker[w].msg.kind \in {"inspection", "wms"}
         /\ \A v \in Workers \ {w} : worker[v].pc # "idle" => worker[v].msg # worker[w].msg
         /\ worker[w].pc \in InspectionSteps => worker[w].msg.kind = "inspection"
         /\ worker[w].pc \in WmsSteps => worker[w].msg.kind = "wms"
         /\ worker[w].pc \in InspectionSteps \cup WmsSteps \cup {"ack"}
  <1>1. worker[w] \in WorkerState /\ worker[w].msg \in Message
    BY DEF AdmissionInvariant, TypeOK, WorkersAtWork, At
  <1>2. worker[w].msg \in queue
    BY DEF MessagesHeld, At
  <1>3. \A v \in Workers \ {w} : worker[v].pc # "idle" => worker[v].msg # worker[w].msg
    BY DEF MessagesHeld, At
  <1>4. Of(w) \in Jobs /\ Id(w) \in Nat /\ worker[w].msg.kind \in {"inspection", "wms"}
    BY <1>1 DEF Of, Id, Message
  <1>5. job[Of(w)] \in JobRow
    BY <1>4 DEF AdmissionInvariant, TypeOK
  <1>6. worker[w].pc \in InspectionSteps \cup WmsSteps \cup {"ack"}
    BY <1>1 DEF WorkerState, InspectionSteps, WmsSteps
  <1>7. /\ worker[w].pc \in InspectionSteps => worker[w].msg.kind = "inspection"
        /\ worker[w].pc \in WmsSteps => worker[w].msg.kind = "wms"
    BY DEF KindsAgree, InspectionSteps, WmsSteps
  <1>. QED  BY <1>1, <1>2, <1>3, <1>4, <1>5, <1>6, <1>7 DEF Of, Id

(* A step of a worker that does what it must: nothing is forgotten.  What  *)
(* it still owes is lost with it, if it is stopped (lost).                 *)
LEMMA WorkerKeepsWord ==
  ASSUME AdmissionInvariant, AdmissionInvariant', StreamInvariant, NEW w \in Workers, worker[w].pc # "idle",
         NEW x, NEW y, NEW sent, NEW events, NEW lost,
         WorkerStepsTo(w, x, y, sent), WorkerDeeds(w, y, sent, events),
         events \subseteq [by : {w}, job : {Of(w)}, status : Statuses \cup {Alert}],
         lost = {} => ~Owes(w) /\ WorkerDuties(w, x, y, sent, events),
         lost = {} \/ /\ lost = {Of(w)} /\ x.status = job[Of(w)].status /\ x.task = job[Of(w)].task
                      /\ sent = {},
         outbox' = {e \in outbox : e.by # w} \cup events, missed' = missed \cup lost,
         UNCHANGED <<viewer, alerted, unheard>>
  PROVE  StreamInvariant'
  <1>. DEFINE j == Of(w)
              mine == worker[w].msg
  <1>1. /\ mine \in Message /\ mine \in queue /\ j \in Jobs /\ mine.job = j
        /\ mine.kind \in {"inspection", "wms"} /\ mine.id = Id(w)
        /\ \A v \in Workers \ {w} : worker[v].pc # "idle" => worker[v].msg # mine
    BY WorkerHolds DEF StreamInvariant
  <1>2. /\ \A v \in Workers : worker'[v] = IF v = w THEN y ELSE worker[v]
        /\ \A i \in Jobs : job'[i] = IF i = j THEN x ELSE job[i]
        /\ queue' = queue \cup sent /\ client' = client
        /\ tasks' \in {tasks, tasks + 1} /\ tasks \in Nat
    BY DEF WorkerStepsTo, AdmissionInvariant, TypeOK
  <1>3. /\ y.msg = mine /\ y.pc \in StepsOf(w) /\ y.pc # "idle"
        /\ \A m \in sent : m \notin queue /\ m.job = j
        /\ \A m \in sent : m.kind = "inspection" => mine.kind = "inspection" /\ m.id = mine.id
    BY <1>1 DEF WorkerDeeds, StepsOf, InspectionSteps, WmsSteps
  <1>4. StreamTypeOK'
    <2>1. events \subseteq [by : Workers \cup {"api"}, job : Jobs, status : Statuses \cup {Alert}]
      BY <1>1
    <2>2. lost \subseteq Jobs
      BY <1>1
    <2>. QED  BY <2>1, <2>2 DEF StreamInvariant, StreamTypeOK
  <1>5. ViewersFollow'
    BY DEF StreamInvariant, ViewersFollow
  <1>6. MessagesHeld'
    BY <1>1, <1>2, <1>3 DEF StreamInvariant, MessagesHeld, At
  <1>7. KindsAgree'
    BY <1>1, <1>2, <1>3 DEF StreamInvariant, KindsAgree, StepsOf, InspectionSteps, WmsSteps
  <1>8. IdsApart'
    <2>1. \A m \in queue' : m.kind = "inspection" =>
            \E n \in queue : n.kind = "inspection" /\ n.id = m.id
      BY <1>1, <1>2, <1>3
    <2>2. \A m \in queue' : m.kind = "inspection" => m.id <= tasks'
      <3>1. \A m \in queue : m.kind = "inspection" => m.id \in Nat /\ m.id <= tasks
        BY DEF StreamInvariant, IdsApart, AdmissionInvariant, TypeOK, Message
      <3>. QED  BY <1>2, <2>1, <3>1
    <2>3. \A c \in Clients : Deciding(c) => \A m \in queue' : m.kind = "inspection" => m.id # client[c].task
      BY <2>1 DEF StreamInvariant, IdsApart
    <2>4. \A c \in Clients : Deciding(c) \/ Sending(c) =>
            client[c].task \in Nat /\ client[c].task <= tasks'
      BY <1>2 DEF StreamInvariant, IdsApart
    <2>. QED  BY <1>2, <2>2, <2>3, <2>4 DEF StreamInvariant, IdsApart, Deciding, Sending
  <1>9. EventsHeld'
    <2>. SUFFICES ASSUME NEW e \in outbox', e.status \in Terminal \cup {Alert}
                  PROVE  /\ e.by \in Workers
                         /\ \/ worker'[e.by].pc = "ack"
                            \/ worker'[e.by].pc = "restock" /\ e.status # Alert
                         /\ worker'[e.by].msg.job = e.job
                         /\ e.status = Alert => worker'[e.by].msg.kind = "inspection"
      BY DEF EventsHeld, At
    <2>1. CASE e \in events
      <3>1. e.by = w /\ e.job = j
        BY <2>1 DEF WorkerDeeds
      <3>2. /\ e.status \in Terminal => y.pc \in {"ack", "restock"}
            /\ e.status = Alert => y.pc = "ack" /\ mine.kind = "inspection"
        BY <2>1 DEF WorkerDeeds, Quiet
      <3>3. Alert \notin Terminal
        BY DEF Alert, Terminal
      <3>. QED  BY <1>1, <1>2, <1>3, <3>1, <3>2, <3>3
    <2>2. CASE e \in outbox /\ e.by # w
      <3>1. e.by \in Workers /\ worker'[e.by] = worker[e.by]
        BY <1>2, <2>2 DEF StreamInvariant, EventsHeld
      <3>. QED  BY <2>2, <3>1 DEF StreamInvariant, EventsHeld, At
    <2>. QED  BY <2>1, <2>2
  <1>10. ASSUME NEW v \in Workers, worker[v].pc # "idle" PROVE worker[v].msg \in queue
    BY <1>10 DEF StreamInvariant, MessagesHeld, At
  <1>11. AlertComes'
    <2>. SUFFICES ASSUME NEW i \in Jobs, Obliged(i)', i \notin missed'
                  PROVE  Announced(i)'
      BY DEF AlertComes, Announced
    <2>1. CASE i # j
      <3>1. Obliged(i)
        BY <1>2, <2>1 DEF Obliged, Deciding
      <3>2. Announced(i)
        BY <3>1 DEF StreamInvariant, AlertComes
      <3>3. ASSUME NEW e \in outbox, e.job = i, e.status = Alert PROVE e \in outbox'
        BY <1>1, <2>1, <3>3 DEF StreamInvariant, EventsHeld
      <3>4. ASSUME NEW m \in queue, m.job = i, NEW v \in Workers, worker'[v].msg = m
            PROVE  worker'[v] = worker[v]
        BY <1>1, <1>2, <1>3, <2>1, <3>4
      <3>5. \A m \in queue : m \in queue'
        BY <1>2
      <3>6. ASSUME NEW m \in queue, m.job = i, m.kind = "inspection",
                   \A v \in Workers : worker[v].msg = m => WillAlert(v)
            PROVE  \A v \in Workers : worker'[v].msg = m => WillAlert(v)'
        BY <3>4, <3>6 DEF WillAlert
      <3>. QED  BY <3>2, <3>3, <3>5, <3>6 DEF Announced
    <2>2. CASE i = j
      <3>1. lost = {} /\ ~Owes(w) /\ WorkerDuties(w, x, y, sent, events) /\ j \notin missed
        BY <2>2
      <3>2. CASE Asks(events)
        <4>1. PICK e \in events : e.status = Alert
          BY <3>2 DEF Asks
        <4>2. e \in outbox' /\ e.job = j
          BY <4>1 DEF WorkerDeeds
        <4>. QED  BY <2>2, <4>1, <4>2 DEF Announced
      <3>3. CASE ~Asks(events)
        <4>1. \A c \in Clients : Deciding(c) => ~(mine.kind = "inspection" /\ client[c].task = mine.id)
          BY <1>1 DEF StreamInvariant, IdsApart
        <4>2. x.status = "HITL_REQUIRED" => job[j].status = "HITL_REQUIRED"
          BY <3>1, <3>3 DEF WorkerDuties
        <4>3. x.status = "HITL_REQUIRED" \/ /\ x.status = "PROCESSING"
                                            /\ \E c \in Clients : /\ Deciding(c) /\ client[c].job = j
                                                                  /\ client[c].task = x.task
          BY <1>1, <1>2, <2>2 DEF Obliged, Deciding
        <4>4. x.status = "PROCESSING" => \/ job[j].status = "PROCESSING" /\ x.task = job[j].task
                                         \/ mine.kind = "inspection" /\ x.task = mine.id
          BY <1>1, <3>1 DEF WorkerDuties
        <4>5. ~(x.status = "PROCESSING" /\ x.task = mine.id /\ mine.kind = "inspection")
          BY <4>1, <4>3
        <4>6. Obliged(j)
          BY <4>2, <4>3, <4>4, <4>5 DEF Obliged
        <4>7. Announced(j)
          BY <1>1, <4>6 DEF StreamInvariant, AlertComes
        <4>8. CASE j \in alerted
          BY <2>2, <4>8 DEF Announced
        <4>9. CASE \E e \in outbox : e.job = j /\ e.status = Alert
          <5>1. PICK e \in outbox : e.job = j /\ e.status = Alert
            BY <4>9
          <5>2. e.by # w
            BY <3>1 DEF Owes
          <5>. QED  BY <2>2, <5>1, <5>2 DEF Announced
        <4>10. CASE \E m \in queue : /\ m.job = j /\ m.kind = "inspection"
                                     /\ \A v \in Workers : worker[v].msg = m => WillAlert(v)
          <5>1. PICK m \in queue : /\ m.job = j /\ m.kind = "inspection"
                                   /\ \A v \in Workers : worker[v].msg = m => WillAlert(v)
            BY <4>10
          <5>2. CASE m # mine \/ y.pc \in Alerting
            <6>1. \A v \in Workers : worker'[v].msg = m => WillAlert(v)'
              BY <1>2, <1>3, <5>1, <5>2 DEF WillAlert, Alerting
            <6>2. m \in queue'
              BY <1>2
            <6>. QED  BY <2>2, <5>1, <6>1, <6>2 DEF Announced
          <5>3. CASE m = mine /\ y.pc \notin Alerting
            <6>1. worker[w].pc \in Alerting
              BY <5>1, <5>3 DEF WillAlert, Alerting
            <6>2. PICK k \in sent : k.kind = "inspection"
              BY <3>1, <3>3, <4>3, <4>5, <5>1, <5>3, <6>1, <1>1 DEF WorkerDuties
            <6>3. \A v \in Workers : worker'[v].msg = k => WillAlert(v)'
              BY <1>1, <1>2, <1>3, <1>10, <6>2 DEF WillAlert
            <6>4. k \in queue' /\ k.job = j
              BY <1>2, <1>3, <6>2
            <6>. QED  BY <2>2, <6>2, <6>3, <6>4 DEF Announced
          <5>. QED  BY <5>2, <5>3
        <4>. QED  BY <3>1, <4>7, <4>8, <4>9, <4>10 DEF Announced
      <3>. QED  BY <3>2, <3>3
    <2>. QED  BY <2>1, <2>2
  <1>12. EndComes'
    <2>. SUFFICES ASSUME NEW v \in Viewers, Following(v), ~viewer[v].ended,
                         NEW i, i = viewer[v].job, Ended(i)', i \notin missed'
                  PROVE  Told(i)'
      BY DEF EndComes, Following, Ended, Told, WillBeTold, FailureTold, WillTell
    <2>1. i \in Jobs /\ i \notin missed
      BY DEF StreamInvariant, ViewersFollow, Following
    <2>2. Ended(i) => Told(i)
      BY <2>1 DEF StreamInvariant, EndComes
    <2>3. \A m \in queue : m \in queue'
      BY <1>2
    <2>4. CASE i # j
      <3>1. job'[i] = job[i]
        BY <1>2, <2>1, <2>4
      <3>2. Told(i)
        BY <2>2, <3>1 DEF Ended
      <3>3. CASE job[i].status = "FAILED"
        <4>1. ASSUME NEW e \in outbox, e.job = i, e.status = "FAILED" PROVE e \in outbox'
          BY <1>1, <2>4, <4>1 DEF StreamInvariant, EventsHeld, Terminal
        <4>. QED  BY <3>1, <3>2, <3>3, <4>1 DEF Told, FailureTold
      <3>4. CASE job[i].status # "FAILED"
        <4>1. PICK m \in queue : /\ m.job = i /\ m.kind = "wms"
                                 /\ \A u \in Workers : worker[u].msg = m => WillTell(u, i)
          BY <3>2, <3>4 DEF Told, WillBeTold
        <4>2. \A u \in Workers : worker'[u].msg = m => u # w /\ worker'[u] = worker[u]
          BY <1>1, <1>2, <1>3, <2>4, <4>1
        <4>3. \A u \in Workers : worker'[u].msg = m => WillTell(u, i)'
          BY <4>1, <4>2 DEF WillTell
        <4>. QED  BY <2>3, <3>1, <3>4, <4>1, <4>3 DEF Told, WillBeTold
      <3>. QED  BY <3>3, <3>4
    <2>5. CASE i = j
      <3>1. lost = {} /\ ~Owes(w) /\ WorkerDuties(w, x, y, sent, events)
        BY <2>5
      <3>2. job'[i] = x /\ x.status \in Terminal
        BY <1>1, <1>2, <2>5 DEF Ended, Terminal, Final
      <3>3. CASE x.status = "FAILED"
        <4>1. CASE Fails(events)
          <5>1. PICK e \in events : e.status = "FAILED"
            BY <4>1 DEF Fails
          <5>2. e \in outbox' /\ e.job = j
            BY <5>1 DEF WorkerDeeds
          <5>. QED  BY <2>5, <3>2, <3>3, <5>1, <5>2 DEF Told, FailureTold
        <4>2. CASE job[j].status = "FAILED"
          <5>1. FailureTold(i)
            BY <2>2, <2>5, <4>2 DEF Ended, Told
          <5>2. \A e \in outbox : e \in outbox'
            BY <3>1 DEF Owes
          <5>. QED  BY <3>2, <3>3, <5>1, <5>2 DEF Told, FailureTold
        <4>. QED  BY <3>1, <3>3, <4>1, <4>2 DEF WorkerDuties
      <3>4. CASE x.status \in Final /\ Ends(events) /\ mine.kind = "wms"
        <4>1. WillTell(w, i)'
          BY <2>5, <3>4 DEF Ends, WillTell, WorkerDeeds
        <4>2. \A u \in Workers \ {w} : worker'[u].msg = mine => WillTell(u, i)'
          BY <1>1, <1>2 DEF WillTell
        <4>3. \A u \in Workers : worker'[u].msg = mine => WillTell(u, i)'
          BY <4>1, <4>2
        <4>4. mine \in queue' /\ mine.job = j
          BY <1>1, <1>2
        <4>. QED  BY <2>5, <3>2, <3>4, <4>3, <4>4 DEF Told, WillBeTold, Final
      <3>5. CASE x.status \in Final /\ x.status = job[j].status /\ ~(Ends(events) /\ mine.kind = "wms")
        <4>1. WillBeTold(i)
          BY <1>1, <2>2, <2>5, <3>5 DEF Ended, Told, Final
        <4>2. PICK m \in queue : /\ m.job = j /\ m.kind = "wms"
                                 /\ \A u \in Workers : worker[u].msg = m => WillTell(u, i)
          BY <2>5, <4>1 DEF WillBeTold
        <4>3. \A u \in Workers \ {w} : WillTell(u, i) => WillTell(u, i)'
          BY <1>2 DEF WillTell
        <4>4. worker[w].msg # m
          <5>1. SUFFICES ASSUME worker[w].msg = m PROVE FALSE
            OBVIOUS
          <5>2. worker[w].pc = "phase1"
            BY <3>1, <4>2, <5>1 DEF WillTell, Owes
          <5>3. Ends(events)
            BY <3>1, <3>5, <5>2 DEF WorkerDuties
          <5>. QED  BY <3>5, <4>2, <5>1, <5>3
        <4>5. \A u \in Workers : worker'[u].msg = m => WillTell(u, i)'
          BY <1>2, <1>3, <4>2, <4>3, <4>4
        <4>6. m \in queue' /\ m.job = j
          BY <2>3, <4>2
        <4>. QED  BY <2>5, <3>2, <3>5, <4>2, <4>5, <4>6 DEF Told, WillBeTold, Final
      <3>. QED  BY <3>1, <3>2, <3>3, <3>4, <3>5 DEF WorkerDuties, Terminal, Final
    <2>. QED  BY <2>4, <2>5
  <1>. QED  BY <1>4, <1>5, <1>6, <1>7, <1>8, <1>9, <1>11, <1>12 DEF StreamInvariant

(* A worker takes a message that nobody has.                               *)
LEMMA TakeKeepsWord ==
  ASSUME AdmissionInvariant, StreamInvariant, NEW w \in Workers, NEW m \in queue, Take(w, m),
         UNCHANGED streamVars
  PROVE  StreamInvariant'
  <1>. DEFINE pc == IF m.kind = "wms" THEN "phase1" ELSE "start"
  <1>1. /\ worker[w].pc = "idle" /\ \A v \in Workers : worker[v].msg # m
        /\ UNCHANGED <<job, queue, client, tasks>>
    BY DEF Take, Deliver, At
  <1>2. /\ \A v \in Workers \ {w} : worker'[v] = worker[v]
        /\ worker'[w].msg = m /\ worker'[w].pc = pc
    BY DEF Take, AdmissionInvariant, TypeOK, WorkerState
  <1>3. /\ pc \in {"phase1", "start"} /\ (pc = "phase1" <=> m.kind = "wms")
        /\ (pc = "start" <=> m.kind = "inspection")
    BY DEF AdmissionInvariant, TypeOK, Message
  <1>. HIDE DEF pc
  <1>4. UNCHANGED <<outbox, viewer, alerted, missed, unheard>>
    BY DEF streamVars
  <1>5. StreamTypeOK' /\ ViewersFollow'
    BY <1>4 DEF StreamInvariant, StreamTypeOK, ViewersFollow
  <1>6. MessagesHeld'
    BY <1>1, <1>2, <1>3 DEF StreamInvariant, MessagesHeld, At
  <1>7. KindsAgree'
    BY <1>1, <1>2, <1>3 DEF StreamInvariant, KindsAgree
  <1>8. IdsApart'
    BY <1>1 DEF StreamInvariant, IdsApart, Deciding, Sending
  <1>9. EventsHeld'
    BY <1>1, <1>2, <1>4 DEF StreamInvariant, EventsHeld, At
  <1>10. AlertComes'
    <2>. SUFFICES ASSUME NEW j \in Jobs, Obliged(j)' PROVE Announced(j)'
      BY DEF AlertComes
    <2>1. Announced(j)
      BY <1>1 DEF StreamInvariant, AlertComes, Obliged, Deciding
    <2>2. ASSUME NEW n \in queue, n.kind = "inspection",
                 \A v \in Workers : worker[v].msg = n => WillAlert(v)
          PROVE  \A v \in Workers : worker'[v].msg = n => WillAlert(v)'
      BY <1>2, <1>3, <2>2 DEF WillAlert
    <2>. QED  BY <1>1, <1>4, <2>1, <2>2 DEF Announced
  <1>11. EndComes'
    <2>. SUFFICES ASSUME NEW v \in Viewers, Following(v), ~viewer[v].ended,
                         NEW i, i = viewer[v].job, Ended(i)', i \notin missed
                  PROVE  Told(i)'
      BY <1>4 DEF EndComes, Following, Ended, Told, WillBeTold, FailureTold, WillTell
    <2>1. Told(i)
      BY <1>1 DEF StreamInvariant, EndComes, Ended
    <2>2. ASSUME NEW n \in queue, n.kind = "wms",
                 \A u \in Workers : worker[u].msg = n => WillTell(u, i)
          PROVE  \A u \in Workers : worker'[u].msg = n => WillTell(u, i)'
      BY <1>2, <1>3, <1>4, <2>2 DEF WillTell
    <2>3. WillBeTold(i) => WillBeTold(i)'
      BY <1>1, <2>2 DEF WillBeTold
    <2>4. FailureTold(i) => FailureTold(i)'
      BY <1>4 DEF FailureTold
    <2>. QED  BY <1>1, <2>1, <2>3, <2>4 DEF Told
  <1>. QED  BY <1>5, <1>6, <1>7, <1>8, <1>9, <1>10, <1>11 DEF StreamInvariant

(* A worker that is done, or lost: its message is delivered again unless   *)
(* nothing is owed.                                                        *)
LEMMA RestKeepsWord ==
  ASSUME AdmissionInvariant, StreamInvariant, NEW w \in Workers, worker[w].pc # "idle",
         worker' = [worker EXCEPT ![w] = WorkerIdle], UNCHANGED <<job, client, tasks>>,
         queue' \subseteq queue,
         \A m \in queue \ queue' : m = worker[w].msg /\ At(w, "ack") /\ ~Owes(w),
         outbox' = {e \in outbox : e.by # w}, UNCHANGED <<viewer, alerted, missed>>,
         unheard' = IF OwesFailure(w) THEN unheard \cup {Of(w)} ELSE unheard
  PROVE  StreamInvariant'
  <1>. DEFINE mine == worker[w].msg
  <1>1. /\ \A v \in Workers \ {w} : worker'[v] = worker[v]
        /\ worker'[w].pc = "idle"
    BY DEF AdmissionInvariant, TypeOK, WorkerIdle
  <1>2. /\ mine \in queue
        /\ \A v \in Workers \ {w} : worker[v].pc # "idle" => worker[v].msg \in queue /\ worker[v].msg # mine
    BY DEF StreamInvariant, MessagesHeld, At
  <1>3. StreamTypeOK' /\ ViewersFollow'
    <2>1. Of(w) \in Jobs
      BY WorkerHolds DEF StreamInvariant
    <2>. QED  BY <2>1 DEF StreamInvariant, StreamTypeOK, ViewersFollow
  <1>4. MessagesHeld'
    BY <1>1, <1>2 DEF StreamInvariant, MessagesHeld, At
  <1>5. KindsAgree'
    BY <1>1 DEF StreamInvariant, KindsAgree
  <1>6. IdsApart'
    BY DEF StreamInvariant, IdsApart, Deciding, Sending
  <1>7. EventsHeld'
    BY <1>1 DEF StreamInvariant, EventsHeld, At
  <1>8. AlertComes'
    <2>. SUFFICES ASSUME NEW j \in Jobs, Obliged(j)' PROVE Announced(j)'
      BY DEF AlertComes
    <2>1. Announced(j)
      BY DEF StreamInvariant, AlertComes, Obliged, Deciding
    <2>2. CASE j \in alerted \cup missed
      BY <2>2 DEF Announced
    <2>3. CASE \E e \in outbox : e.job = j /\ e.status = Alert
      <3>1. PICK e \in outbox : e.job = j /\ e.status = Alert
        BY <2>3
      <3>2. CASE e.by # w
        BY <3>1, <3>2 DEF Announced
      <3>3. CASE e.by = w
        <4>1. mine.job = j /\ mine.kind = "inspection" /\ mine \in queue'
          BY <1>2, <3>1, <3>3 DEF StreamInvariant, EventsHeld, Owes
        <4>2. \A v \in Workers : worker'[v].msg = mine => WillAlert(v)'
          BY <1>1, <1>2 DEF WillAlert
        <4>. QED  BY <4>1, <4>2 DEF Announced
      <3>. QED  BY <3>2, <3>3
    <2>4. CASE \E m \in queue : /\ m.job = j /\ m.kind = "inspection"
                                /\ \A v \in Workers : worker[v].msg = m => WillAlert(v)
      <3>1. PICK m \in queue : /\ m.job = j /\ m.kind = "inspection"
                               /\ \A v \in Workers : worker[v].msg = m => WillAlert(v)
        BY <2>4
      <3>2. m \in queue'
        BY <3>1 DEF WillAlert, At
      <3>3. \A v \in Workers : worker'[v].msg = m => WillAlert(v)'
        BY <1>1, <3>1 DEF WillAlert
      <3>. QED  BY <3>1, <3>2, <3>3 DEF Announced
    <2>. QED  BY <2>1, <2>2, <2>3, <2>4 DEF Announced
  <1>9. EndComes'
    <2>. SUFFICES ASSUME NEW v \in Viewers, Following(v), ~viewer[v].ended,
                         NEW i, i = viewer[v].job, Ended(i)', i \notin missed
                  PROVE  Told(i)'
      BY DEF EndComes, Following, Ended, Told, WillBeTold, FailureTold, WillTell
    <2>1. Told(i)
      BY DEF StreamInvariant, EndComes, Ended
    <2>2. CASE job[i].status = "FAILED"
      <3>1. CASE i \in unheard
        BY <2>2, <3>1 DEF Told, FailureTold
      <3>2. CASE \E e \in outbox : e.job = i /\ e.status = "FAILED"
        <4>1. PICK e \in outbox : e.job = i /\ e.status = "FAILED"
          BY <3>2
        <4>2. CASE e.by # w
          BY <2>2, <4>1, <4>2 DEF Told, FailureTold
        <4>3. CASE e.by = w
          <5>1. Of(w) = i
            BY <4>1, <4>3 DEF StreamInvariant, EventsHeld, Terminal, Of
          <5>2. OwesFailure(w)
            BY <2>2, <4>1, <4>3 DEF OwesFailure
          <5>. QED  BY <2>2, <5>1, <5>2 DEF Told, FailureTold
        <4>. QED  BY <4>2, <4>3
      <3>. QED  BY <2>1, <2>2, <3>1, <3>2 DEF Told, FailureTold
    <2>3. CASE job[i].status # "FAILED"
      <3>1. PICK m \in queue : /\ m.job = i /\ m.kind = "wms"
                               /\ \A u \in Workers : worker[u].msg = m => WillTell(u, i)
        BY <2>1, <2>3 DEF Told, WillBeTold
      <3>2. m \in queue'
        BY <3>1 DEF WillTell, At, Owes
      <3>3. \A u \in Workers : worker'[u].msg = m => WillTell(u, i)'
        BY <1>1, <3>1 DEF WillTell
      <3>. QED  BY <2>3, <3>1, <3>2, <3>3 DEF Told, WillBeTold
    <2>. QED  BY <2>2, <2>3
  <1>. QED  BY <1>3, <1>4, <1>5, <1>6, <1>7, <1>8, <1>9 DEF StreamInvariant

-----------------------------------------------------------------------------
(* The steps of the tasks.                                                 *)

(* A worker publishes what it owes only when it has published all else.    *)
Publishes(w) ==
  /\ ~Owes(w)
  /\ outbox' = outbox \cup WorkerEvents(w)
  /\ UNCHANGED <<viewer, alerted, missed, unheard>>

(* Events of worker w about its job that fit its next step.                *)
EventsFit(w, pc, events) ==
  /\ events \subseteq [by : {w}, job : {Of(w)}, status : Statuses \cup {Alert}]
  /\ Ends(events) => pc \in Quiet
  /\ Asks(events) => pc = "ack" /\ worker[w].msg.kind = "inspection"

(* A worker saves its job or leaves it alone, and goes on.                 *)
LEMMA WorkerActs ==
  ASSUME AdmissionInvariant, AdmissionInvariant', StreamInvariant, NEW w \in Workers, worker[w].pc # "idle",
         Publishes(w), NEW pc \in StepsOf(w), NEW x, NEW y, NEW sent, NEW events,
         y.pc = pc, y.msg = worker[w].msg, WorkerStepsTo(w, x, y, sent),
         \A m \in sent : /\ m \notin queue /\ m.job = Of(w)
                         /\ m.kind = "inspection" => worker[w].msg.kind = "inspection" /\ m.id = Id(w),
         WorkerEvents(w) = events, EventsFit(w, pc, events), WorkerDuties(w, x, y, sent, events)
  PROVE  StreamInvariant'
  <1>. DEFINE lost == {}
  <1>1. ~Owes(w) /\ outbox' = outbox \cup events /\ UNCHANGED <<viewer, alerted, missed, unheard>>
    BY DEF Publishes
  <1>2. WorkerDeeds(w, y, sent, events)
    BY DEF WorkerDeeds, EventsFit, Ends, Asks
  <1>3. events \subseteq [by : {w}, job : {Of(w)}, status : Statuses \cup {Alert}]
    BY DEF EventsFit
  <1>4. lost = {} => ~Owes(w) /\ WorkerDuties(w, x, y, sent, events)
    BY <1>1
  <1>5. lost = {} \/ /\ lost = {Of(w)} /\ x.status = job[Of(w)].status /\ x.task = job[Of(w)].task
                     /\ sent = {}
    OBVIOUS
  <1>6. outbox' = {e \in outbox : e.by # w} \cup events /\ missed' = missed \cup lost
        /\ UNCHANGED <<viewer, alerted, unheard>>
    <2>1. {e \in outbox : e.by # w} = outbox
      BY <1>1 DEF Owes
    <2>. QED  BY <1>1, <2>1
  <1>. HIDE DEF lost
  <1>. QED  BY <1>2, <1>3, <1>4, <1>5, <1>6, WorkerKeepsWord

(* What moving a worker does.                                              *)
LEMMA StepsToBy ==
  ASSUME AdmissionInvariant, NEW w \in Workers, Of(w) \in Jobs, NEW pc, Goto(w, pc),
         NEW x, (x = job[Of(w)] /\ UNCHANGED job) \/ SaveJob(Of(w), x),
         UNCHANGED <<queue, client>>, tasks' \in {tasks, tasks + 1}
  PROVE  LET y == [worker[w] EXCEPT !.pc = pc]
         IN y.pc = pc /\ y.msg = worker[w].msg /\ WorkerStepsTo(w, x, y, {})
  <1>. DEFINE y == [worker[w] EXCEPT !.pc = pc]
  <1>1. /\ \A v \in Workers : worker'[v] = IF v = w THEN y ELSE worker[v]
        /\ y.pc = pc /\ y.msg = worker[w].msg
    BY GotoMeans
  <1>2. \A i \in Jobs : job'[i] = IF i = Of(w) THEN x ELSE job[i]
    BY SaveMeans
  <1>3. queue' = queue \cup {} /\ UNCHANGED client
    OBVIOUS
  <1>. HIDE DEF y
  <1>4. WorkerStepsTo(w, x, y, {})
    BY <1>1, <1>2, <1>3 DEF WorkerStepsTo
  <1>. QED  BY <1>1, <1>4 DEF y

(* The same with what it owes.                                             *)
LEMMA WorkerGoesAndTells ==
  ASSUME AdmissionInvariant, AdmissionInvariant', StreamInvariant, NEW w \in Workers, worker[w].pc # "idle",
         Publishes(w), NEW pc \in StepsOf(w), Goto(w, pc),
         NEW x, (x = job[Of(w)] /\ UNCHANGED job) \/ SaveJob(Of(w), x),
         UNCHANGED <<queue, client>>, tasks' \in {tasks, tasks + 1},
         NEW events, WorkerEvents(w) = events, EventsFit(w, pc, events),
         \A y : y.pc = pc => WorkerDuties(w, x, y, {}, events)
  PROVE  StreamInvariant'
  <1>. DEFINE y == [worker[w] EXCEPT !.pc = pc]
  <1>1. Of(w) \in Jobs
    BY WorkerHolds DEF StreamInvariant
  <1>2. y.pc = pc /\ y.msg = worker[w].msg /\ WorkerStepsTo(w, x, y, {})
    BY <1>1, StepsToBy
  <1>. DEFINE sent == {}
  <1>3. \A m \in sent : /\ m \notin queue /\ m.job = Of(w)
                        /\ m.kind = "inspection" => worker[w].msg.kind = "inspection" /\ m.id = Id(w)
    OBVIOUS
  <1>. HIDE DEF y
  <1>4. WorkerDuties(w, x, y, sent, events) /\ WorkerStepsTo(w, x, y, sent)
    BY <1>2
  <1>. HIDE DEF sent
  <1>. QED  BY <1>2, <1>3, <1>4, WorkerActs

(* What is owed, by step.                                                  *)
LEMMA EventsOf ==
  ASSUME NEW w
  PROVE  /\ worker[w].pc = "start" => WorkerEvents(w) =
              IF worker'[w].pc = "graph" THEN {Event(w, Of(w), "PROCESSING")} ELSE {}
         /\ worker[w].pc = "graph" => WorkerEvents(w) =
              IF worker'[w].pc = "ack"
              THEN {Event(w, Of(w), Alert), Event(w, Of(w), "HITL_REQUIRED")} ELSE {}
         /\ worker[w].pc = "undo" => WorkerEvents(w) = {Event(w, Of(w), "FAILED")}
         /\ worker[w].pc \in {"error", "unreachable", "failed"} => WorkerEvents(w) = FailureEvents(w)
         /\ worker[w].pc \in {"phase1", "admitted"} => WorkerEvents(w) = FinalEvents(w)
         /\ worker[w].pc \in {"register", "send", "call", "wait", "restock"} => WorkerEvents(w) = {}
  <1>1. CASE worker[w].pc = "start"
    BY <1>1 DEF WorkerEvents, At
  <1>2. CASE worker[w].pc = "graph"
    BY <1>2 DEF WorkerEvents, At
  <1>3. CASE worker[w].pc = "undo"
    BY <1>3 DEF WorkerEvents, At
  <1>4. CASE worker[w].pc \in {"error", "unreachable", "failed"}
    BY <1>4 DEF WorkerEvents, At
  <1>5. CASE worker[w].pc \in {"phase1", "admitted"}
    BY <1>5 DEF WorkerEvents, At
  <1>6. CASE worker[w].pc \in {"register", "send", "call", "wait", "restock"}
    BY <1>6 DEF WorkerEvents, At
  <1>. QED  BY <1>1, <1>2, <1>3, <1>4, <1>5, <1>6

(* An event of a worker.                                                   *)
LEMMA EventIs ==
  ASSUME NEW w, NEW j, NEW s
  PROVE  /\ Event(w, j, s).by = w /\ Event(w, j, s).job = j /\ Event(w, j, s).status = s
         /\ s \in Statuses \cup {Alert} =>
              Event(w, j, s) \in [by : {w}, job : {j}, status : Statuses \cup {Alert}]
  BY DEF Event

(* Where a worker is that went there.                                      *)
LEMMA GotoShows ==
  ASSUME AdmissionInvariant, NEW w \in Workers, NEW pc, Goto(w, pc)
  PROVE  worker'[w].pc = pc
  BY DEF AdmissionInvariant, TypeOK, Goto, WorkerState

(* No event fits any step.                                                 *)
LEMMA NothingFits ==
  ASSUME NEW w, NEW pc
  PROVE  EventsFit(w, pc, {}) /\ ~Ends({}) /\ ~Asks({})
  BY DEF EventsFit, Ends, Asks

(* A worker goes on and owes nothing more.                                 *)
LEMMA WorkerGoesQuietly ==
  ASSUME AdmissionInvariant, AdmissionInvariant', StreamInvariant, NEW w \in Workers, worker[w].pc # "idle",
         Publishes(w), NEW pc \in StepsOf(w), Goto(w, pc),
         NEW x, (x = job[Of(w)] /\ UNCHANGED job) \/ SaveJob(Of(w), x),
         UNCHANGED <<queue, client>>, tasks' \in {tasks, tasks + 1}, WorkerEvents(w) = {},
         x.status = job[Of(w)].status, x.task = job[Of(w)].task,
         worker[w].pc \in Alerting =>
           pc \in Alerting \/ (x.status = "PROCESSING" /\ x.task = Id(w)),
         x.status \in Final => worker[w].pc # "phase1"
  PROVE  StreamInvariant'
  <1>. DEFINE events == {}
  <1>1. EventsFit(w, pc, events) /\ ~Ends(events) /\ ~Asks(events)
    BY NothingFits
  <1>2. WorkerEvents(w) = events
    OBVIOUS
  <1>3. \A y : y.pc = pc => WorkerDuties(w, x, y, {}, events)
    BY DEF WorkerDuties
  <1>. HIDE DEF events
  <1>. QED  BY <1>1, <1>2, <1>3, WorkerGoesAndTells

(* The start of an inspection.                                             *)
LEMMA PrepareKeepsWord ==
  ASSUME AdmissionInvariant, AdmissionInvariant', StreamInvariant, NEW w \in Workers,
         Publishes(w), Prepare(w)
  PROVE  StreamInvariant'
  <1>1. /\ worker[w].pc = "start" /\ worker[w].pc # "idle" /\ worker[w].pc \in InspectionSteps
        /\ UNCHANGED <<queue, client>> /\ tasks' \in {tasks, tasks + 1}
    BY DEF Prepare, At, InspectionSteps
  <1>2. /\ worker[w].msg.kind = "inspection" /\ Of(w) \in Jobs /\ job[Of(w)] \in JobRow
        /\ worker[w] \in WorkerState
    BY <1>1, WorkerHolds DEF StreamInvariant
  <1>3. {"graph", "error"} \subseteq StepsOf(w)
    BY <1>2 DEF StepsOf, InspectionSteps
  <1>4. CASE job[Of(w)].status \in Final \cup {"FAILED"} \/ job[Of(w)].task \notin {None, Id(w)}
    <2>. DEFINE x == job[Of(w)]
                pc == "error"
    <2>1. Goto(w, pc) /\ UNCHANGED job /\ pc \in StepsOf(w)
      BY <1>3, <1>4 DEF Prepare, KeepJob
    <2>2. WorkerEvents(w) = {}
      <3>1. worker'[w].pc = "error"
        BY <2>1, GotoShows
      <3>. QED  BY <1>1, <3>1, EventsOf
    <2>3. /\ worker[w].pc \in Alerting =>
               pc \in Alerting \/ (x.status = "PROCESSING" /\ x.task = Id(w))
          /\ x.status \in Final => worker[w].pc # "phase1"
          /\ x.status = job[Of(w)].status /\ x.task = job[Of(w)].task
          /\ (x = job[Of(w)] /\ UNCHANGED job) \/ SaveJob(Of(w), x)
      BY <1>1, <2>1 DEF Alerting
    <2>. HIDE DEF x, pc
    <2>. QED  BY <1>1, <2>1, <2>2, <2>3, WorkerGoesQuietly
  <1>5. CASE ~(job[Of(w)].status \in Final \cup {"FAILED"} \/ job[Of(w)].task \notin {None, Id(w)})
    <2>. DEFINE x == [job[Of(w)] EXCEPT !.status = "PROCESSING", !.task = Id(w)]
                pc == "graph"
                events == {Event(w, Of(w), "PROCESSING")}
    <2>1. Goto(w, pc) /\ SaveJob(Of(w), x) /\ pc \in StepsOf(w)
      BY <1>3, <1>5 DEF Prepare
    <2>2. WorkerEvents(w) = events
      <3>1. worker'[w].pc = "graph"
        BY <2>1, GotoShows
      <3>. QED  BY <1>1, <3>1, EventsOf
    <2>3. ~Ends(events) /\ ~Asks(events)
      BY EventIs DEF Ends, Asks, Alert, Terminal
    <2>4. EventsFit(w, pc, events)
      BY <2>3, EventIs DEF EventsFit, Statuses
    <2>5. x.status = "PROCESSING" /\ x.task = Id(w)
      BY <1>2 DEF JobRow
    <2>6. \A y : y.pc = pc => WorkerDuties(w, x, y, {}, events)
      BY <1>2, <2>3, <2>5 DEF WorkerDuties, Terminal, Final
    <2>7. (x = job[Of(w)] /\ UNCHANGED job) \/ SaveJob(Of(w), x)
      BY <2>1
    <2>. HIDE DEF x, pc, events
    <2>. QED  BY <1>1, <2>1, <2>2, <2>4, <2>6, <2>7, WorkerGoesAndTells
  <1>. QED  BY <1>4, <1>5

(* The question to the administrators.                                     *)
LEMMA SaveHitlRequiredKeepsWord ==
  ASSUME AdmissionInvariant, AdmissionInvariant', StreamInvariant, NEW w \in Workers,
         Publishes(w), SaveHitlRequired(w)
  PROVE  StreamInvariant'
  <1>. DEFINE x == [job[Of(w)] EXCEPT !.status = "HITL_REQUIRED"]
              pc == "ack"
              events == {Event(w, Of(w), Alert), Event(w, Of(w), "HITL_REQUIRED")}
  <1>1. /\ worker[w].pc = "graph" /\ worker[w].pc # "idle" /\ worker[w].pc \in InspectionSteps
        /\ UNCHANGED <<queue, client>> /\ tasks' \in {tasks, tasks + 1}
        /\ Goto(w, pc) /\ SaveJob(Of(w), x)
    BY DEF SaveHitlRequired, At, InspectionSteps
  <1>2. /\ worker[w].msg.kind = "inspection" /\ Of(w) \in Jobs /\ job[Of(w)] \in JobRow
    BY <1>1, WorkerHolds DEF StreamInvariant
  <1>3. pc \in StepsOf(w)
    BY <1>2 DEF StepsOf
  <1>4. WorkerEvents(w) = events
    <2>1. worker'[w].pc = "ack"
      BY <1>1, GotoShows
    <2>. QED  BY <1>1, <2>1, EventsOf
  <1>5. Asks(events) /\ ~Ends(events)
    BY EventIs DEF Ends, Asks, Alert, Terminal
  <1>6. EventsFit(w, pc, events)
    BY <1>2, <1>5, EventIs DEF EventsFit, Statuses
  <1>7. x.status = "HITL_REQUIRED"
    BY <1>2 DEF JobRow
  <1>8. \A y : y.pc = pc => WorkerDuties(w, x, y, {}, events)
    BY <1>5, <1>7 DEF WorkerDuties, Terminal, Final
  <1>9. (x = job[Of(w)] /\ UNCHANGED job) \/ SaveJob(Of(w), x)
    BY <1>1
  <1>. HIDE DEF x, pc, events
  <1>. QED  BY <1>1, <1>3, <1>4, <1>6, <1>8, <1>9, WorkerGoesAndTells

(* A verdict is saved, or the job is no longer this task's.                *)
LEMMA SaveVerdictKeepsWord ==
  ASSUME AdmissionInvariant, AdmissionInvariant', StreamInvariant, NEW w \in Workers,
         Publishes(w), NEW v, SaveVerdict(w, v) \/ GraphFails(w)
  PROVE  StreamInvariant'
  <1>1. /\ worker[w].pc = "graph" /\ worker[w].pc # "idle" /\ worker[w].pc \in InspectionSteps
        /\ UNCHANGED <<queue, client>> /\ tasks' \in {tasks, tasks + 1}
    BY DEF SaveVerdict, GraphFails, At, InspectionSteps
  <1>2. /\ worker[w].msg.kind = "inspection" /\ Of(w) \in Jobs /\ job[Of(w)] \in JobRow
    BY <1>1, WorkerHolds DEF StreamInvariant
  <1>3. PICK pc \in {"register", "error"}, x \in {job[Of(w)], [job[Of(w)] EXCEPT !.logs.verdict = v]} :
          /\ Goto(w, pc)
          /\ (x = job[Of(w)] /\ UNCHANGED job) \/ SaveJob(Of(w), x)
          /\ pc = "register" => Mine(w)
    BY DEF SaveVerdict, GraphFails, KeepJob
  <1>4. x.status = job[Of(w)].status /\ x.task = job[Of(w)].task
    BY <1>2, <1>3 DEF JobRow
  <1>5. pc \in StepsOf(w) /\ (pc = "error" => pc \in Alerting)
    BY <1>2, <1>3 DEF StepsOf, InspectionSteps, Alerting
  <1>6. WorkerEvents(w) = {}
    <2>1. worker'[w].pc = pc /\ pc # "ack"
      BY <1>3, GotoShows
    <2>. QED  BY <1>1, <2>1, EventsOf
  <1>7. /\ worker[w].pc \in Alerting =>
             pc \in Alerting \/ (x.status = "PROCESSING" /\ x.task = Id(w))
        /\ x.status \in Final => worker[w].pc # "phase1"
    BY <1>1, <1>3, <1>4, <1>5 DEF Mine
  <1>. QED  BY <1>1, <1>3, <1>4, <1>5, <1>6, <1>7, WorkerGoesQuietly

(* The id of the WMS task is saved.                                        *)
LEMMA SaveWmsTaskIdKeepsWord ==
  ASSUME AdmissionInvariant, AdmissionInvariant', StreamInvariant, NEW w \in Workers,
         Publishes(w), SaveWmsTaskId(w)
  PROVE  StreamInvariant'
  <1>1. /\ worker[w].pc = "register" /\ worker[w].pc # "idle" /\ worker[w].pc \in InspectionSteps
        /\ worker[w].pc \notin Alerting
        /\ UNCHANGED <<queue, client>> /\ tasks' \in {tasks, tasks + 1}
    BY DEF SaveWmsTaskId, At, InspectionSteps, Alerting, DrawTask, Fresh
  <1>2. /\ worker[w].msg.kind = "inspection" /\ Of(w) \in Jobs /\ job[Of(w)] \in JobRow
        /\ worker[w] \in WorkerState
    BY <1>1, WorkerHolds DEF StreamInvariant
  <1>3. {"send", "undo"} \subseteq StepsOf(w)
    BY <1>2 DEF StepsOf, InspectionSteps
  <1>4. WorkerEvents(w) = {}
    BY <1>1, EventsOf
  <1>5. CASE ~Mine(w)
    <2>. DEFINE x == job[Of(w)]
                pc == "undo"
    <2>1. Goto(w, pc) /\ UNCHANGED job /\ pc \in StepsOf(w)
      BY <1>3, <1>5 DEF SaveWmsTaskId, KeepJob
    <2>2. /\ x.status = job[Of(w)].status /\ x.task = job[Of(w)].task
          /\ (x = job[Of(w)] /\ UNCHANGED job) \/ SaveJob(Of(w), x)
      BY <2>1
    <2>. HIDE DEF x, pc
    <2>. QED  BY <1>1, <1>4, <2>1, <2>2, WorkerGoesQuietly
  <1>6. CASE Mine(w)
    <2>. DEFINE x == [job[Of(w)] EXCEPT !.logs.wms = Fresh]
                y == [worker[w] EXCEPT !.pc = "send", !.wms = Fresh]
                pc == "send"
                sent == {}
                events == {}
    <2>1. /\ worker' = [worker EXCEPT ![w].pc = "send", ![w].wms = Fresh]
          /\ SaveJob(Of(w), x)
      BY <1>6 DEF SaveWmsTaskId
    <2>2. /\ \A v \in Workers : worker'[v] = IF v = w THEN y ELSE worker[v]
          /\ y.pc = pc /\ y.msg = worker[w].msg
      BY <1>2, <2>1 DEF AdmissionInvariant, TypeOK, WorkerState
    <2>3. \A i \in Jobs : job'[i] = IF i = Of(w) THEN x ELSE job[i]
      BY <1>2, <2>1, SaveMeans
    <2>4. x.status = job[Of(w)].status /\ x.task = job[Of(w)].task /\ x.status = "PROCESSING"
      BY <1>2, <1>6 DEF JobRow, Mine
    <2>5. queue' = queue \cup sent /\ UNCHANGED client
      BY <1>1
    <2>6. /\ EventsFit(w, pc, events) /\ WorkerEvents(w) = events
          /\ \A m \in sent : /\ m \notin queue /\ m.job = Of(w)
                             /\ m.kind = "inspection" => worker[w].msg.kind = "inspection" /\ m.id = Id(w)
      BY <1>4, NothingFits
    <2>. HIDE DEF x, y, sent, events
    <2>7. WorkerStepsTo(w, x, y, sent)
      BY <1>1, <2>2, <2>3, <2>5 DEF WorkerStepsTo
    <2>8. WorkerDuties(w, x, y, sent, events)
      BY <1>1, <2>4 DEF WorkerDuties, Terminal, Final
    <2>9. pc \in StepsOf(w)
      BY <1>3
    <2>. QED  BY <1>1, <2>2, <2>6, <2>7, <2>8, <2>9, WorkerActs
  <1>. QED  BY <1>5, <1>6

(* A message is put on the queue by worker w, which ends.                  *)
LEMMA WorkerSendsOn ==
  ASSUME AdmissionInvariant, AdmissionInvariant', StreamInvariant, NEW w \in Workers,
         worker[w].pc \notin {"idle", "ack", "phase1"}, Publishes(w),
         NEW m \in Message, Put(m), m.job = Of(w), Goto(w, "ack"), UNCHANGED <<job, client, tasks>>,
         m.kind = "inspection" => worker[w].msg.kind = "inspection" /\ m.id = Id(w),
         worker[w].pc \in Alerting => m.kind = "inspection", WorkerEvents(w) = {}
  PROVE  StreamInvariant'
  <1>1. PICK n \in 0..Cardinality(queue) :
          /\ [m EXCEPT !.copy = n] \notin queue
          /\ queue' = queue \cup {[m EXCEPT !.copy = n]}
    BY DEF Put
  <1>. DEFINE k == [m EXCEPT !.copy = n]
              x == job[Of(w)]
              y == [worker[w] EXCEPT !.pc = "ack"]
              pc == "ack"
              sent == {k}
              events == {}
  <1>2. k.job = Of(w) /\ k.kind = m.kind /\ k.id = m.id
    BY DEF Message
  <1>3. /\ \A v \in Workers : worker'[v] = IF v = w THEN y ELSE worker[v]
        /\ y.pc = pc /\ y.msg = worker[w].msg
    BY GotoMeans
  <1>4. \A i \in Jobs : job'[i] = IF i = Of(w) THEN x ELSE job[i]
    OBVIOUS
  <1>5. EventsFit(w, pc, events) /\ WorkerEvents(w) = events /\ worker[w].pc # "idle" /\ pc \in StepsOf(w)
    BY NothingFits DEF StepsOf
  <1>6. k \notin queue /\ queue' = queue \cup sent
    BY <1>1
  <1>. HIDE DEF k, x, y, events
  <1>7. WorkerStepsTo(w, x, y, sent)
    BY <1>3, <1>4, <1>6 DEF WorkerStepsTo
  <1>8. \A h \in sent : /\ h \notin queue /\ h.job = Of(w)
                        /\ h.kind = "inspection" => worker[w].msg.kind = "inspection" /\ h.id = Id(w)
    BY <1>2, <1>6
  <1>9. WorkerDuties(w, x, y, sent, events)
    BY <1>2 DEF WorkerDuties, x
  <1>. HIDE DEF sent
  <1>. QED  BY <1>3, <1>5, <1>7, <1>8, <1>9, WorkerActs

(* The WMS task is sent, or the message refused.                           *)
LEMMA SendWmsKeepsWord ==
  ASSUME AdmissionInvariant, AdmissionInvariant', StreamInvariant, NEW w \in Workers,
         Publishes(w), SendWms(w)
  PROVE  StreamInvariant'
  <1>1. /\ worker[w].pc = "send" /\ worker[w].pc # "idle" /\ worker[w].pc \in InspectionSteps
        /\ worker[w].pc \notin Alerting /\ UNCHANGED <<job, client, tasks>>
    BY DEF SendWms, At, InspectionSteps, Alerting
  <1>2. /\ worker[w].msg.kind = "inspection" /\ Of(w) \in Jobs /\ worker[w].wms \in Nat
    BY <1>1, WorkerHolds DEF StreamInvariant, AdmissionInvariant, WorkersAtWork, At
  <1>3. WorkerEvents(w) = {}
    BY <1>1, EventsOf
  <1>4. CASE Submit("wms", worker[w].wms, Of(w)) /\ Goto(w, "ack")
    <2>. DEFINE m == [kind |-> "wms", id |-> worker[w].wms, job |-> Of(w), try |-> 0, copy |-> 0]
    <2>1. m \in Message /\ Put(m) /\ m.job = Of(w) /\ m.kind = "wms"
      BY <1>2, <1>4 DEF Submit, Message
    <2>. HIDE DEF m
    <2>2. m.kind = "inspection" => worker[w].msg.kind = "inspection" /\ m.id = Id(w)
      BY <2>1
    <2>. QED  BY <1>1, <1>3, <1>4, <2>1, <2>2, WorkerSendsOn
  <1>5. CASE Goto(w, "undo") /\ UNCHANGED queue
    <2>. DEFINE x == job[Of(w)]
                pc == "undo"
    <2>1. Goto(w, pc) /\ pc \in StepsOf(w)
      BY <1>2, <1>5 DEF StepsOf, InspectionSteps
    <2>2. /\ x.status = job[Of(w)].status /\ x.task = job[Of(w)].task
          /\ (x = job[Of(w)] /\ UNCHANGED job) \/ SaveJob(Of(w), x)
          /\ UNCHANGED <<queue, client>> /\ tasks' \in {tasks, tasks + 1}
      BY <1>1, <1>5
    <2>. HIDE DEF x, pc
    <2>. QED  BY <1>1, <1>3, <2>1, <2>2, WorkerGoesQuietly
  <1>. QED  BY <1>4, <1>5 DEF SendWms

(* The WMS task could not be sent.                                         *)
LEMMA SaveDispatchFailedKeepsWord ==
  ASSUME AdmissionInvariant, AdmissionInvariant', StreamInvariant, NEW w \in Workers,
         Publishes(w), SaveDispatchFailed(w)
  PROVE  StreamInvariant'
  <1>. DEFINE pc == "ack"
              events == {Event(w, Of(w), "FAILED")}
  <1>1. /\ worker[w].pc = "undo" /\ worker[w].pc # "idle" /\ worker[w].pc \in InspectionSteps
        /\ worker[w].pc \notin Alerting /\ Goto(w, pc)
        /\ UNCHANGED <<queue, client>> /\ tasks' \in {tasks, tasks + 1}
    BY DEF SaveDispatchFailed, At, InspectionSteps, Alerting
  <1>2. /\ worker[w].msg.kind = "inspection" /\ Of(w) \in Jobs /\ job[Of(w)] \in JobRow
    BY <1>1, WorkerHolds DEF StreamInvariant
  <1>3. PICK x \in {job[Of(w)], [job[Of(w)] EXCEPT !.status = "FAILED", !.logs.wms = None]} :
          (x = job[Of(w)] /\ UNCHANGED job) \/ SaveJob(Of(w), x)
    BY DEF SaveDispatchFailed, KeepJob
  <1>4. x = job[Of(w)] \/ x.status = "FAILED"
    BY <1>2, <1>3 DEF JobRow
  <1>5. WorkerEvents(w) = events
    BY <1>1, EventsOf
  <1>6. Fails(events) /\ Ends(events) /\ ~Asks(events)
    BY EventIs DEF Fails, Ends, Asks, Alert, Terminal
  <1>7. EventsFit(w, pc, events) /\ pc \in StepsOf(w)
    BY <1>2, <1>6, EventIs DEF EventsFit, Statuses, Quiet, StepsOf
  <1>. HIDE DEF events
  <1>8. \A y : y.pc = pc => WorkerDuties(w, x, y, {}, events)
    BY <1>1, <1>4, <1>6 DEF WorkerDuties, Final
  <1>. HIDE DEF pc
  <1>. QED  BY <1>1, <1>3, <1>5, <1>7, <1>8, WorkerGoesAndTells

(* The job fails, unless it has ended.                                     *)
LEMMA SaveFailedKeepsWord ==
  ASSUME AdmissionInvariant, AdmissionInvariant', StreamInvariant, NEW w \in Workers,
         worker[w].pc \in {"error", "unreachable", "failed"}, Publishes(w),
         SaveFailed(w), UNCHANGED <<queue, client, tasks>>
  PROVE  StreamInvariant'
  <1>. DEFINE pc == "ack"
  <1>1. /\ worker[w].pc # "idle" /\ worker[w].pc # "phase1" /\ Goto(w, pc)
        /\ UNCHANGED <<queue, client>> /\ tasks' \in {tasks, tasks + 1}
    BY DEF SaveFailed
  <1>2. /\ worker[w].msg.kind \in {"inspection", "wms"} /\ Of(w) \in Jobs /\ job[Of(w)] \in JobRow
    BY <1>1, WorkerHolds DEF StreamInvariant
  <1>3. PICK x : /\ (x = job[Of(w)] /\ UNCHANGED job) \/ SaveJob(Of(w), x)
                 /\ \/ x = job[Of(w)] /\ x.status \in Final \cup {"FAILED"}
                    \/ x.status = "FAILED" /\ job[Of(w)].status # "FAILED"
    <2>1. CASE job[Of(w)].status \in Final \cup {"FAILED"}
      BY <2>1 DEF SaveFailed, KeepJob
    <2>2. CASE job[Of(w)].status \notin Final \cup {"FAILED"}
      <3>1. [job[Of(w)] EXCEPT !.status = "FAILED"].status = "FAILED"
        BY <1>2 DEF JobRow
      <3>. QED  BY <2>2, <3>1 DEF SaveFailed
    <2>. QED  BY <2>1, <2>2
  <1>4. job'[Of(w)] = x
    BY <1>2, <1>3, SaveMeans
  <1>. DEFINE events == IF job[Of(w)].status # "FAILED" /\ x.status = "FAILED"
                        THEN {Event(w, Of(w), "FAILED")} ELSE {}
  <1>5. WorkerEvents(w) = events
    BY <1>4, EventsOf DEF FailureEvents
  <1>6. /\ x.status = "FAILED" => job[Of(w)].status = "FAILED" \/ Fails(events)
        /\ ~Asks(events)
    BY EventIs DEF Fails, Asks, Alert
  <1>7. EventsFit(w, pc, events) /\ pc \in StepsOf(w)
    BY <1>2, <1>6, EventIs DEF EventsFit, Statuses, Quiet, StepsOf
  <1>. HIDE DEF events
  <1>8. \A y : y.pc = pc => WorkerDuties(w, x, y, {}, events)
    BY <1>1, <1>3, <1>6 DEF WorkerDuties, Final
  <1>. HIDE DEF pc
  <1>. QED  BY <1>1, <1>3, <1>5, <1>7, <1>8, WorkerGoesAndTells

(* A task is tried again, or fails its job.                                *)
LEMMA RetryKeepsWord ==
  ASSUME AdmissionInvariant, AdmissionInvariant', StreamInvariant, NEW w \in Workers,
         worker[w].pc \in {"error", "unreachable"}, Publishes(w),
         RetryOr(w, SaveFailed(w)), UNCHANGED <<client, tasks>>
  PROVE  StreamInvariant'
  <1>1. /\ worker[w].pc # "idle" /\ worker[w].pc \notin {"idle", "ack", "phase1"}
        /\ worker[w].pc \in {"error", "unreachable", "failed"}
    OBVIOUS
  <1>2. /\ worker[w].msg \in Message /\ Of(w) = worker[w].msg.job /\ Id(w) = worker[w].msg.id
        /\ worker[w].pc = "error" => worker[w].msg.kind = "inspection"
    BY <1>1, WorkerHolds DEF StreamInvariant, InspectionSteps
  <1>3. CASE worker[w].msg.try < MaxRetries
    <2>. DEFINE m == [worker[w].msg EXCEPT !.try = @ + 1]
    <2>1. Put(m) /\ Goto(w, "ack") /\ UNCHANGED job
      BY <1>3 DEF RetryOr
    <2>2. m \in Message /\ m.job = Of(w) /\ m.kind = worker[w].msg.kind /\ m.id = Id(w)
      BY <1>2 DEF Message
    <2>3. WorkerEvents(w) = {}
      BY <1>1, <2>1, EventsOf DEF FailureEvents
    <2>. HIDE DEF m
    <2>4. worker[w].pc \in Alerting => m.kind = "inspection"
      BY <1>2, <2>2 DEF Alerting
    <2>. QED  BY <1>1, <2>1, <2>2, <2>3, <2>4, WorkerSendsOn
  <1>4. CASE ~(worker[w].msg.try < MaxRetries)
    BY <1>1, <1>4, SaveFailedKeepsWord DEF RetryOr
  <1>. QED  BY <1>3, <1>4

(* A WMS task that finds its job final, or makes it final, tells of it.    *)
LEMMA FinalIsTold ==
  ASSUME AdmissionInvariant, AdmissionInvariant', StreamInvariant, NEW w \in Workers,
         worker[w].pc \in {"phase1", "admitted"}, Publishes(w),
         NEW pc \in Quiet, Goto(w, pc), UNCHANGED <<queue, client, tasks>>,
         NEW x, (x = job[Of(w)] /\ UNCHANGED job) \/ SaveJob(Of(w), x), x.status \in Final
  PROVE  StreamInvariant'
  <1>. DEFINE events == {Event(w, Of(w), x.status)}
  <1>1. /\ worker[w].pc # "idle" /\ worker[w].pc \in WmsSteps /\ worker[w].pc \notin Alerting
        /\ UNCHANGED <<queue, client>> /\ tasks' \in {tasks, tasks + 1}
    BY DEF WmsSteps, Alerting
  <1>2. worker[w].msg.kind = "wms" /\ Of(w) \in Jobs
    BY <1>1, WorkerHolds DEF StreamInvariant
  <1>3. job'[Of(w)] = x
    BY <1>2, SaveMeans
  <1>4. WorkerEvents(w) = events
    BY <1>3, EventsOf DEF FinalEvents
  <1>5. Ends(events) /\ ~Asks(events)
    BY EventIs DEF Ends, Asks, Alert, Terminal, Final
  <1>6. pc \in StepsOf(w) /\ EventsFit(w, pc, events)
    BY <1>2, <1>5, EventIs DEF StepsOf, WmsSteps, Quiet, EventsFit, Statuses, Final
  <1>. HIDE DEF events
  <1>7. \A y : y.pc = pc => WorkerDuties(w, x, y, {}, events)
    BY <1>1, <1>2, <1>5 DEF WorkerDuties, Terminal, Final
  <1>. QED  BY <1>1, <1>4, <1>6, <1>7, WorkerGoesAndTells

(* A WMS task goes on, with its job as it was.                             *)
LEMMA WmsGoesQuietly ==
  ASSUME AdmissionInvariant, AdmissionInvariant', StreamInvariant, NEW w \in Workers,
         worker[w].pc \in WmsSteps, Publishes(w), NEW pc \in WmsSteps \cup {"ack"}, Goto(w, pc),
         UNCHANGED <<job, queue, client, tasks>>, WorkerEvents(w) = {},
         job[Of(w)].status \in Final => worker[w].pc # "phase1"
  PROVE  StreamInvariant'
  <1>. DEFINE x == job[Of(w)]
  <1>1. worker[w].pc # "idle" /\ worker[w].pc \notin Alerting
    BY DEF WmsSteps, Alerting
  <1>2. pc \in StepsOf(w)
    BY <1>1, WorkerHolds DEF StreamInvariant, StepsOf
  <1>3. /\ x.status = job[Of(w)].status /\ x.task = job[Of(w)].task
        /\ (x = job[Of(w)] /\ UNCHANGED job) \/ SaveJob(Of(w), x)
        /\ UNCHANGED <<queue, client>> /\ tasks' \in {tasks, tasks + 1}
        /\ x.status \in Final => worker[w].pc # "phase1"
    OBVIOUS
  <1>. HIDE DEF x
  <1>. QED  BY <1>1, <1>2, <1>3, WorkerGoesQuietly

(* What the WMS said before is read.                                       *)
LEMMA CheckSavedResultKeepsWord ==
  ASSUME AdmissionInvariant, AdmissionInvariant', StreamInvariant, NEW w \in Workers,
         Publishes(w), CheckSavedResult(w)
  PROVE  StreamInvariant'
  <1>. DEFINE x == job[Of(w)]
  <1>1. /\ worker[w].pc = "phase1" /\ worker[w].pc \in WmsSteps /\ worker[w].pc # "idle"
        /\ worker[w].pc \notin Alerting
        /\ UNCHANGED <<job, queue, client, tasks>>
    BY DEF CheckSavedResult, At, WmsSteps, KeepJob, Alerting
  <1>2. worker[w].msg.kind = "wms" /\ Of(w) \in Jobs /\ worker[w] \in WorkerState
    BY <1>1, WorkerHolds DEF StreamInvariant
  <1>3. x.status \notin Final => WorkerEvents(w) = {}
    BY <1>1, EventsOf DEF FinalEvents
  <1>4. CASE x.status \in Final /\ Goto(w, AlreadyFinal(w))
    <2>1. PICK pc \in Quiet : Goto(w, pc)
      BY <1>4 DEF AlreadyFinal, Quiet
    <2>2. (x = job[Of(w)] /\ UNCHANGED job) \/ SaveJob(Of(w), x)
      BY <1>1
    <2>. HIDE DEF x
    <2>. QED  BY <1>1, <1>4, <2>1, <2>2, FinalIsTold
  <1>5. CASE x.status \notin Final \cup {"PROCESSING"} /\ Goto(w, "failed")
    <2>1. "failed" \in WmsSteps \cup {"ack"}
      BY DEF WmsSteps
    <2>. QED  BY <1>1, <1>3, <1>5, <2>1, WmsGoesQuietly
  <1>6. CASE x.status = "PROCESSING" /\ Goto(w, "ack")
    <2>1. "ack" \in WmsSteps \cup {"ack"} /\ "PROCESSING" \notin Final
      BY DEF Final
    <2>. QED  BY <1>1, <1>3, <1>6, <2>1, WmsGoesQuietly
  <1>7. CASE /\ x.status = "PROCESSING"
             /\ worker' = [worker EXCEPT ![w].pc = "call", ![w].verdict = x.logs.verdict,
                                         ![w].admin = x.logs.admin]
    <2>. DEFINE y == [worker[w] EXCEPT !.pc = "call", !.verdict = x.logs.verdict,
                                       !.admin = x.logs.admin]
                pc == "call"
                sent == {}
                events == {}
    <2>1. /\ y.pc = pc /\ y.msg = worker[w].msg
          /\ \A v \in Workers : worker'[v] = IF v = w THEN y ELSE worker[v]
      BY <1>2, <1>7 DEF AdmissionInvariant, TypeOK, WorkerState
    <2>2. /\ \A i \in Jobs : job'[i] = IF i = Of(w) THEN x ELSE job[i]
          /\ queue' = queue \cup sent /\ UNCHANGED client /\ tasks' = tasks
      BY <1>1
    <2>3. /\ EventsFit(w, pc, events) /\ WorkerEvents(w) = events
          /\ \A m \in sent : /\ m \notin queue /\ m.job = Of(w)
                             /\ m.kind = "inspection" => worker[w].msg.kind = "inspection" /\ m.id = Id(w)
      BY <1>3, <1>7, NothingFits DEF Final
    <2>4. pc \in StepsOf(w)
      BY <1>2 DEF StepsOf, WmsSteps
    <2>. HIDE DEF y, sent, events
    <2>5. WorkerDuties(w, x, y, sent, events)
      BY <1>1, <1>7 DEF WorkerDuties, Terminal, Final
    <2>. HIDE DEF x
    <2>6. WorkerStepsTo(w, x, y, sent)
      BY <2>1, <2>2 DEF WorkerStepsTo
    <2>. QED  BY <1>1, <2>1, <2>3, <2>4, <2>5, <2>6, WorkerActs
  <1>. QED  BY <1>4, <1>5, <1>6, <1>7 DEF CheckSavedResult

(* The final status.                                                       *)
LEMMA SaveFinalKeepsWord ==
  ASSUME AdmissionInvariant, AdmissionInvariant', StreamInvariant, NEW w \in Workers,
         Publishes(w), SaveFinal(w)
  PROVE  StreamInvariant'
  <1>1. /\ worker[w].pc = "admitted" /\ worker[w].pc \in WmsSteps /\ worker[w].pc # "idle"
        /\ worker[w].pc \in {"phase1", "admitted"} /\ UNCHANGED <<queue, client, tasks>>
    BY DEF SaveFinal, At, WmsSteps
  <1>2. Of(w) \in Jobs /\ job[Of(w)] \in JobRow
    BY <1>1, WorkerHolds DEF StreamInvariant
  <1>3. CASE job[Of(w)].status = "PROCESSING"
    <2>. DEFINE st == StatusOf(worker[w].verdict)
                pc == IF st = "REJECTED" THEN "restock" ELSE "ack"
                x == [job[Of(w)] EXCEPT !.status = st, !.grade = worker[w].verdict,
                                        !.logs.result = TRUE]
    <2>1. SaveJob(Of(w), x) /\ Goto(w, pc)
      BY <1>3 DEF SaveFinal
    <2>2. x.status = st /\ st \in Final /\ pc \in Quiet
      BY <1>2 DEF JobRow, StatusOf, Final, Quiet
    <2>3. (x = job[Of(w)] /\ UNCHANGED job) \/ SaveJob(Of(w), x)
      BY <2>1
    <2>. HIDE DEF x, st, pc
    <2>. QED  BY <1>1, <2>1, <2>2, <2>3, FinalIsTold
  <1>4. CASE job[Of(w)].status # "PROCESSING" /\ job[Of(w)].status \in Final
    <2>. DEFINE x == job[Of(w)]
    <2>1. PICK pc \in Quiet : Goto(w, pc)
      BY <1>4 DEF SaveFinal, AlreadyFinal, Quiet
    <2>2. (x = job[Of(w)] /\ UNCHANGED job) \/ SaveJob(Of(w), x)
      BY <1>4 DEF SaveFinal, KeepJob
    <2>3. x.status \in Final
      BY <1>4
    <2>. HIDE DEF x
    <2>. QED  BY <1>1, <2>1, <2>2, <2>3, FinalIsTold
  <1>5. CASE job[Of(w)].status # "PROCESSING" /\ job[Of(w)].status \notin Final
    <2>1. Goto(w, "failed") /\ UNCHANGED job
      BY <1>5 DEF SaveFinal, KeepJob
    <2>2. "failed" \in WmsSteps \cup {"ack"}
      BY DEF WmsSteps
    <2>3. WorkerEvents(w) = {}
      BY <1>1, <1>5, <2>1, EventsOf DEF FinalEvents
    <2>. QED  BY <1>1, <1>5, <2>1, <2>2, <2>3, WmsGoesQuietly
  <1>. QED  BY <1>3, <1>4, <1>5

(* The WMS is asked, or a restock proposal asked for.                      *)
LEMMA CallsKeepWord ==
  ASSUME AdmissionInvariant, AdmissionInvariant', StreamInvariant, NEW w \in Workers,
         Publishes(w), (\E s \in Servers : CallWms(w, s)) \/ DispatchRestock(w)
  PROVE  StreamInvariant'
  <1>1. CASE \E s \in Servers : CallWms(w, s)
    <2>1. /\ worker[w].pc = "call" /\ Goto(w, "wait") /\ UNCHANGED <<job, queue, client, tasks>>
          /\ worker[w].pc \in WmsSteps /\ worker[w].pc # "phase1"
          /\ "wait" \in WmsSteps \cup {"ack"}
      BY <1>1 DEF CallWms, At, WmsSteps
    <2>2. WorkerEvents(w) = {}
      BY <2>1, EventsOf
    <2>. QED  BY <2>1, <2>2, WmsGoesQuietly
  <1>2. CASE DispatchRestock(w)
    <2>1. /\ worker[w].pc = "restock" /\ Goto(w, "ack") /\ UNCHANGED <<job, queue, client, tasks>>
          /\ worker[w].pc \in WmsSteps /\ worker[w].pc # "phase1"
          /\ "ack" \in WmsSteps \cup {"ack"}
      BY <1>2 DEF DispatchRestock, At, WmsSteps
    <2>2. WorkerEvents(w) = {}
      BY <2>1, EventsOf
    <2>. QED  BY <2>1, <2>2, WmsGoesQuietly
  <1>. QED  BY <1>1, <1>2

(* The steps of a worker together.                                         *)
LEMMA WorkerPublishesKeepsWord ==
  ASSUME AdmissionInvariant, AdmissionInvariant', StreamInvariant, NEW w \in Workers, WorkerPublishes(w)
  PROVE  StreamInvariant'
  <1>1. Publishes(w) /\ WorkerStep(w)
    BY DEF WorkerPublishes, Publishes
  <1>2. CASE \E m \in queue : Take(w, m)
    <2>1. worker[w].pc = "idle"
      BY <1>2 DEF Take, At
    <2>2. WorkerEvents(w) = {}
      BY <2>1 DEF WorkerEvents, At
    <2>3. UNCHANGED streamVars
      BY <1>1, <2>2 DEF Publishes, streamVars
    <2>. QED  BY <1>2, <2>3, TakeKeepsWord
  <1>3. CASE Ack(w)
    <2>1. /\ worker[w].pc = "ack" /\ worker[w].pc # "idle" /\ worker' = [worker EXCEPT ![w] = WorkerIdle]
          /\ UNCHANGED <<job, client, tasks>> /\ queue' = queue \ {worker[w].msg}
      BY <1>3 DEF Ack, At
    <2>2. WorkerEvents(w) = {}
      BY <2>1 DEF WorkerEvents, At
    <2>3. /\ outbox' = {e \in outbox : e.by # w} /\ UNCHANGED <<viewer, alerted, missed, unheard>>
          /\ ~OwesFailure(w)
      BY <1>1, <2>2 DEF Publishes, Owes, OwesFailure
    <2>4. queue' \subseteq queue /\ \A m \in queue \ queue' : m = worker[w].msg /\ At(w, "ack") /\ ~Owes(w)
      BY <1>1, <2>1 DEF Publishes, At
    <2>. QED  BY <2>1, <2>3, <2>4, RestKeepsWord
  <1>4. CASE InspectionError(w) \/ WmsUnreachable(w)
    BY <1>1, <1>4, RetryKeepsWord DEF InspectionError, WmsUnreachable, At
  <1>5. CASE WmsFailed(w)
    <2>1. worker[w].pc \in {"error", "unreachable", "failed"} /\ SaveFailed(w)
          /\ UNCHANGED <<queue, client, tasks>>
      BY <1>5 DEF WmsFailed, At
    <2>. QED  BY <1>1, <2>1, SaveFailedKeepsWord
  <1>6. CASE GraphFails(w) \/ \E v \in Verdicts : SaveVerdict(w, v)
    BY <1>1, <1>6, SaveVerdictKeepsWord
  <1>. QED  BY <1>1, <1>2, <1>3, <1>4, <1>5, <1>6, PrepareKeepsWord, SaveHitlRequiredKeepsWord,
               SaveWmsTaskIdKeepsWord, SendWmsKeepsWord, SaveDispatchFailedKeepsWord,
               CheckSavedResultKeepsWord, SaveFinalKeepsWord, CallsKeepWord DEF WorkerStep

(* A worker that is stopped leaves its job and the queue as they are.      *)
LEMMA StoppedKeepsWord ==
  ASSUME AdmissionInvariant, AdmissionInvariant', StreamInvariant, NEW w \in Workers, worker[w].pc # "idle",
         NEW pc \in StepsOf(w), Goto(w, pc), UNCHANGED <<job, queue, client, tasks, viewer, alerted, unheard>>,
         NEW lost, lost \in {{}, {Of(w)}}, missed' = missed \cup lost,
         outbox' = {e \in outbox : e.by # w},
         lost = {} => /\ ~Owes(w) /\ (worker[w].pc \in Alerting => pc \in Alerting)
                      /\ (job[Of(w)].status \in Final => worker[w].pc # "phase1")
  PROVE  StreamInvariant'
  <1>. DEFINE x == job[Of(w)]
              y == [worker[w] EXCEPT !.pc = pc]
              sent == {}
              events == {}
  <1>1. Of(w) \in Jobs
    BY WorkerHolds DEF StreamInvariant
  <1>2. y.pc = pc /\ y.msg = worker[w].msg
    BY GotoMeans
  <1>3. WorkerStepsTo(w, x, y, sent)
    BY <1>1, StepsToBy
  <1>4. WorkerDeeds(w, y, sent, events)
    <2>. HIDE DEF y
    <2>. QED  BY <1>2 DEF WorkerDeeds
  <1>5. lost = {} => ~Owes(w) /\ WorkerDuties(w, x, y, sent, events)
    <2>. HIDE DEF y
    <2>. QED  BY <1>2 DEF WorkerDuties
  <1>6. lost = {} \/ /\ lost = {Of(w)} /\ x.status = job[Of(w)].status /\ x.task = job[Of(w)].task
                     /\ sent = {}
    OBVIOUS
  <1>7. /\ events \subseteq [by : {w}, job : {Of(w)}, status : Statuses \cup {Alert}]
        /\ outbox' = {e \in outbox : e.by # w} \cup events /\ UNCHANGED <<viewer, alerted, unheard>>
    OBVIOUS
  <1>. HIDE DEF x, y, sent, events
  <1>. QED  BY <1>3, <1>4, <1>5, <1>6, <1>7, WorkerKeepsWord

(* A worker that is met by an exception.                                   *)
LEMMA WorkerInterruptedKeepsWord ==
  ASSUME AdmissionInvariant, AdmissionInvariant', StreamInvariant, NEW w \in Workers, WorkerInterrupted(w)
  PROVE  StreamInvariant'
  <1>1. /\ ~Owes(w) /\ UNCHANGED <<job, queue, client, tasks, outbox, viewer, alerted, unheard>>
        /\ missed' = IF worker[w].pc = "phase1" /\ job[Of(w)].status \in Final
                     THEN missed \cup {Of(w)} ELSE missed
    BY DEF WorkerInterrupted, Interrupt, Timeout, At
  <1>2. PICK pc : Goto(w, pc) /\ \/ worker[w].pc \in Alerting /\ pc = "error"
                                 \/ worker[w].pc \in {"register", "send"} /\ pc = "undo"
                                 \/ /\ worker[w].pc \in {"phase1", "call", "wait", "admitted"}
                                    /\ pc \in {"failed", "unreachable"}
    <2>1. CASE Interrupt(w)
      <3>1. /\ Goto(w, Handler(worker[w].pc))
            /\ worker[w].pc \in {"start", "graph", "register", "send",
                                 "phase1", "call", "wait", "admitted"}
        BY <2>1 DEF Interrupt
      <3>2. /\ worker[w].pc \in {"start", "graph"} => Handler(worker[w].pc) = "error"
            /\ worker[w].pc \in {"register", "send"} => Handler(worker[w].pc) = "undo"
            /\ worker[w].pc \in {"phase1", "call", "wait", "admitted"}
                 => Handler(worker[w].pc) = "failed"
        BY DEF Handler
      <3>. QED  BY <3>1, <3>2 DEF Alerting
    <2>2. CASE Timeout(w)
      BY <2>2 DEF Timeout
    <2>. QED  BY <2>1, <2>2 DEF WorkerInterrupted
  <1>3. worker[w].pc # "idle" /\ (worker[w].pc \in Alerting => pc \in Alerting)
    BY <1>2 DEF Alerting
  <1>4. pc \in StepsOf(w)
    BY <1>2, <1>3, WorkerHolds DEF StreamInvariant, StepsOf, InspectionSteps, WmsSteps, Alerting
  <1>. DEFINE lost == IF worker[w].pc = "phase1" /\ job[Of(w)].status \in Final THEN {Of(w)} ELSE {}
  <1>5. /\ lost \in {{}, {Of(w)}} /\ missed' = missed \cup lost
        /\ lost = {} => (job[Of(w)].status \in Final => worker[w].pc # "phase1")
    BY <1>1
  <1>6. outbox' = {e \in outbox : e.by # w}
    BY <1>1 DEF Owes
  <1>. HIDE DEF lost
  <1>. QED  BY <1>1, <1>2, <1>3, <1>4, <1>5, <1>6, StoppedKeepsWord

(* A worker that is lost: its message is delivered again, or what it owed  *)
(* is lost with it.                                                        *)
LEMMA WorkerLostKeepsWord ==
  ASSUME AdmissionInvariant, AdmissionInvariant', StreamInvariant, NEW w \in Workers, WorkerLost(w)
  PROVE  StreamInvariant'
  <1>1. outbox' = {e \in outbox : e.by # w} /\ UNCHANGED <<viewer, alerted>>
    BY DEF WorkerLost
  <1>2. CASE /\ CrashWorker(w) /\ UNCHANGED missed
             /\ unheard' = IF OwesFailure(w) THEN unheard \cup {Of(w)} ELSE unheard
    <2>1. /\ worker[w].pc # "idle" /\ worker' = [worker EXCEPT ![w] = WorkerIdle]
          /\ UNCHANGED <<job, client, tasks>> /\ queue' = queue
      BY <1>2 DEF CrashWorker, At
    <2>2. queue' \subseteq queue /\ \A m \in queue \ queue' : m = worker[w].msg /\ At(w, "ack") /\ ~Owes(w)
      BY <2>1
    <2>. QED  BY <1>1, <1>2, <2>1, <2>2, RestKeepsWord
  <1>. DEFINE lost == {Of(w)}
  <1>3. lost \in {{}, {Of(w)}} /\ lost # {}
    OBVIOUS
  <1>4. CASE KillTask(w) /\ missed' = missed \cup {Of(w)} /\ UNCHANGED unheard
    <2>1. /\ worker[w].pc # "idle" /\ Goto(w, "ack") /\ UNCHANGED <<job, queue, client, tasks>>
          /\ "ack" \in StepsOf(w) /\ missed' = missed \cup lost /\ UNCHANGED unheard
      BY <1>4 DEF KillTask, StepsOf
    <2>. HIDE DEF lost
    <2>. QED  BY <1>1, <1>3, <2>1, StoppedKeepsWord
  <1>5. CASE /\ At(w, "ack") /\ missed' = missed \cup {Of(w)} /\ UNCHANGED unheard
             /\ UNCHANGED <<job, copy, admitted, queue, worker, server, client, restock, tasks>>
    <2>1. worker \in [Workers -> WorkerState] /\ worker[w].pc = "ack"
      BY <1>5 DEF AdmissionInvariant, TypeOK, At
    <2>2. worker[w] = [worker[w] EXCEPT !.pc = "ack"]
      BY <2>1 DEF WorkerState
    <2>3. Goto(w, "ack")
      BY <1>5, <2>1, <2>2 DEF Goto
    <2>4. /\ worker[w].pc # "idle" /\ UNCHANGED <<job, queue, client, tasks>>
          /\ "ack" \in StepsOf(w) /\ missed' = missed \cup lost /\ UNCHANGED unheard
      BY <1>5, <2>1 DEF StepsOf
    <2>. HIDE DEF lost
    <2>. QED  BY <1>1, <1>3, <2>3, <2>4, StoppedKeepsWord
  <1>. QED  BY <1>2, <1>4, <1>5 DEF WorkerLost

-----------------------------------------------------------------------------
(* The steps of the API.                                                   *)

(* What a request does to its job (x), to itself (y) and to the queue.     *)
RequestDeeds(c, j, x, y, sent) ==
  /\ y.pc \in {"hitlSend", "hitlRestore"} =>
       \/ Deciding(c) /\ y.job = client[c].job /\ y.task = client[c].task
       \/ job[j].status = "HITL_REQUIRED" /\ y.job = j /\ y.task = Fresh /\ tasks' = Fresh
  /\ y.pc \in {"send", "resend"} =>
       \/ Sending(c) /\ y.task = client[c].task
       \/ y.task = Fresh /\ tasks' = Fresh
  /\ \A m \in sent :
       /\ m \notin queue
       /\ m.kind = "inspection" =>
            Sending(c) /\ m.id = client[c].task /\ y.pc \notin {"hitlSend", "hitlRestore"}
  /\ x.status = "HITL_REQUIRED" => Obliged(j)
  /\ x.status = "PROCESSING" =>
       \/ job[j].status = "PROCESSING" /\ x.task = job[j].task
       \/ x.task = Fresh /\ tasks' = Fresh

(* The pipeline, as far as a request is concerned.                         *)
RequestStepsTo(c, j, x, y, sent) ==
  /\ \A i \in Jobs : job'[i] = IF i = j THEN x ELSE job[i]
  /\ \A d \in Clients : client'[d] = IF d = c THEN y ELSE client[d]
  /\ queue' = queue \cup sent /\ UNCHANGED worker
  /\ tasks' \in {tasks, tasks + 1}

(* What it leaves to be published (more), or never publishes (lost).       *)
RequestTells(j, x, lost, more) ==
  /\ lost \subseteq Jobs /\ missed' = missed \cup lost
  /\ x.status \in Terminal => x.status = job[j].status \/ j \in lost
  /\ more \subseteq [by : {"api"}, job : Jobs, status : Statuses \ Terminal]
  /\ outbox' = outbox \cup more /\ UNCHANGED <<viewer, alerted, unheard>>

(* A request that does what it must: nothing is forgotten.                 *)
LEMMA RequestKeepsWord ==
  ASSUME AdmissionInvariant, AdmissionInvariant', StreamInvariant, NEW c, NEW j \in Jobs,
         NEW x, NEW y, NEW sent, NEW lost, NEW more,
         RequestStepsTo(c, j, x, y, sent), RequestDeeds(c, j, x, y, sent),
         RequestTells(j, x, lost, more), c \in Clients \/ sent = {}
  PROVE  StreamInvariant'
  <1>. /\ \A i \in Jobs : job'[i] = IF i = j THEN x ELSE job[i]
       /\ \A d \in Clients : client'[d] = IF d = c THEN y ELSE client[d]
       /\ queue' = queue \cup sent /\ UNCHANGED worker
       /\ tasks' \in {tasks, tasks + 1}
    BY DEF RequestStepsTo
  <1>. /\ lost \subseteq Jobs /\ missed' = missed \cup lost
       /\ x.status \in Terminal => x.status = job[j].status \/ j \in lost
       /\ more \subseteq [by : {"api"}, job : Jobs, status : Statuses \ Terminal]
       /\ outbox' = outbox \cup more /\ UNCHANGED <<viewer, alerted, unheard>>
    BY DEF RequestTells
  <1>1. tasks \in Nat /\ tasks' \in Nat /\ tasks <= tasks' /\ Fresh = tasks + 1
    BY DEF AdmissionInvariant, TypeOK, Fresh
  <1>2. ASSUME NEW v \in Workers, worker[v].pc # "idle" PROVE worker[v].msg \in queue
    BY <1>2 DEF StreamInvariant, MessagesHeld, At
  <1>3. StreamTypeOK'
    BY DEF StreamInvariant, StreamTypeOK
  <1>4. ViewersFollow'
    BY DEF StreamInvariant, ViewersFollow
  <1>5. MessagesHeld'
    BY DEF StreamInvariant, MessagesHeld, At
  <1>6. KindsAgree'
    BY DEF StreamInvariant, KindsAgree
  <1>7. \A d \in Clients : Deciding(d) \/ Sending(d) => client[d].task \in Nat /\ client[d].task < Fresh
    BY <1>1 DEF StreamInvariant, IdsApart
  <1>8. \A m \in queue : m.kind = "inspection" => m.id \in Nat /\ m.id < Fresh
    BY <1>1 DEF StreamInvariant, IdsApart, AdmissionInvariant, TypeOK, Message
  <1>9. \A d \in Clients : Deciding(d)' => \/ Deciding(d) /\ client'[d].task = client[d].task
                                           \/ d = c /\ client'[d].task = Fresh /\ tasks' = Fresh
    BY DEF RequestDeeds, Deciding
  <1>10. \A d \in Clients : Sending(d)' => \/ Sending(d) /\ client'[d].task = client[d].task
                                           \/ d = c /\ client'[d].task = Fresh /\ tasks' = Fresh
    BY DEF RequestDeeds, Sending
  <1>11. \A m \in queue' : m.kind = "inspection" =>
           \/ m \in queue
           \/ Sending(c) /\ m.id = client[c].task /\ y.pc \notin {"hitlSend", "hitlRestore"}
    BY DEF RequestDeeds

  <1>12. IdsApart'
    <2>1. \A m \in queue' : m.kind = "inspection" => m.id <= tasks'
      BY <1>1, <1>7, <1>8, <1>11
    <2>2. \A d \in Clients : Deciding(d)' \/ Sending(d)' => client'[d].task \in Nat /\ client'[d].task <= tasks'
      BY <1>1, <1>7, <1>9, <1>10
    <2>3. ASSUME NEW d \in Clients, Deciding(d)', NEW m \in queue', m.kind = "inspection"
          PROVE  m.id # client'[d].task
      <3>1. CASE Deciding(d) /\ client'[d].task = client[d].task
        <4>1. CASE m \in queue
          BY <2>3, <3>1, <4>1 DEF StreamInvariant, IdsApart
        <4>2. CASE c \in Clients /\ Sending(c) /\ m.id = client[c].task
          BY <3>1, <4>2 DEF StreamInvariant, IdsApart
        <4>. QED  BY <1>11, <2>3, <4>1, <4>2
      <3>2. CASE d = c /\ client'[d].task = Fresh
        <4>1. y.pc \in {"hitlSend", "hitlRestore"}
          BY <2>3, <3>2 DEF Deciding
        <4>. QED  BY <1>1, <1>8, <1>11, <2>3, <3>2, <4>1
      <3>. QED  BY <1>9, <2>3, <3>1, <3>2
    <2>4. ASSUME NEW d \in Clients, Deciding(d)', NEW e \in Clients, Sending(e)'
          PROVE  client'[e].task # client'[d].task
      <3>1. e # d
        BY <2>4 DEF Deciding, Sending
      <3>2. CASE Deciding(d) /\ Sending(e) /\ client'[d].task = client[d].task /\ client'[e].task = client[e].task
        BY <3>2 DEF StreamInvariant, IdsApart
      <3>. QED  BY <1>1, <1>7, <1>9, <1>10, <2>4, <3>1, <3>2
    <2>. QED  BY <2>1, <2>2, <2>3, <2>4 DEF IdsApart
  <1>13. EventsHeld'
    <2>1. Alert \notin Statuses
      BY DEF Alert, Statuses
    <2>. QED  BY <2>1 DEF StreamInvariant, EventsHeld, At
  <1>14. AlertComes'
    <2>. SUFFICES ASSUME NEW i \in Jobs, Obliged(i)' PROVE Announced(i)'
      BY DEF AlertComes
    <2>1. Obliged(i)
      <3>1. CASE job'[i].status = "HITL_REQUIRED"
        BY <3>1 DEF RequestDeeds, Obliged
      <3>2. CASE job'[i].status # "HITL_REQUIRED"
        <4>1. PICK d \in Clients : /\ job'[i].status = "PROCESSING" /\ Deciding(d)'
                                   /\ client'[d].job = i /\ client'[d].task = job'[i].task
          BY <3>2 DEF Obliged, Deciding
        <4>2. CASE /\ Deciding(d) /\ client'[d].task = client[d].task
                   /\ client'[d].job = client[d].job
          <5>1. client[d].task < Fresh /\ client[d].task \in Nat
            BY <1>7, <4>2
          <5>2. job'[i].task # Fresh
            <6>. HIDE DEF Fresh
            <6>1. job'[i].task = client[d].task
              BY <4>1, <4>2
            <6>. QED  BY <1>1, <5>1, <6>1
          <5>3. job[i].status = "PROCESSING" /\ job'[i].task = job[i].task
            <6>1. CASE i = j
              <7>1. job'[i] = x
                BY <6>1
              <7>. QED  BY <4>1, <5>2, <6>1, <7>1 DEF RequestDeeds
            <6>2. CASE i # j
              <7>1. job'[i] = job[i]
                BY <6>2
              <7>. QED  BY <4>1, <7>1
            <6>. QED  BY <6>1, <6>2
          <5>. QED  BY <4>1, <4>2, <5>3 DEF Obliged
        <4>3. CASE /\ d = c /\ job[j].status = "HITL_REQUIRED" /\ client'[d].job = j
          BY <4>1, <4>3 DEF Obliged
        <4>. QED  BY <4>1, <4>2, <4>3 DEF RequestDeeds, Deciding
      <3>. QED  BY <3>1, <3>2
    <2>2. Announced(i)
      BY <2>1 DEF StreamInvariant, AlertComes
    <2>3. \A m \in queue : /\ m \in queue'
                           /\ (\A v \in Workers : worker[v].msg = m => WillAlert(v))
                                => \A v \in Workers : worker'[v].msg = m => WillAlert(v)'
      BY DEF WillAlert
    <2>. QED  BY <2>2, <2>3 DEF Announced
  <1>15. EndComes'
    <2>. SUFFICES ASSUME NEW v \in Viewers, Following(v), ~viewer[v].ended,
                         NEW i, i = viewer[v].job, Ended(i)', i \notin missed'
                  PROVE  Told(i)'
      BY DEF EndComes, Following, Ended, Told, WillBeTold, FailureTold, WillTell
    <2>1. i \in Jobs /\ i \notin missed
      BY DEF StreamInvariant, ViewersFollow, Following
    <2>2. job'[i].status = job[i].status
      BY <2>1 DEF Ended, Terminal, Final
    <2>3. Told(i)
      BY <2>1, <2>2 DEF StreamInvariant, EndComes, Ended
    <2>4. WillBeTold(i) => WillBeTold(i)'
      BY DEF WillBeTold, WillTell
    <2>5. FailureTold(i) => FailureTold(i)'
      BY DEF FailureTold
    <2>. QED  BY <2>2, <2>3, <2>4, <2>5 DEF Told
  <1>. QED  BY <1>3, <1>4, <1>5, <1>6, <1>12, <1>13, <1>14, <1>15 DEF StreamInvariant

(* A request that sends nothing.                                           *)
LEMMA RequestGoesOn ==
  ASSUME AdmissionInvariant, AdmissionInvariant', StreamInvariant, NEW c \in Clients, NEW j \in Jobs,
         NEW x, NEW y, NEW lost, NEW more, RequestDeeds(c, j, x, y, {}),
         \A i \in Jobs : job'[i] = IF i = j THEN x ELSE job[i],
         client' = [client EXCEPT ![c] = y], UNCHANGED <<queue, worker>>,
         tasks' \in {tasks, Fresh}, RequestTells(j, x, lost, more)
  PROVE  StreamInvariant'
  <1>1. RequestStepsTo(c, j, x, y, {})
    BY DEF RequestStepsTo, AdmissionInvariant, TypeOK, Fresh
  <1>. QED  BY <1>1, RequestKeepsWord

(* Nothing is lost and nothing published.                                  *)
LEMMA TellsNothing ==
  ASSUME NEW j, NEW x, UNCHANGED streamVars, x.status \in Terminal => x.status = job[j].status
  PROVE  RequestTells(j, x, {}, {})
  BY DEF RequestTells, streamVars

(* A new inspection.                                                       *)
LEMMA CreateInspectionKeepsWord ==
  ASSUME AdmissionInvariant, AdmissionInvariant', StreamInvariant, UNCHANGED streamVars,
         NEW c \in Clients, NEW j \in Jobs, CreateInspection(c, j)
  PROVE  StreamInvariant'
  <1>. DEFINE x == [NoJob EXCEPT !.status = "PENDING"]
              y == [pc |-> "enqueue", job |-> j, task |-> None, logs |-> NoLogs]
  <1>1. /\ client' = [client EXCEPT ![c] = y] /\ UNCHANGED <<queue, worker, tasks>>
        /\ \A i \in Jobs : job'[i] = IF i = j THEN x ELSE job[i]
    BY SaveMeans DEF CreateInspection, Serve
  <1>2. x.status = "PENDING" /\ y.pc = "enqueue"
    BY DEF NoJob
  <1>. HIDE DEF x, y
  <1>3. RequestDeeds(c, j, x, y, {}) /\ RequestTells(j, x, {}, {}) /\ tasks' \in {tasks, Fresh}
    BY <1>1, <1>2, TellsNothing DEF RequestDeeds, Terminal
  <1>. QED  BY <1>1, <1>3, RequestGoesOn

(* An inspection with new images.                                          *)
LEMMA RecheckInspectionKeepsWord ==
  ASSUME AdmissionInvariant, AdmissionInvariant', StreamInvariant, UNCHANGED streamVars,
         NEW c \in Clients, NEW j \in Jobs, RecheckInspection(c, j)
  PROVE  StreamInvariant'
  <1>. DEFINE x == [job[j] EXCEPT !.status = "PENDING", !.task = None]
              y == [pc |-> "reenqueue", job |-> j, task |-> None, logs |-> job[j].logs]
  <1>1. /\ client' = [client EXCEPT ![c] = y] /\ UNCHANGED <<queue, worker, tasks>>
        /\ \A i \in Jobs : job'[i] = IF i = j THEN x ELSE job[i]
    BY SaveMeans DEF RecheckInspection, Serve
  <1>2. x.status = "PENDING" /\ y.pc = "reenqueue"
    BY DEF AdmissionInvariant, TypeOK, JobRow
  <1>. HIDE DEF x, y
  <1>3. RequestDeeds(c, j, x, y, {}) /\ RequestTells(j, x, {}, {}) /\ tasks' \in {tasks, Fresh}
    BY <1>1, <1>2, TellsNothing DEF RequestDeeds, Terminal
  <1>. QED  BY <1>1, <1>3, RequestGoesOn

(* The decision of an admin: the job may wait for an admin again, and its  *)
(* alert is still there.                                                   *)
LEMMA DecideHitlKeepsWord ==
  ASSUME AdmissionInvariant, AdmissionInvariant', StreamInvariant, UNCHANGED streamVars,
         NEW c \in Clients, NEW a \in Admins, NEW j \in Jobs, NEW v \in Verdicts, DecideHitl(c, a, j, v)
  PROVE  StreamInvariant'
  <1>. DEFINE logs == [job[j].logs EXCEPT !.verdict = v, !.wms = Fresh, !.admin = a]
              x == [job[j] EXCEPT !.status = "PROCESSING", !.task = Fresh, !.logs = logs,
                      !.backup = [task |-> job[j].task, logs |-> job[j].logs]]
              y == [pc |-> "hitlSend", job |-> j, task |-> Fresh, logs |-> logs]
  <1>1. /\ client' = [client EXCEPT ![c] = y] /\ UNCHANGED <<queue, worker>> /\ tasks' = Fresh
        /\ \A i \in Jobs : job'[i] = IF i = j THEN x ELSE job[i]
        /\ job[j].status = "HITL_REQUIRED"
    BY SaveMeans DEF DecideHitl, Serve, AwaitsAdmin, DrawTask
  <1>. HIDE DEF logs
  <1>2. /\ x.status = "PROCESSING" /\ x.task = Fresh
        /\ y.pc = "hitlSend" /\ y.job = j /\ y.task = Fresh
    BY DEF AdmissionInvariant, TypeOK, JobRow
  <1>. HIDE DEF x, y
  <1>3. RequestDeeds(c, j, x, y, {}) /\ RequestTells(j, x, {}, {}) /\ tasks' \in {tasks, Fresh}
    BY <1>1, <1>2, TellsNothing DEF RequestDeeds, Terminal
  <1>. QED  BY <1>1, <1>3, RequestGoesOn

(* What a request says after its step.                                     *)
ClientSays(c) ==
  /\ outbox' = IF client[c].pc = "resend" /\ client'[c].pc = "idle"
               THEN outbox \cup {Event("api", client[c].job, "PENDING")} ELSE outbox
  /\ missed' = IF client[c].pc \in {"undo", "reundo"} THEN missed \cup {client[c].job} ELSE missed
  /\ UNCHANGED <<viewer, alerted, unheard>>

(* The job of a request.                                                   *)
LEMMA ClientHolds ==
  ASSUME AdmissionInvariant, NEW c \in Clients, client[c].pc # "idle"
  PROVE  /\ client[c] \in ClientState /\ client[c].job \in Jobs /\ MyJob(c) \in JobRow
         /\ MyJob(c) = job[client[c].job]
         /\ client[c].pc \in {"send", "resend", "hitlSend"} => client[c].task \in Nat
  BY DEF AdmissionInvariant, TypeOK, ClientsAtWork, MyJob

(* Nothing is published but the message that was sent for a recheck.       *)
LEMMA SaysNothing ==
  ASSUME NEW c, ClientSays(c), client[c].pc \notin {"resend", "undo", "reundo"}
  PROVE  UNCHANGED streamVars
  BY DEF ClientSays, streamVars

(* The task id of an inspection is saved.                                  *)
LEMMA SaveTaskIdKeepsWord ==
  ASSUME AdmissionInvariant, AdmissionInvariant', StreamInvariant,
         NEW c \in Clients, SaveTaskId(c), ClientSays(c)
  PROVE  StreamInvariant'
  <1>. DEFINE j == client[c].job
              pc == IF client[c].pc = "enqueue" THEN "send" ELSE "resend"
              x == [MyJob(c) EXCEPT !.task = Fresh, !.logs = client[c].logs]
              y == [client[c] EXCEPT !.task = Fresh, !.pc = pc]
  <1>1. client[c].pc \in {"enqueue", "reenqueue"} /\ UNCHANGED <<queue, worker>> /\ tasks' = Fresh
    BY DEF SaveTaskId, DrawTask
  <1>2. client[c] \in ClientState /\ j \in Jobs /\ MyJob(c) \in JobRow /\ MyJob(c) = job[j]
    BY <1>1, ClientHolds
  <1>3. /\ client' = [client EXCEPT ![c] = y]
        /\ \A i \in Jobs : job'[i] = IF i = j THEN x ELSE job[i]
    BY <1>2, SaveMeans DEF SaveTaskId, AdmissionInvariant, TypeOK
  <1>4. x.status = job[j].status /\ x.task = Fresh /\ y.pc = pc /\ y.task = Fresh
    BY <1>2 DEF JobRow, ClientState
  <1>5. UNCHANGED streamVars
    BY <1>1, SaysNothing
  <1>. HIDE DEF x, y, j
  <1>6. pc \in {"send", "resend"} /\ tasks' \in {tasks, Fresh}
    BY <1>1
  <1>. HIDE DEF pc
  <1>7. RequestDeeds(c, j, x, y, {})
    BY <1>1, <1>4, <1>6 DEF RequestDeeds, Obliged
  <1>8. RequestTells(j, x, {}, {})
    BY <1>4, <1>5, TellsNothing
  <1>. QED  BY <1>1, <1>2, <1>3, <1>6, <1>7, <1>8, RequestGoesOn

(* A refused message: the request goes on to undo what it has saved.       *)
LEMMA RefusedKeepsWord ==
  ASSUME AdmissionInvariant, AdmissionInvariant', StreamInvariant, NEW c \in Clients,
         ClientSays(c), client[c].pc \in {"send", "resend", "hitlSend"},
         NEW pc, Proceed(c, pc), pc = "hitlRestore" => client[c].pc = "hitlSend",
         pc \in {"undo", "reundo", "hitlRestore"},
         UNCHANGED <<job, queue, worker, tasks>>
  PROVE  StreamInvariant'
  <1>. DEFINE j == client[c].job
              x == job[j]
              y == [client[c] EXCEPT !.pc = pc]
  <1>1. client[c] \in ClientState /\ j \in Jobs
    BY ClientHolds
  <1>2. /\ client' = [client EXCEPT ![c] = y] /\ client'[c] = y
        /\ \A i \in Jobs : job'[i] = IF i = j THEN x ELSE job[i]
    BY DEF Proceed, AdmissionInvariant, TypeOK
  <1>3. y.pc = pc /\ y.job = j /\ y.task = client[c].task
    BY <1>1 DEF ClientState
  <1>. HIDE DEF y
  <1>4. UNCHANGED streamVars
    BY <1>2, <1>3 DEF ClientSays, streamVars
  <1>5. RequestDeeds(c, j, x, y, {})
    BY <1>3 DEF RequestDeeds, Deciding, Obliged
  <1>6. RequestTells(j, x, {}, {})
    BY <1>4, TellsNothing
  <1>. HIDE DEF j, x
  <1>. QED  BY <1>1, <1>2, <1>5, <1>6, RequestGoesOn

(* A message that is sent.                                                 *)
LEMMA SentKeepsWord ==
  ASSUME AdmissionInvariant, AdmissionInvariant', StreamInvariant, NEW c \in Clients,
         ClientSays(c), client[c].pc \in {"send", "resend", "hitlSend"},
         NEW kind \in {"inspection", "wms"}, Submit(kind, client[c].task, client[c].job),
         kind = "inspection" => Sending(c),
         Done(c) \/ Proceed(c, "hitlClear"), UNCHANGED <<job, worker, tasks>>
  PROVE  StreamInvariant'
  <1>. DEFINE j == client[c].job
              x == job[j]
              m == [kind |-> kind, id |-> client[c].task, job |-> j, try |-> 0, copy |-> 0]
              more == outbox' \ outbox
  <1>1. client[c] \in ClientState /\ j \in Jobs
    BY ClientHolds
  <1>0. PICK y : client' = [client EXCEPT ![c] = y] /\ y.pc \in {"idle", "hitlClear"}
    <2>1. CASE Done(c)
      <3>. DEFINE y == ClientIdle
      <3>1. client' = [client EXCEPT ![c] = y] /\ y.pc = "idle"
        BY <2>1 DEF Done, ClientIdle
      <3>. HIDE DEF y
      <3>. QED  BY <3>1
    <2>2. CASE Proceed(c, "hitlClear")
      <3>. DEFINE y == [client[c] EXCEPT !.pc = "hitlClear"]
      <3>1. client' = [client EXCEPT ![c] = y] /\ y.pc = "hitlClear"
        BY <1>1, <2>2 DEF Proceed, ClientState, AdmissionInvariant, TypeOK
      <3>. HIDE DEF y
      <3>. QED  BY <3>1
    <2>. QED  BY <2>1, <2>2
  <1>. USE <1>0
  <1>2. PICK n \in 0..Cardinality(queue) :
          /\ [m EXCEPT !.copy = n] \notin queue
          /\ queue' = queue \cup {[m EXCEPT !.copy = n]}
    BY DEF Submit, Put
  <1>. DEFINE k == [m EXCEPT !.copy = n]
              sent == {k}
  <1>3. k.kind = kind /\ k.id = client[c].task /\ k \notin queue /\ queue' = queue \cup sent
    BY <1>2
  <1>. HIDE DEF k
  <1>4. RequestDeeds(c, j, x, y, sent)
    BY <1>3 DEF RequestDeeds, Obliged
  <1>5. /\ \A i \in Jobs : job'[i] = IF i = j THEN x ELSE job[i]
        /\ \A d \in Clients : client'[d] = IF d = c THEN y ELSE client[d]
    BY DEF AdmissionInvariant, TypeOK
  <1>. HIDE DEF sent
  <1>6. RequestStepsTo(c, j, x, y, sent)
    <2>. HIDE DEF x, j
    <2>. QED  BY <1>3, <1>5 DEF RequestStepsTo
  <1>7. RequestTells(j, x, {}, more)
    <2>1. Event("api", j, "PENDING") \in [by : {"api"}, job : Jobs, status : Statuses \ Terminal]
      BY <1>1 DEF Event, Statuses, Terminal
    <2>2. missed' = missed /\ UNCHANGED <<viewer, alerted, unheard>>
          /\ outbox' \in {outbox, outbox \cup {Event("api", j, "PENDING")}}
      BY DEF ClientSays
    <2>. HIDE DEF j
    <2>. QED  BY <2>1, <2>2 DEF RequestTells
  <1>. HIDE DEF j, x, more
  <1>. QED  BY <1>1, <1>4, <1>6, <1>7, RequestKeepsWord

(* The message of an inspection or of a decision.                          *)
LEMMA SendsKeepWord ==
  ASSUME AdmissionInvariant, AdmissionInvariant', StreamInvariant,
         NEW c \in Clients, SendInspection(c) \/ SendDecision(c), ClientSays(c)
  PROVE  StreamInvariant'
  <1>1. /\ client[c].pc \in {"send", "resend", "hitlSend"} /\ UNCHANGED <<job, worker, tasks>>
        /\ client[c] \in ClientState
    BY ClientHolds DEF SendInspection, SendDecision
  <1>2. CASE SendInspection(c)
    <2>1. Sending(c)
      BY <1>2 DEF SendInspection, Sending
    <2>2. CASE Submit("inspection", client[c].task, client[c].job) /\ Done(c)
      <3>1. UNCHANGED <<job, worker, tasks>>
        BY <1>1
      <3>. QED  BY <1>1, <2>1, <2>2, <3>1, SentKeepsWord
    <2>3. ASSUME UNCHANGED queue, NEW pc \in {"undo", "reundo"}, Proceed(c, pc)
          PROVE  StreamInvariant'
      <3>1. UNCHANGED <<job, queue, worker, tasks>>
        BY <1>1, <2>3
      <3>. QED  BY <1>1, <2>3, <3>1, RefusedKeepsWord
    <2>4. \/ Submit("inspection", client[c].task, client[c].job) /\ Done(c)
          \/ UNCHANGED queue /\ \E pc \in {"undo", "reundo"} : Proceed(c, pc)
      BY <1>2 DEF SendInspection
    <2>. QED  BY <2>2, <2>3, <2>4
  <1>3. CASE SendDecision(c)
    <2>1. client[c].pc = "hitlSend"
      BY <1>3 DEF SendDecision
    <2>2. CASE Submit("wms", client[c].task, client[c].job) /\ Proceed(c, "hitlClear")
      <3>1. UNCHANGED <<job, worker, tasks>>
        BY <1>1
      <3>. QED  BY <1>1, <2>1, <2>2, <3>1, SentKeepsWord
    <2>3. CASE UNCHANGED queue /\ Proceed(c, "hitlRestore")
      <3>1. UNCHANGED <<job, queue, worker, tasks>>
        BY <1>1, <2>3
      <3>. QED  BY <1>1, <2>1, <2>3, <3>1, RefusedKeepsWord
    <2>. QED  BY <1>3, <2>2, <2>3 DEF SendDecision
  <1>. QED  BY <1>2, <1>3

(* What a refused message undoes.                                          *)
LEMMA UndoKeepsWord ==
  ASSUME AdmissionInvariant, AdmissionInvariant', StreamInvariant,
         NEW c \in Clients, UndoEnqueue(c) \/ RestoreRecheck(c), ClientSays(c)
  PROVE  StreamInvariant'
  <1>. DEFINE j == client[c].job
  <1>1. client[c].pc \in {"undo", "reundo", "restore"} /\ UNCHANGED <<queue, worker, tasks>>
    BY DEF UndoEnqueue, RestoreRecheck
  <1>2. client[c] \in ClientState /\ j \in Jobs /\ MyJob(c) \in JobRow /\ MyJob(c) = job[j]
    BY <1>1, ClientHolds
  <1>3. PICK y : client' = [client EXCEPT ![c] = y] /\ y.pc \in {"idle", "restore"}
    <2>1. CASE Done(c)
      <3>. DEFINE y == ClientIdle
      <3>1. client' = [client EXCEPT ![c] = y] /\ y.pc = "idle"
        BY <2>1 DEF Done, ClientIdle
      <3>. HIDE DEF y
      <3>. QED  BY <3>1
    <2>2. CASE Proceed(c, "restore")
      <3>. DEFINE y == [client[c] EXCEPT !.pc = "restore"]
      <3>1. client' = [client EXCEPT ![c] = y] /\ y.pc = "restore"
        BY <1>2, <2>2 DEF Proceed, ClientState, AdmissionInvariant, TypeOK
      <3>. HIDE DEF y
      <3>. QED  BY <3>1
    <2>. QED  BY <2>1, <2>2 DEF UndoEnqueue, RestoreRecheck
  <1>4. PICK status \in {"FAILED", "RECHECK_REQUIRED"} :
          /\ SaveJob(j, [MyJob(c) EXCEPT !.status = status, !.task = None])
          /\ status = "FAILED" => client[c].pc \in {"undo", "reundo"}
    BY DEF UndoEnqueue, RestoreRecheck
  <1>. DEFINE x == [MyJob(c) EXCEPT !.status = status, !.task = None]
              lost == IF client[c].pc \in {"undo", "reundo"} THEN {j} ELSE {}
  <1>5. \A i \in Jobs : job'[i] = IF i = j THEN x ELSE job[i]
    BY <1>2, <1>4, SaveMeans
  <1>6. x.status = status
    BY <1>2 DEF JobRow
  <1>7. RequestTells(j, x, lost, {})
    <2>. HIDE DEF x
    <2>1. status = "FAILED" => j \in lost
      BY <1>4
    <2>2. missed' = missed \cup lost /\ outbox' = outbox \cup {} /\ UNCHANGED <<viewer, alerted, unheard>>
          /\ lost \subseteq Jobs
      BY <1>1, <1>2 DEF ClientSays
    <2>. HIDE DEF lost
    <2>. QED  BY <1>4, <1>6, <2>1, <2>2 DEF RequestTells, Terminal
  <1>. HIDE DEF x, j, lost
  <1>8. RequestDeeds(c, j, x, y, {}) /\ tasks' \in {tasks, Fresh}
    BY <1>1, <1>3, <1>6 DEF RequestDeeds
  <1>. QED  BY <1>1, <1>2, <1>3, <1>5, <1>7, <1>8, RequestGoesOn

(* A decision that could not be sent is taken back: its alert is there.    *)
LEMMA RestoreHitlKeepsWord ==
  ASSUME AdmissionInvariant, AdmissionInvariant', StreamInvariant,
         NEW c \in Clients, RestoreHitl(c), ClientSays(c)
  PROVE  StreamInvariant'
  <1>. DEFINE j == client[c].job
              back == /\ job[j].backup # None
                      /\ job[j].status = "PROCESSING" /\ job[j].task = client[c].task
              x == IF back
                   THEN [job[j] EXCEPT !.status = "HITL_REQUIRED", !.backup = None,
                           !.task = job[j].backup.task, !.logs = job[j].backup.logs]
                   ELSE job[j]
  <1>1. /\ client[c].pc = "hitlRestore" /\ UNCHANGED <<queue, worker, tasks>>
        /\ client' = [client EXCEPT ![c] = ClientIdle]
    BY DEF RestoreHitl, Done
  <1>2. j \in Jobs /\ job[j] \in JobRow
    BY <1>1, ClientHolds
  <1>3. \A i \in Jobs : job'[i] = IF i = j THEN x ELSE job[i]
    <2>1. CASE back
      <3>1. x = [job[j] EXCEPT !.status = "HITL_REQUIRED", !.backup = None,
                   !.task = job[j].backup.task, !.logs = job[j].backup.logs]
        BY <2>1
      <3>2. SaveJob(j, x)
        BY <2>1, <3>1 DEF RestoreHitl
      <3>. HIDE DEF x, back
      <3>. QED  BY <1>2, <3>2, SaveMeans
    <2>2. CASE ~back
      BY <2>2 DEF RestoreHitl, KeepJob
    <2>. QED  BY <2>1, <2>2
  <1>4. back => Obliged(j) /\ x.status = "HITL_REQUIRED"
    BY <1>1, <1>2 DEF Obliged, Deciding, JobRow
  <1>5. ~back => x = job[j]
    OBVIOUS
  <1>6. ClientIdle.pc = "idle" /\ UNCHANGED streamVars
    BY <1>1, SaysNothing DEF ClientIdle
  <1>. HIDE DEF j, back, x
  <1>7. RequestDeeds(c, j, x, ClientIdle, {}) /\ tasks' \in {tasks, Fresh}
    BY <1>1, <1>4, <1>5, <1>6 DEF RequestDeeds, Obliged
  <1>8. RequestTells(j, x, {}, {})
    BY <1>4, <1>5, <1>6, TellsNothing DEF Terminal
  <1>. QED  BY <1>1, <1>2, <1>3, <1>7, <1>8, RequestGoesOn

(* What is left of a decision once it was sent.                            *)
LEMMA ClearBackupKeepsWord ==
  ASSUME AdmissionInvariant, AdmissionInvariant', StreamInvariant,
         NEW c \in Clients, ClearBackup(c), ClientSays(c)
  PROVE  StreamInvariant'
  <1>. DEFINE j == client[c].job
              x == [MyJob(c) EXCEPT !.logs = client[c].logs, !.backup = None]
  <1>1. /\ client[c].pc = "hitlClear" /\ UNCHANGED <<queue, worker, tasks>>
        /\ client' = [client EXCEPT ![c] = ClientIdle]
    BY DEF ClearBackup, Done
  <1>2. j \in Jobs /\ MyJob(c) \in JobRow /\ MyJob(c) = job[j]
    BY <1>1, ClientHolds
  <1>3. \A i \in Jobs : job'[i] = IF i = j THEN x ELSE job[i]
    BY <1>2, SaveMeans DEF ClearBackup
  <1>4. x.status = job[j].status /\ x.task = job[j].task
    BY <1>2 DEF JobRow
  <1>5. ClientIdle.pc = "idle" /\ UNCHANGED streamVars
    BY <1>1, SaysNothing DEF ClientIdle
  <1>. HIDE DEF j, x
  <1>6. RequestDeeds(c, j, x, ClientIdle, {}) /\ tasks' \in {tasks, Fresh}
    BY <1>1, <1>4, <1>5 DEF RequestDeeds, Obliged
  <1>7. RequestTells(j, x, {}, {})
    BY <1>4, <1>5, TellsNothing
  <1>. QED  BY <1>1, <1>2, <1>3, <1>6, <1>7, RequestGoesOn

(* The steps of a request and what it publishes.                           *)
LEMMA ClientPublishesKeepsWord ==
  ASSUME AdmissionInvariant, AdmissionInvariant', StreamInvariant, NEW c \in Clients, ClientPublishes(c)
  PROVE  StreamInvariant'
  <1>1. ClientStep(c) /\ ClientSays(c)
    BY DEF ClientPublishes, ClientSays
  <1>. QED  BY <1>1, SaveTaskIdKeepsWord, SendsKeepWord, UndoKeepsWord, RestoreHitlKeepsWord,
               ClearBackupKeepsWord DEF ClientStep

(* A request whose process is lost.                                        *)
LEMMA LoseClientKeepsWord ==
  ASSUME AdmissionInvariant, AdmissionInvariant', StreamInvariant, UNCHANGED streamVars,
         NEW c \in Clients, LoseClient(c)
  PROVE  StreamInvariant'
  <1>. DEFINE j == client[c].job
              x == job[j]
  <1>1. /\ client[c].pc # "idle" /\ UNCHANGED <<job, queue, worker, tasks>>
        /\ client' = [client EXCEPT ![c] = ClientIdle]
    BY DEF LoseClient, Done
  <1>2. j \in Jobs /\ ClientIdle.pc = "idle" /\ UNCHANGED <<queue, worker>>
        /\ \A i \in Jobs : job'[i] = IF i = j THEN x ELSE job[i]
    BY <1>1, ClientHolds DEF ClientIdle
  <1>3. RequestDeeds(c, j, x, ClientIdle, {}) /\ tasks' \in {tasks, Fresh}
    BY <1>1, <1>2 DEF RequestDeeds, Obliged
  <1>4. RequestTells(j, x, {}, {})
    BY TellsNothing
  <1>. HIDE DEF j, x
  <1>. QED  BY <1>1, <1>2, <1>3, <1>4, RequestGoesOn

(* The steps of an admin on a job, which no request is kept open for.      *)
LEMMA ReviewsKeepWord ==
  ASSUME AdmissionInvariant, AdmissionInvariant', StreamInvariant, NEW j \in Jobs,
         \/ RecheckPublishes(j)
         \/ (\E a \in Admins : StartHitlReview(a, j)) /\ UNCHANGED streamVars
  PROVE  StreamInvariant'
  <1>1. /\ UNCHANGED <<queue, worker, tasks, client>> /\ UNCHANGED <<viewer, alerted, missed, unheard>>
        /\ job[j] \in JobRow /\ job[j].status = "HITL_REQUIRED"
    BY DEF RecheckPublishes, RequestRecheck, StartHitlReview, streamVars, AwaitsAdmin,
           AdmissionInvariant, TypeOK
  <1>2. PICK x : SaveJob(j, x) /\ x.status \in {"HITL_REQUIRED", "RECHECK_REQUIRED"}
    <2>1. CASE RecheckPublishes(j)
      <3>. DEFINE z == [job[j] EXCEPT !.status = "RECHECK_REQUIRED", !.task = None,
                          !.logs = [NoLogs EXCEPT !.result = job[j].logs.result],
                          !.backup = None, !.reviewer = None]
      <3>1. SaveJob(j, z) /\ z.status = "RECHECK_REQUIRED"
        BY <1>1, <2>1 DEF RecheckPublishes, RequestRecheck, JobRow
      <3>. QED  BY <3>1
    <2>2. ASSUME NEW a \in Admins, StartHitlReview(a, j)
          PROVE  \E z : SaveJob(j, z) /\ z.status \in {"HITL_REQUIRED", "RECHECK_REQUIRED"}
      <3>. DEFINE z == [job[j] EXCEPT !.reviewer = a]
      <3>1. SaveJob(j, z) /\ z.status = "HITL_REQUIRED"
        BY <1>1, <2>2 DEF StartHitlReview, JobRow
      <3>. QED  BY <3>1
    <2>. QED  BY <2>1, <2>2
  <1>3. \A i \in Jobs : job'[i] = IF i = j THEN x ELSE job[i]
    BY <1>2, SaveMeans
  <1>4. PICK c : c \notin Clients
    <2>1. (CHOOSE c : c \notin Clients) \notin Clients
      BY NoSetContainsEverything
    <2>. QED  BY <2>1
  <1>. DEFINE y == [pc |-> "idle"]
              more == outbox' \ outbox
  <1>5. RequestStepsTo(c, j, x, y, {})
    BY <1>1, <1>3, <1>4 DEF RequestStepsTo
  <1>6. RequestDeeds(c, j, x, y, {})
    BY <1>1, <1>2 DEF RequestDeeds, Obliged
  <1>7. RequestTells(j, x, {}, more)
    <2>1. Event("api", j, "RECHECK_REQUIRED") \in [by : {"api"}, job : Jobs, status : Statuses \ Terminal]
      BY DEF Event, Statuses, Terminal
    <2>2. outbox' \in {outbox, outbox \cup {Event("api", j, "RECHECK_REQUIRED")}}
      BY DEF RecheckPublishes, streamVars
    <2>. QED  BY <1>1, <1>2, <2>1, <2>2 DEF RequestTells, Terminal
  <1>. HIDE DEF y, more
  <1>. QED  BY <1>4, <1>5, <1>6, <1>7, RequestKeepsWord

-----------------------------------------------------------------------------
(* The steps of the WMS, of Redis and of the browsers.                     *)

(* The WMS changes neither a status nor the queue, and of the workers only *)
(* one that waits for it.                                                  *)
LEMMA ServersChange ==
  ASSUME AdmissionInvariant, NEW s \in Servers, ServerStep(s) \/ LoseServer(s)
  PROVE  /\ UNCHANGED <<queue, client, tasks>>
         /\ \A i \in Jobs : job'[i].status = job[i].status /\ job'[i].task = job[i].task
         /\ \A v \in Workers :
              /\ worker'[v].msg = worker[v].msg
              /\ \/ worker'[v].pc = worker[v].pc
                 \/ worker[v].pc = "wait" /\ worker'[v].pc \in {"admitted", "failed", "unreachable"}
  <1>1. UNCHANGED <<queue, client, tasks>>
    BY DEF ServerStep, ReadJob, Admit, ConfirmAdmission, RefuseAdmission, LoseServer
  <1>2. \A i \in Jobs : job'[i].status = job[i].status /\ job'[i].task = job[i].task
    <2>1. CASE Admit(s)
      <3>. DEFINE j == server[s].job
                  x == [job[j] EXCEPT !.grade = server[s].verdict]
      <3>1. job' = [job EXCEPT ![j] = x] /\ job \in [Jobs -> JobRow] /\ j \in Jobs
        BY <2>1 DEF Admit, AdmissionInvariant, TypeOK, ServersAtWork
      <3>2. x.status = job[j].status /\ x.task = job[j].task
        BY <3>1 DEF JobRow
      <3>. HIDE DEF x, j
      <3>3. \A i \in Jobs : job'[i] = IF i = j THEN x ELSE job[i]
        BY <3>1
      <3>. QED  BY <3>2, <3>3
    <2>2. CASE ~Admit(s)
      BY <2>2 DEF ServerStep, ReadJob, ConfirmAdmission, RefuseAdmission, LoseServer
    <2>. QED  BY <2>1, <2>2
  <1>3. CASE UNCHANGED worker
    BY <1>1, <1>2, <1>3
  <1>4. ASSUME NEW pc \in {"admitted", "failed", "unreachable"}, Answer(s, pc), server[s].caller # None
        PROVE  \A v \in Workers :
                 /\ worker'[v].msg = worker[v].msg
                 /\ \/ worker'[v].pc = worker[v].pc
                    \/ worker[v].pc = "wait" /\ worker'[v].pc \in {"admitted", "failed", "unreachable"}
    <2>. DEFINE w == server[s].caller
    <2>1. w \in Workers /\ worker[w].pc = "wait" /\ Goto(w, pc)
      BY <1>4 DEF Answer, AdmissionInvariant, CallersWait, At, TypeOK, ServerState
    <2>. HIDE DEF w
    <2>. DEFINE y == [worker[w] EXCEPT !.pc = pc]
    <2>2. \A v \in Workers : worker'[v] = IF v = w THEN y ELSE worker[v]
      BY <2>1, GotoMeans
    <2>3. y.pc = pc /\ y.msg = worker[w].msg
      BY <2>1, GotoMeans
    <2>. HIDE DEF y
    <2>. QED  BY <2>1, <2>2, <2>3
  <1>5. UNCHANGED worker \/ \E pc \in {"admitted", "failed", "unreachable"} :
                              Answer(s, pc) /\ server[s].caller # None
    BY DEF ServerStep, ReadJob, Admit, ConfirmAdmission, RefuseAdmission, LoseServer, Answer
  <1>. QED  BY <1>1, <1>2, <1>3, <1>4, <1>5

(* A request that the WMS works on or loses: nothing of it is published.   *)
LEMMA ServersKeepWord ==
  ASSUME AdmissionInvariant, StreamInvariant, UNCHANGED streamVars,
         NEW s \in Servers, ServerStep(s) \/ LoseServer(s)
  PROVE  StreamInvariant'
  <1>1. /\ UNCHANGED <<queue, client, tasks>>
        /\ \A i \in Jobs : job'[i].status = job[i].status /\ job'[i].task = job[i].task
        /\ \A v \in Workers :
             /\ worker'[v].msg = worker[v].msg
             /\ \/ worker'[v].pc = worker[v].pc
                \/ worker[v].pc = "wait" /\ worker'[v].pc \in {"admitted", "failed", "unreachable"}
    BY ServersChange
  <1>2. UNCHANGED <<outbox, viewer, alerted, missed, unheard>>
    BY DEF streamVars
  <1>3. StreamTypeOK' /\ ViewersFollow'
    BY <1>2 DEF StreamInvariant, StreamTypeOK, ViewersFollow
  <1>4. MessagesHeld'
    BY <1>1 DEF StreamInvariant, MessagesHeld, At
  <1>5. KindsAgree'
    BY <1>1 DEF StreamInvariant, KindsAgree
  <1>6. IdsApart'
    BY <1>1 DEF StreamInvariant, IdsApart, Deciding, Sending
  <1>7. EventsHeld'
    BY <1>1, <1>2 DEF StreamInvariant, EventsHeld, At
  <1>8. AlertComes'
    <2>. SUFFICES ASSUME NEW i \in Jobs, Obliged(i)' PROVE Announced(i)'
      BY DEF AlertComes
    <2>1. Announced(i)
      BY <1>1 DEF StreamInvariant, AlertComes, Obliged, Deciding
    <2>2. \A v \in Workers : WillAlert(v) => WillAlert(v)'
      BY <1>1 DEF WillAlert
    <2>. QED  BY <1>1, <1>2, <2>1, <2>2 DEF Announced
  <1>9. EndComes'
    <2>. SUFFICES ASSUME NEW v \in Viewers, Following(v), ~viewer[v].ended,
                         NEW i, i = viewer[v].job, Ended(i)', i \notin missed
                  PROVE  Told(i)'
      BY <1>2 DEF EndComes, Following, Ended, Told, WillBeTold, FailureTold, WillTell
    <2>1. i \in Jobs
      BY DEF StreamInvariant, ViewersFollow, Following
    <2>2. job'[i].status = job[i].status
      BY <1>1, <2>1
    <2>3. Told(i)
      BY <2>2 DEF StreamInvariant, EndComes, Ended
    <2>4. \A u \in Workers : WillTell(u, i) => WillTell(u, i)'
      BY <1>1, <1>2 DEF WillTell
    <2>5. WillBeTold(i) => WillBeTold(i)'
      BY <1>1, <2>4 DEF WillBeTold
    <2>6. FailureTold(i) => FailureTold(i)'
      BY <1>2 DEF FailureTold
    <2>. QED  BY <2>2, <2>3, <2>5, <2>6 DEF Told
  <1>. QED  BY <1>3, <1>4, <1>5, <1>6, <1>7, <1>8, <1>9 DEF StreamInvariant

(* An event that is published, or lost: an alert is there then, and the    *)
(* browsers that follow the job have the end.                              *)
LEMMA EventGoneKeepsWord ==
  ASSUME StreamInvariant, NEW e \in outbox, outbox' = outbox \ {e},
         UNCHANGED <<job, queue, worker, client, tasks, unheard>>,
         missed \subseteq missed', alerted \subseteq alerted', StreamTypeOK', ViewersFollow',
         e.status = Alert => e.job \in alerted' \cup missed',
         \A v \in Viewers :
           /\ Following(v)' => Following(v) /\ viewer'[v].job = viewer[v].job
           /\ Following(v)' /\ viewer[v].ended => viewer'[v].ended
           /\ Following(v)' /\ viewer[v].job = e.job /\ e.status \in Terminal =>
                viewer'[v].ended \/ e.job \in missed'
  PROVE  StreamInvariant'
  <1>1. MessagesHeld' /\ KindsAgree'
    BY DEF StreamInvariant, MessagesHeld, KindsAgree, At
  <1>2. IdsApart'
    BY DEF StreamInvariant, IdsApart, Deciding, Sending
  <1>3. EventsHeld'
    BY DEF StreamInvariant, EventsHeld, At
  <1>4. AlertComes'
    <2>. SUFFICES ASSUME NEW i \in Jobs, Obliged(i)' PROVE Announced(i)'
      BY DEF AlertComes
    <2>1. Announced(i)
      BY DEF StreamInvariant, AlertComes, Obliged, Deciding
    <2>2. \A v \in Workers : WillAlert(v) => WillAlert(v)'
      BY DEF WillAlert
    <2>. QED  BY <2>1, <2>2 DEF Announced
  <1>5. EndComes'
    <2>. SUFFICES ASSUME NEW v \in Viewers, Following(v)', ~viewer'[v].ended,
                         NEW i, i = viewer'[v].job, Ended(i)', i \notin missed'
                  PROVE  Told(i)'
      BY DEF EndComes, Following, Ended, Told, WillBeTold, FailureTold, WillTell
    <2>1. Following(v) /\ i = viewer[v].job /\ ~viewer[v].ended /\ i \notin missed
          /\ ~(i = e.job /\ e.status \in Terminal)
      OBVIOUS
    <2>2. Told(i)
      BY <2>1 DEF StreamInvariant, EndComes, Ended
    <2>3. \A u \in Workers : WillTell(u, i) => WillTell(u, i)'
      BY <2>1 DEF WillTell
    <2>4. WillBeTold(i) => WillBeTold(i)'
      BY <2>3 DEF WillBeTold
    <2>5. FailureTold(i) => FailureTold(i)'
      BY <2>1 DEF FailureTold, Terminal
    <2>. QED  BY <2>2, <2>4, <2>5 DEF Told
  <1>. QED  BY <1>1, <1>2, <1>3, <1>4, <1>5 DEF StreamInvariant

(* Redis passes an event on, the alert is saved, or neither works.         *)
LEMMA EventsKeepWord ==
  ASSUME StreamInvariant, NEW e \in outbox, Publish(e) \/ SaveAlert(e) \/ FailToPublish(e)
  PROVE  StreamInvariant'
  <1>1. /\ outbox' = outbox \ {e} /\ UNCHANGED <<job, queue, worker, client, tasks, unheard>>
        /\ e.job \in Jobs /\ StreamTypeOK /\ ViewersFollow
    BY DEF Publish, SaveAlert, FailToPublish, vars, StreamInvariant, StreamTypeOK
  <1>2. CASE Publish(e)
    <2>1. /\ e.status # Alert /\ UNCHANGED <<alerted, missed>>
          /\ viewer' = [v \in Viewers |->
               IF Subscribed(v, e.job) /\ e.status \in Terminal
               THEN [viewer[v] EXCEPT !.ended = TRUE] ELSE viewer[v]]
      BY <1>2 DEF Publish
    <2>. DEFINE seen(v) == [viewer[v] EXCEPT !.ended = TRUE]
    <2>2. \A v \in Viewers :
            /\ seen(v).pc = viewer[v].pc /\ seen(v).job = viewer[v].job /\ seen(v).late = viewer[v].late
            /\ seen(v).subscribed = viewer[v].subscribed /\ seen(v).ended = TRUE
      BY <1>1 DEF StreamTypeOK
    <2>3. \A v \in Viewers : seen(v) \in
            [pc : {"off", "reading", "live", "closed"}, job : Jobs \cup {None}, subscribed : BOOLEAN,
             ended : BOOLEAN, drops : 0..MaxDrops, late : BOOLEAN]
      BY <1>1 DEF StreamTypeOK
    <2>4. \A v \in Viewers : viewer'[v] = IF Subscribed(v, e.job) /\ e.status \in Terminal
                                          THEN seen(v) ELSE viewer[v]
      BY <2>1
    <2>. HIDE DEF seen
    <2>5. StreamTypeOK'
      BY <1>1, <2>1, <2>3, <2>4 DEF StreamTypeOK
    <2>6. ViewersFollow'
      BY <1>1, <2>2, <2>4 DEF ViewersFollow
    <2>7. \A v \in Viewers :
            /\ Following(v)' => Following(v) /\ viewer'[v].job = viewer[v].job
            /\ Following(v)' /\ viewer[v].ended => viewer'[v].ended
            /\ Following(v)' /\ viewer[v].job = e.job /\ e.status \in Terminal =>
                 viewer'[v].ended \/ e.job \in missed'
      BY <2>2, <2>4 DEF Following, Subscribed
    <2>. QED  BY <1>1, <2>1, <2>5, <2>6, <2>7, EventGoneKeepsWord
  <1>3. CASE SaveAlert(e) \/ FailToPublish(e)
    <2>1. /\ UNCHANGED viewer /\ missed \subseteq missed' /\ alerted \subseteq alerted'
          /\ e.status = Alert => e.job \in alerted' \cup missed'
          /\ e.status = Alert \/ e.job \in missed'
          /\ alerted' \subseteq alerted \cup {e.job} /\ missed' \subseteq missed \cup {e.job}
      BY <1>3 DEF SaveAlert, FailToPublish
    <2>2. StreamTypeOK' /\ ViewersFollow'
      BY <1>1, <2>1 DEF StreamTypeOK, ViewersFollow
    <2>3. \A v \in Viewers :
            /\ Following(v)' => Following(v) /\ viewer'[v].job = viewer[v].job
            /\ Following(v)' /\ viewer[v].ended => viewer'[v].ended
            /\ Following(v)' /\ viewer[v].job = e.job /\ e.status \in Terminal =>
                 viewer'[v].ended \/ e.job \in missed'
      BY <2>1 DEF Following, Terminal, Alert
    <2>. QED  BY <1>1, <2>1, <2>2, <2>3, EventGoneKeepsWord
  <1>. QED  BY <1>2, <1>3

(* A browser that begins to follow a job finds it not ended.               *)
LEMMA ViewerMoves ==
  ASSUME StreamInvariant, NEW v \in Viewers, NEW x, Change(v, x),
         x \in [pc : {"off", "reading", "live", "closed"}, job : Jobs \cup {None}, subscribed : BOOLEAN,
                ended : BOOLEAN, drops : 0..MaxDrops, late : BOOLEAN],
         x.pc \in {"reading", "live"} => x.job \in Jobs,
         x.pc = "live" => x.late \/ ~x.subscribed \/ ~Ended(x.job)
  PROVE  StreamInvariant'
  <1>1. UNCHANGED <<job, queue, worker, client, tasks, outbox, alerted, missed, unheard>>
    BY DEF Change, vars
  <1>2. \A u \in Viewers : viewer'[u] = IF u = v THEN x ELSE viewer[u]
    BY DEF Change, StreamInvariant, StreamTypeOK
  <1>3. StreamTypeOK'
    BY <1>1 DEF Change, StreamInvariant, StreamTypeOK
  <1>4. ViewersFollow'
    BY <1>2 DEF StreamInvariant, ViewersFollow
  <1>5. MessagesHeld' /\ KindsAgree'
    BY <1>1 DEF StreamInvariant, MessagesHeld, KindsAgree, At
  <1>6. IdsApart'
    BY <1>1 DEF StreamInvariant, IdsApart, Deciding, Sending
  <1>7. EventsHeld'
    BY <1>1 DEF StreamInvariant, EventsHeld, At
  <1>8. AlertComes'
    BY <1>1 DEF StreamInvariant, AlertComes, Obliged, Deciding, Announced, WillAlert
  <1>9. EndComes'
    <2>. SUFFICES ASSUME NEW u \in Viewers, Following(u)', ~viewer'[u].ended,
                         NEW i, i = viewer'[u].job, Ended(i)', i \notin missed'
                  PROVE  Told(i)'
      BY DEF EndComes, Following, Ended, Told, WillBeTold, FailureTold, WillTell
    <2>1. Ended(i)
      BY <1>1 DEF Ended
    <2>2. u # v /\ viewer'[u] = viewer[u]
      BY <1>2, <2>1 DEF Following
    <2>3. Told(i)
      BY <1>1, <2>1, <2>2 DEF StreamInvariant, EndComes, Following
    <2>. QED  BY <1>1, <2>3 DEF Told, WillBeTold, FailureTold, WillTell
  <1>. QED  BY <1>3, <1>4, <1>5, <1>6, <1>7, <1>8, <1>9 DEF StreamInvariant

(* The steps of a browser.                                                 *)
LEMMA ViewersKeepWord ==
  ASSUME StreamInvariant, NEW v \in Viewers,
         ViewerStep(v) \/ Drop(v) \/ \E j \in Jobs : Connect(v, j)
  PROVE  StreamInvariant'
  <1>. DEFINE type == [pc : {"off", "reading", "live", "closed"}, job : Jobs \cup {None},
                       subscribed : BOOLEAN, ended : BOOLEAN, drops : 0..MaxDrops, late : BOOLEAN]
  <1>1. viewer[v] \in type /\ (viewer[v].pc \in {"reading", "live"} => viewer[v].job \in Jobs)
    BY DEF StreamInvariant, StreamTypeOK, ViewersFollow
  <1>2. PICK x : /\ Change(v, x) /\ x \in type
                 /\ x.pc \in {"reading", "live"} => x.job \in Jobs
                 /\ x.pc = "live" => x.late \/ ~x.subscribed \/ ~Ended(x.job)
    <2>1. CASE Register(v)
      <3>. DEFINE y == [viewer[v] EXCEPT !.subscribed = TRUE, !.late = viewer[v].pc = "live"]
      <3>1. /\ Change(v, y) /\ y \in type /\ y.pc = viewer[v].pc /\ y.job = viewer[v].job
            /\ y.late = (viewer[v].pc = "live") /\ viewer[v].pc \in {"reading", "live"}
        BY <1>1, <2>1 DEF Register
      <3>. HIDE DEF y
      <3>. QED  BY <1>1, <3>1
    <2>2. CASE ReadStatus(v) /\ job[viewer[v].job].status \in Terminal
      <3>. DEFINE y == [NoViewer EXCEPT !.pc = "closed"]
      <3>1. Change(v, y)
        BY <2>2 DEF ReadStatus
      <3>2. 0 \in 0..MaxDrops
        BY ViewerConstants
      <3>3. y \in type /\ y.pc = "closed"
        BY <3>2 DEF NoViewer
      <3>. HIDE DEF y, type
      <3>. QED  BY <3>1, <3>3
    <2>3. CASE ReadStatus(v) /\ job[viewer[v].job].status \notin Terminal
      <3>. DEFINE y == [viewer[v] EXCEPT !.pc = "live"]
      <3>1. /\ Change(v, y) /\ y \in type /\ y.pc = "live" /\ y.job = viewer[v].job
            /\ viewer[v].job \in Jobs
        BY <1>1, <2>3 DEF ReadStatus
      <3>2. ~Ended(viewer[v].job)
        BY <2>3 DEF Ended, Terminal, Final
      <3>. HIDE DEF y, type
      <3>. QED  BY <3>1, <3>2
    <2>4. CASE Relay(v)
      <3>. DEFINE y == [NoViewer EXCEPT !.pc = "closed"]
      <3>1. Change(v, y)
        BY <2>4 DEF Relay
      <3>2. 0 \in 0..MaxDrops
        BY ViewerConstants
      <3>3. y \in type /\ y.pc = "closed"
        BY <3>2 DEF NoViewer
      <3>. HIDE DEF y, type
      <3>. QED  BY <3>1, <3>3
    <2>5. CASE Drop(v)
      <3>. DEFINE y == [NoViewer EXCEPT !.drops = viewer[v].drops + 1]
      <3>1. Change(v, y) /\ viewer[v].drops < MaxDrops
        BY <2>5 DEF Drop
      <3>2. viewer[v].drops + 1 \in 0..MaxDrops
        BY <1>1, <3>1, ViewerConstants
      <3>3. y \in type /\ y.pc = "off"
        BY <3>2, ViewerConstants DEF NoViewer
      <3>. HIDE DEF y, type
      <3>. QED  BY <3>1, <3>3
    <2>6. ASSUME NEW j \in Jobs, Connect(v, j)
          PROVE  \E y : /\ Change(v, y) /\ y \in type
                        /\ y.pc \in {"reading", "live"} => y.job \in Jobs
                        /\ y.pc = "live" => y.late \/ ~y.subscribed \/ ~Ended(y.job)
      <3>. DEFINE y == [viewer[v] EXCEPT !.pc = "reading", !.job = j]
      <3>1. Change(v, y) /\ y \in type /\ y.pc = "reading" /\ y.job = j
        BY <1>1, <2>6 DEF Connect
      <3>. HIDE DEF y, type
      <3>. QED  BY <2>6, <3>1
    <2>. QED  BY <2>1, <2>2, <2>3, <2>4, <2>5, <2>6 DEF ViewerStep
  <1>. QED  BY <1>2, ViewerMoves

-----------------------------------------------------------------------------
(* The pipeline keeps its own invariant, whatever is published of it.      *)

(* A step that counts a fault and changes nothing else.                    *)
LEMMA FaultsKeepAdmission ==
  ASSUME AdmissionInvariant, NEW f \in Faults, Fault(f),
         UNCHANGED <<job, copy, admitted, queue, worker, server, client, restock, tasks>>
  PROVE  AdmissionInvariant'
  <1>1. JobPart /\ AdmissionPart /\ WorkPart /\ QueuePart /\ ClientPart /\ CountersPart
    BY Parts
  <1>2. JobPart' /\ AdmissionPart' /\ WorkPart' /\ QueuePart' /\ ClientPart'
    BY <1>1, JobsKept, AdmissionsKept, WorkKept, QueueKept, ClientsKept
  <1>3. CountersPart'
    BY <1>1, FaultCounted
  <1>. QED  BY <1>2, <1>3, PartsPrime

(* Every step of Streams is one of the pipeline, or leaves it alone but    *)
(* for a fault that is counted.                                            *)
LEMMA AdmissionsArePublished ==
  ASSUME AdmissionInvariant, [StreamNext]_allVars
  PROVE  AdmissionInvariant'
  <1>1. CASE [Next]_vars
    BY <1>1, AdmissionIsInductive
  <1>2. ASSUME NEW f \in Faults, Fault(f),
               UNCHANGED <<job, copy, admitted, queue, worker, server, client, restock, tasks>>
        PROVE  AdmissionInvariant'
    BY <1>2, FaultsKeepAdmission
  <1>3. ASSUME NEW w \in Workers, WorkerPublishes(w) \/ WorkerInterrupted(w)
        PROVE  Next
    BY <1>3 DEF WorkerPublishes, WorkerInterrupted, Next
  <1>4. ASSUME NEW w \in Workers, WorkerLost(w)
        PROVE  AdmissionInvariant'
    <2>1. CASE CrashWorker(w) \/ KillTask(w)
      BY <1>1, <2>1 DEF Next
    <2>2. CASE /\ Fault("limit")
               /\ UNCHANGED <<job, copy, admitted, queue, worker, server, client, restock, tasks>>
      BY <1>2, <2>2 DEF Faults
    <2>. QED  BY <1>4, <2>1, <2>2 DEF WorkerLost
  <1>5. ASSUME NEW c \in Clients, ClientPublishes(c) PROVE Next
    BY <1>5 DEF ClientPublishes, Next
  <1>6. ASSUME NEW j \in Jobs, RecheckPublishes(j) PROVE Next
    BY <1>6 DEF RecheckPublishes, Next
  <1>7. CASE OtherStep
    <2>1. Next
      BY <1>7 DEF OtherStep, Next
    <2>. QED  BY <1>1, <2>1
  <1>8. ASSUME NEW e \in outbox, Publish(e) \/ SaveAlert(e) \/ FailToPublish(e)
        PROVE  AdmissionInvariant'
    <2>1. CASE Publish(e) \/ SaveAlert(e)
      BY <1>1, <2>1 DEF Publish, SaveAlert
    <2>2. CASE FailToPublish(e)
      <3>1. /\ Fault("send")
            /\ UNCHANGED <<job, copy, admitted, queue, worker, server, client, restock, tasks>>
        BY <2>2 DEF FailToPublish
      <3>. QED  BY <1>2, <3>1 DEF Faults
    <2>. QED  BY <1>8, <2>1, <2>2
  <1>9. ASSUME NEW v \in Viewers, ViewerStep(v) \/ Drop(v) \/ \E j \in Jobs : Connect(v, j)
        PROVE  UNCHANGED vars
    BY <1>9 DEF ViewerStep, Register, ReadStatus, Relay, Drop, Connect, Change
  <1>10. CASE UNCHANGED allVars
    BY <1>1, <1>10 DEF allVars
  <1>. QED  BY <1>1, <1>3, <1>4, <1>5, <1>6, <1>7, <1>8, <1>9, <1>10 DEF StreamNext

(* What is published, or lost, does not keep the pipeline from what it     *)
(* promises.                                                               *)
THEOREM PipelineIsKept == StreamSpec => []AdmissionInvariant
  <1>1. StreamInit => AdmissionInvariant
    BY AdmissionHoldsInitially DEF StreamInit
  <1>2. AdmissionInvariant /\ [StreamNext]_allVars => AdmissionInvariant'
    BY AdmissionsArePublished
  <1>. QED  BY <1>1, <1>2, PTL DEF StreamSpec

(* At the start nobody works, waits or watches.                            *)
LEMMA StreamsHoldInitially == StreamInit => StreamInvariant
  <1>. SUFFICES ASSUME StreamInit PROVE StreamInvariant
    OBVIOUS
  <1>1. /\ outbox = {} /\ alerted = {} /\ missed = {} /\ unheard = {} /\ queue = {} /\ tasks = 0
        /\ \A v \in Viewers : viewer[v] = NoViewer
        /\ \A w \in Workers : worker[w].pc = "idle"
        /\ \A c \in Clients : client[c].pc = "idle"
        /\ \A j \in Jobs : job[j].status = "NONE"
    BY DEF StreamInit, Init, WorkerIdle, ClientIdle, NoJob
  <1>2. NoViewer.pc = "off" /\ StreamTypeOK
    BY ViewerConstants DEF StreamInit, StreamTypeOK, NoViewer
  <1>3. ViewersFollow /\ MessagesHeld /\ KindsAgree /\ IdsApart /\ EventsHeld
    BY <1>1, <1>2 DEF ViewersFollow, MessagesHeld, KindsAgree, IdsApart, EventsHeld, At, Deciding, Sending
  <1>4. AlertComes /\ EndComes
    BY <1>1, <1>2 DEF AlertComes, Obliged, EndComes, Following
  <1>. QED  BY <1>2, <1>3, <1>4 DEF StreamInvariant

(* No step forgets an end or an alert, whoever takes it.                   *)
LEMMA StreamsAreInductive ==
  ASSUME AdmissionInvariant, AdmissionInvariant', StreamInvariant, [StreamNext]_allVars
  PROVE  StreamInvariant'
  <1>1. ASSUME NEW w \in Workers, WorkerPublishes(w) \/ WorkerLost(w) \/ WorkerInterrupted(w)
        PROVE  StreamInvariant'
    BY <1>1, WorkerPublishesKeepsWord, WorkerLostKeepsWord, WorkerInterruptedKeepsWord
  <1>2. ASSUME NEW c \in Clients, ClientPublishes(c) PROVE StreamInvariant'
    BY <1>2, ClientPublishesKeepsWord
  <1>3. ASSUME NEW j \in Jobs, RecheckPublishes(j) PROVE StreamInvariant'
    BY <1>3, ReviewsKeepWord
  <1>4. CASE OtherStep
    <2>1. UNCHANGED streamVars
      BY <1>4 DEF OtherStep
    <2>2. ASSUME NEW s \in Servers, ServerStep(s) \/ LoseServer(s) PROVE StreamInvariant'
      BY <2>1, <2>2, ServersKeepWord
    <2>3. ASSUME NEW c \in Clients, Request(c) \/ LoseClient(c) PROVE StreamInvariant'
      BY <2>1, <2>3, CreateInspectionKeepsWord, RecheckInspectionKeepsWord, DecideHitlKeepsWord,
         LoseClientKeepsWord DEF Request
    <2>4. ASSUME NEW a \in Admins, NEW j \in Jobs, StartHitlReview(a, j) PROVE StreamInvariant'
      BY <2>1, <2>4, ReviewsKeepWord
    <2>. QED  BY <1>4, <2>2, <2>3, <2>4 DEF OtherStep
  <1>5. ASSUME NEW e \in outbox, Publish(e) \/ SaveAlert(e) \/ FailToPublish(e) PROVE StreamInvariant'
    BY <1>5, EventsKeepWord
  <1>6. ASSUME NEW v \in Viewers, ViewerStep(v) \/ Drop(v) \/ \E j \in Jobs : Connect(v, j)
        PROVE  StreamInvariant'
    BY <1>6, ViewersKeepWord
  <1>7. CASE UNCHANGED allVars
    <2>1. UNCHANGED <<job, queue, worker, client, tasks, outbox, viewer, alerted, missed, unheard>>
      BY <1>7 DEF allVars, vars, streamVars
    <2>2. StreamTypeOK' /\ ViewersFollow' /\ MessagesHeld' /\ KindsAgree' /\ IdsApart' /\ EventsHeld'
      BY <2>1 DEF StreamInvariant, StreamTypeOK, ViewersFollow, MessagesHeld, KindsAgree, IdsApart,
                  EventsHeld, At, Deciding, Sending
    <2>3. AlertComes'
      BY <2>1 DEF StreamInvariant, AlertComes, Obliged, Deciding, Announced, WillAlert
    <2>4. EndComes'
      BY <2>1 DEF StreamInvariant, EndComes, Following, Ended, Told, WillBeTold, FailureTold, WillTell
    <2>. QED  BY <2>2, <2>3, <2>4 DEF StreamInvariant
  <1>. QED  BY <1>1, <1>2, <1>3, <1>4, <1>5, <1>6, <1>7 DEF StreamNext

(* Alerts and ends are published or owed, or the task that publishes them  *)
(* again is still there, lost workers and refused messages included; only  *)
(* a failure is told by nobody when the worker that saved it is lost.      *)
THEOREM StreamsKeepInvariant == StreamSpec => []StreamInvariant
  <1>1. AdmissionInvariant /\ AdmissionInvariant' /\ StreamInvariant /\ [StreamNext]_allVars
          => StreamInvariant'
    BY StreamsAreInductive
  <1>. QED  BY <1>1, StreamsHoldInitially, PipelineIsKept, PTL DEF StreamSpec

(* A browser that follows a job that has ended finds the end in its        *)
(* stream, or it is still to come: a failure in the outbox of the worker   *)
(* that saved it, a final status there or with the WMS task that will tell *)
(* of it again, however often workers are lost between the commit and the  *)
(* event.  Not so when the event itself was lost with Redis or at a time   *)
(* limit, or the worker that failed the job was lost before it said so.    *)
THEOREM EndsAreOnTheirWay == StreamSpec => []EndIsOnItsWay
  <1>1. ASSUME StreamInvariant PROVE EndIsOnItsWay
    <2>. SUFFICES ASSUME NEW v \in Viewers, NEW j, j = viewer[v].job, Following(v), Ended(j),
                         j \notin missed, ~FailedUnheard(j), ~viewer[v].ended
                  PROVE  \/ \E e \in outbox : e.job = j /\ e.status \in Final \cup {"FAILED"}
                         \/ /\ job[j].status \in Final
                            /\ \E m \in queue : m.job = j /\ m.kind = "wms"
      BY DEF EndIsOnItsWay, Following
    <2>1. Told(j)
      BY <1>1 DEF StreamInvariant, EndComes
    <2>2. CASE job[j].status = "FAILED"
      BY <2>1, <2>2 DEF Told, FailureTold, FailedUnheard
    <2>3. CASE job[j].status # "FAILED"
      BY <2>1, <2>3 DEF Told, WillBeTold, Ended
    <2>. QED  BY <2>2, <2>3
  <1>. QED  BY <1>1, StreamsKeepInvariant, PTL

(* No job waits for an administrator unannounced.                          *)
THEOREM AdminsHearOfIt == StreamSpec => []AdminsAreAlerted
  <1>1. ASSUME StreamInvariant PROVE AdminsAreAlerted
    <2>. SUFFICES ASSUME NEW j \in Jobs, job[j].status = "HITL_REQUIRED", ~(j \in alerted \cup missed),
                         ~(\E e \in outbox : e.job = j /\ e.status = Alert)
                  PROVE  InQueue(j)
      BY DEF AdminsAreAlerted
    <2>1. Announced(j)
      BY <1>1 DEF StreamInvariant, AlertComes, Obliged
    <2>. QED  BY <2>1 DEF Announced, InQueue
  <1>. QED  BY <1>1, StreamsKeepInvariant, PTL

(* What is published, followed and alerted keeps its types.                *)
THEOREM StreamTypes == StreamSpec => []StreamTypeOK
  <1>1. StreamInvariant => StreamTypeOK
    BY DEF StreamInvariant
  <1>. QED  BY <1>1, StreamsKeepInvariant, PTL
=============================================================================
