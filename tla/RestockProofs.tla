---------------------------- MODULE RestockProofs ----------------------------
(***************************************************************************)
(* What TLAPS proves of Restock, for any number of rejections, books,      *)
(* tasks, reviews, retries and faults: a rejection is proposed once from   *)
(* the one answer of the agent, a book waits for one safety stock proposal *)
(* at a time, a decision stays, an approval orders no more than aimed at,  *)
(* and the stock of a book is what it was, plus arrivals, less sales.      *)
(***************************************************************************)
EXTENDS RestockInvariant, Sums, SequenceTheorems, FiniteSetTheorems, TLAPS

(* Nothing is ordered in states that no order is in.                       *)
LEMMA EmptySum ==
  ASSUME NEW b, NEW S,
         {i \in Proposals : proposals[i].book = b /\ proposals[i].order \in S} = {}
  PROVE  OrderedIn(b, S) = 0
PROOF
  BY SumEmpty DEF OrderedIn

(* Approval receives what it orders at once, so nothing is ever on its way:*)
(* the term pending_auto_po_quantity is zero in every committed state.     *)
LEMMA NothingOnItsWay ==
  ASSUME TypeOK, NEW b \in Books PROVE PendingAutoPo(b) = 0
PROOF
<1> DEFINE S == {i \in Proposals : proposals[i].book = b /\ proposals[i].order \in InProgress}
<1>1. ASSUME NEW i \in Proposals PROVE proposals[i].order \in {"NONE", "RECEIVED"}
  <2>1. proposals[i] \in Proposal
    BY <1>1, ElementOfSeq DEF TypeOK, Proposals
  <2> QED BY <2>1 DEF Proposal
<1>2. S = {}
  BY <1>1 DEF InProgress
<1> QED BY <1>2, EmptySum DEF PendingAutoPo

(* A snapshot is a request, and tells the stock as it is.                  *)
LEMMA SnapshotIsRequest ==
  ASSUME TypeOK, NEW b \in Books
  PROVE Snapshot(b) \in Request /\ Snapshot(b).stock = stock[b]
PROOF
<1>1. stock[b] \in Nat
  BY DEF TypeOK
<1> QED BY <1>1, NothingOnItsWay DEF Snapshot, Request

(* Appending to the proposals adds one row and leaves the others alone.    *)
LEMMA AppendedRow ==
  ASSUME NEW S, NEW s \in Seq(S), NEW e \in S
  PROVE  /\ Append(s, e) \in Seq(S)
         /\ Len(Append(s, e)) = Len(s) + 1
         /\ DOMAIN Append(s, e) = DOMAIN s \cup {Len(s) + 1}
         /\ Len(s) + 1 \notin DOMAIN s
         /\ Len(s) \in Nat
         /\ \A i \in DOMAIN s : Append(s, e)[i] = s[i]
         /\ Append(s, e)[Len(s) + 1] = e
PROOF
<1>1. Len(s) \in Nat /\ DOMAIN s = 1..Len(s)
  BY LenProperties
<1>2. /\ Append(s, e) \in Seq(S)
      /\ Len(Append(s, e)) = Len(s) + 1
      /\ \A i \in 1..Len(s) : Append(s, e)[i] = s[i]
      /\ Append(s, e)[Len(s) + 1] = e
  BY AppendProperties
<1>3. DOMAIN Append(s, e) = 1..(Len(s) + 1)
  BY <1>2, LenProperties
<1> QED BY <1>1, <1>2, <1>3

(* Changing a row keeps the sequence a sequence.                           *)
LEMMA ChangedRow ==
  ASSUME NEW S, NEW s \in Seq(S), NEW i \in DOMAIN s, NEW e \in S
  PROVE  LET t == [s EXCEPT ![i] = e] IN
         /\ t \in Seq(S) /\ Len(t) = Len(s) /\ DOMAIN t = DOMAIN s
         /\ \A k \in DOMAIN s : t[k] = IF k = i THEN e ELSE s[k]
PROOF
<1> DEFINE t == [s EXCEPT ![i] = e]
<1>1. s \in [1..Len(s) -> S] /\ DOMAIN s = 1..Len(s) /\ Len(s) \in Nat
  BY LenProperties, SeqDef
<1>2. t \in [1..Len(s) -> S]
  BY <1>1
<1>3. t \in Seq(S) /\ Len(t) = Len(s)
  BY <1>1, <1>2, IsASeq, LenProperties
<1> QED BY <1>1, <1>2, <1>3

(* The rows of the two tables of proposals and alerts.                     *)
LEMMA RowsAreProposals ==
  ASSUME TypeOK
  PROVE  /\ \A i \in Proposals : proposals[i] \in Proposal /\ alerts[i] \in Nat
         /\ DOMAIN alerts = Proposals
PROOF
<1>1. /\ \A i \in 1..Len(proposals) : proposals[i] \in Proposal
      /\ \A i \in 1..Len(alerts) : alerts[i] \in Nat
      /\ DOMAIN proposals = 1..Len(proposals) /\ DOMAIN alerts = 1..Len(alerts)
  BY ElementOfSeq, LenProperties DEF TypeOK
<1> QED BY <1>1 DEF Proposals, TypeOK

(* A retried task has a message like the first.                            *)
LEMMA RetriedMessage ==
  ASSUME NEW m \in MessageType PROVE Again(m) \subseteq MessageType
PROOF
  BY DEF Again, MessageType

-----------------------------------------------------------------------------
(* Steps that leave the tables alone.                                      *)

(* A task that takes a message, comes to its end or is given up.           *)
Rests(w, r) ==
  /\ r \in WorkerState /\ r.pc \in {"idle", "start", "ack"}
  /\ r.pc # "idle" => r.msg \in MessageType
  /\ worker' = [worker EXCEPT ![w] = r]
  /\ queue' \in SUBSET MessageType /\ faults' \in Nat
  /\ UNCHANGED <<log, proposals, alerts, shelf, dispatched, batches, admin, answered>>

(* A task that comes to rest disturbs nothing.                             *)
LEMMA RestingKeeps ==
  ASSUME TaskInvariant, NEW w \in Workers, NEW r, Rests(w, r)
  PROVE  TaskInvariant'
PROOF
<1> USE DEF TaskInvariant
<1>1. /\ worker \in [Workers -> WorkerState] /\ worker' \in [Workers -> WorkerState]
      /\ \A v \in Workers : worker'[v] = IF v = w THEN r ELSE worker[v]
      /\ r.pc \in {"idle", "start", "ack"}
      /\ r.pc # "idle" => r.msg \in MessageType
  BY DEF Rests, TypeOK
<1>2. UNCHANGED <<log, proposals, alerts, stock, reserved, sales, arrived, dispatched,
                  batches, admin, answered>>
  BY DEF Rests, shelf
<1>3. TypeOK'
  BY <1>1, <1>2 DEF Rests, TypeOK
<1>4. TasksAtWork'
  BY <1>1 DEF TasksAtWork, Asked
<1>5. LogsAgree' /\ AnsweredOnce'
  BY <1>2 DEF LogsAgree, AnsweredOnce
<1>6. OneProposalPerRejection' /\ ProposalIsTheAnswer' /\ AlertedOnce'
  BY <1>2 DEF OneProposalPerRejection, ProposalIsTheAnswer, AlertedOnce, Proposals
<1>7. CallsAgree' /\ OneCaller'
  BY <1>1, <1>2 DEF CallsAgree, OneCaller, Asked, About
<1>8. BooksExclude'
  BY <1>1, <1>2 DEF BooksExclude, HoldsBook, DecidesOn
<1>9. ReviewsExclude'
  BY <1>2 DEF ReviewsExclude, Proposals
<1>10. StockNotGrown'
  BY <1>1, <1>2 DEF StockNotGrown, About
<1>11. SafetyAlone'
  BY <1>1, <1>2 DEF SafetyAlone, SafetyPending, Proposals, About
<1>12. AlertsAgree'
  BY <1>1, <1>2 DEF AlertsAgree, Proposals
<1> QED BY <1>3, <1>4, <1>5, <1>6, <1>7, <1>8, <1>9, <1>10, <1>11, <1>12

(* A message more in the queue.                                            *)
LEMMA QueueingKeeps ==
  ASSUME TaskInvariant,
         queue' \in SUBSET MessageType, dispatched' \in [Jobs -> Nat], batches' \in Nat,
         UNCHANGED <<log, proposals, alerts, shelf, worker, admin, answered, faults>>
  PROVE  TaskInvariant'
PROOF
<1> USE DEF TaskInvariant
<1>1. UNCHANGED <<log, proposals, alerts, stock, reserved, sales, arrived, worker,
                  admin, answered, faults>>
  BY DEF shelf
<1>2. TypeOK'
  BY <1>1 DEF TypeOK
<1>3. TasksAtWork' /\ LogsAgree' /\ CallsAgree' /\ OneCaller'
  BY <1>1 DEF TasksAtWork, LogsAgree, CallsAgree, OneCaller, About
<1>4. BooksExclude' /\ ReviewsExclude' /\ StockNotGrown'
  BY <1>1 DEF BooksExclude, HoldsBook, DecidesOn, ReviewsExclude, StockNotGrown,
     Proposals, About
<1>5. SafetyAlone' /\ AlertsAgree'
  BY <1>1 DEF SafetyAlone, SafetyPending, AlertsAgree, Proposals, About
<1>6. OneProposalPerRejection' /\ AnsweredOnce' /\ ProposalIsTheAnswer' /\ AlertedOnce'
  BY <1>1 DEF OneProposalPerRejection, AnsweredOnce, ProposalIsTheAnswer, AlertedOnce,
     Proposals
<1> QED BY <1>2, <1>3, <1>4, <1>5, <1>6

(* The safety stock task locks the book that nobody else has locked.       *)
LEMMA LockBookKeeps ==
  ASSUME TaskInvariant, NEW w \in Workers, LockBook(w)
  PROVE  TaskInvariant'
PROOF
<1> USE DEF TaskInvariant
<1>1. /\ worker \in [Workers -> WorkerState]
      /\ worker' = [worker EXCEPT ![w].pc = "checking"]
      /\ worker[w].pc = "start" /\ worker[w].msg.kind = "safety"
      /\ worker[w].msg \in MessageType
      /\ BookFree(About(w))
  BY DEF LockBook, At, Goto, TypeOK, TasksAtWork
<1>2. UNCHANGED <<log, proposals, alerts, stock, reserved, sales, arrived, queue,
                  dispatched, batches, admin, answered, faults>>
  BY DEF LockBook, shelf
<1>3. /\ worker' \in [Workers -> WorkerState]
      /\ \A v \in Workers : v # w => worker'[v] = worker[v]
      /\ worker'[w].pc = "checking" /\ worker'[w].msg = worker[w].msg
  BY <1>1 DEF WorkerState
<1>4. TypeOK'
  BY <1>2, <1>3 DEF TypeOK
<1>5. TasksAtWork'
  BY <1>1, <1>3 DEF TasksAtWork, Asked
<1>6. LogsAgree' /\ AnsweredOnce' /\ OneProposalPerRejection' /\ ProposalIsTheAnswer'
        /\ AlertedOnce'
  BY <1>2 DEF LogsAgree, AnsweredOnce, OneProposalPerRejection, ProposalIsTheAnswer,
     AlertedOnce, Proposals
<1>7. CallsAgree' /\ OneCaller'
  BY <1>2, <1>3 DEF CallsAgree, OneCaller, Asked, About
<1>8. BooksExclude'
  <2>1. \A v \in Workers : ~HoldsBook(v, About(w))
    BY <1>1 DEF BookFree
  <2>2. \A a \in Admins : ~DecidesOn(a, About(w))
    BY <1>1 DEF BookFree
  <2>3. \A v \in Workers : \A b \in Books :
          HoldsBook(v, b)' => IF v = w THEN b = About(w) ELSE HoldsBook(v, b)
    BY <1>3 DEF HoldsBook, About
  <2>4. \A a \in Admins : \A b \in Books : DecidesOn(a, b)' <=> DecidesOn(a, b)
    BY <1>2 DEF DecidesOn
  <2> QED BY <2>1, <2>2, <2>3, <2>4 DEF BooksExclude
<1>9. ReviewsExclude'
  BY <1>2 DEF ReviewsExclude, Proposals
<1>10. StockNotGrown' /\ SafetyAlone'
  BY <1>2, <1>3 DEF StockNotGrown, SafetyAlone, SafetyPending, Proposals, About
<1>11. AlertsAgree'
  BY <1>2, <1>3 DEF AlertsAgree, Proposals
<1> QED BY <1>4, <1>5, <1>6, <1>7, <1>8, <1>9, <1>10, <1>11

(* It asks only when the book has no pending proposal.                     *)
LEMMA AskKeeps ==
  ASSUME TaskInvariant, NEW w \in Workers, AskForSafetyStock(w)
  PROVE  TaskInvariant'
PROOF
<1> USE DEF TaskInvariant
<1> DEFINE b == About(w)
<1>1. /\ worker \in [Workers -> WorkerState]
      /\ worker' = [worker EXCEPT ![w].pc = "asking", ![w].request = Snapshot(b)]
      /\ worker[w].pc = "checking" /\ worker[w].msg.kind = "safety"
      /\ worker[w].msg \in MessageType
      /\ SafetyPending(b) = {}
  BY DEF AskForSafetyStock, At, TypeOK, TasksAtWork
<1>2. UNCHANGED <<log, proposals, alerts, stock, reserved, sales, arrived, queue,
                  dispatched, batches, admin, answered, faults>>
  BY DEF AskForSafetyStock, shelf
<1>3. b \in Books
  BY <1>1 DEF MessageType, About
<1>4. Snapshot(b) \in Request /\ Snapshot(b).stock = stock[b] /\ stock[b] \in Nat
  BY <1>3, SnapshotIsRequest DEF TypeOK
<1>5. /\ worker' \in [Workers -> WorkerState]
      /\ \A v \in Workers : v # w => worker'[v] = worker[v]
      /\ worker'[w].pc = "asking" /\ worker'[w].msg = worker[w].msg
      /\ worker'[w].request = Snapshot(b)
  BY <1>1, <1>4 DEF WorkerState
<1>6. TypeOK'
  BY <1>2, <1>5 DEF TypeOK
<1>7. TasksAtWork'
  BY <1>1, <1>5 DEF TasksAtWork, Asked
<1>8. LogsAgree' /\ AnsweredOnce' /\ OneProposalPerRejection' /\ ProposalIsTheAnswer'
        /\ AlertedOnce'
  BY <1>2 DEF LogsAgree, AnsweredOnce, OneProposalPerRejection, ProposalIsTheAnswer,
     AlertedOnce, Proposals
<1>9. CallsAgree' /\ OneCaller'
  BY <1>2, <1>5 DEF CallsAgree, OneCaller, Asked, About
<1>10. BooksExclude'
  <2>1. \A v \in Workers : \A c \in Books : HoldsBook(v, c)' <=> HoldsBook(v, c)
    BY <1>1, <1>5 DEF HoldsBook
  <2>2. \A a \in Admins : \A c \in Books : DecidesOn(a, c)' <=> DecidesOn(a, c)
    BY <1>2 DEF DecidesOn
  <2> QED BY <2>1, <2>2 DEF BooksExclude
<1>11. ReviewsExclude'
  BY <1>2 DEF ReviewsExclude, Proposals
<1>12. StockNotGrown'
  BY <1>2, <1>4, <1>5 DEF StockNotGrown, About
<1>13. SafetyAlone'
  BY <1>1, <1>2, <1>5 DEF SafetyAlone, SafetyPending, Proposals, About
<1>14. AlertsAgree'
  BY <1>2, <1>5 DEF AlertsAgree, Proposals
<1> QED BY <1>6, <1>7, <1>8, <1>9, <1>10, <1>11, <1>12, <1>13, <1>14

-----------------------------------------------------------------------------
(* Steps that write the log.                                               *)

(* What a task that writes the log of job j may make of the log, of its    *)
(* own state and of the number of answers.                                 *)
Writes(w, j, e, r) ==
  /\ e \in LogEntry /\ r \in WorkerState
  /\ e.status \in {"NONE", "FAILED"} => answered'[j] = 0
  /\ e.status \in Saved <=> e.response # None
  /\ e.request \in Request
  /\ r.pc \in Asked \cup {"saving", "idle"}
  /\ r.pc # "idle" => /\ r.msg \in MessageType /\ r.msg.kind = "rejected"
                      /\ r.msg.about = j
                      /\ e.request = r.request
  /\ r.pc \in Asked => e.status = "GENERATING"
  /\ r.pc = "calling" => answered'[j] = 0
  /\ r.pc = "saving" => e.status \in Saved /\ e.response = r.answer
  /\ answered' \in [Jobs -> Nat] /\ answered'[j] <= 1
  /\ \A k \in Jobs : k # j => answered'[k] = answered[k]
  /\ log' = [log EXCEPT ![j] = e]
  /\ worker' = [worker EXCEPT ![w] = r]
  /\ queue' \in SUBSET MessageType

(* A job whose answer is not saved has no proposal, and no task is saving  *)
(* one for it.                                                             *)
LEMMA UnsavedIsAlone ==
  ASSUME TaskInvariant, NEW j \in Jobs, log[j].status \notin Saved
  PROVE  /\ ~Proposed(j)
         /\ \A v \in Workers : worker[v].pc = "saving" => About(v) # j
PROOF
<1>1. \A i \in Proposals : proposals[i].job # j
  <2> SUFFICES ASSUME NEW i \in Proposals, proposals[i].job = j PROVE FALSE
    OBVIOUS
  <2>1. proposals[i].job # None
    BY NoneIsNothing
  <2> DEFINE saved == [status |-> "COMPLETED",
                       request |-> [stock |-> proposals[i].stock,
                                    pending |-> proposals[i].pending],
                       response |-> proposals[i].recommended]
  <2>2. log[j] = saved
    BY <2>1 DEF TaskInvariant, ProposalIsTheAnswer
  <2>3. log[j].status = "COMPLETED"
    BY <2>2
  <2> QED BY <2>3 DEF Saved
<1> QED BY <1>1 DEF TaskInvariant, CallsAgree, Proposed, RowsOf

(* One task writes the log of a job that no other task is asking about.    *)
LEMMA WritingKeeps ==
  ASSUME TaskInvariant, NEW w \in Workers, NEW j \in Jobs, NEW e, NEW r, Writes(w, j, e, r),
         log[j].status \notin Saved,
         \A v \in Workers : worker[v].pc \in Asked /\ About(v) = j => v = w,
         UNCHANGED <<proposals, alerts, shelf, dispatched, batches, admin, faults>>
  PROVE  TaskInvariant'
PROOF
<1> USE DEF TaskInvariant
<1>1. /\ worker \in [Workers -> WorkerState] /\ worker' \in [Workers -> WorkerState]
      /\ \A v \in Workers : worker'[v] = IF v = w THEN r ELSE worker[v]
      /\ log' \in [Jobs -> LogEntry]
      /\ \A k \in Jobs : log'[k] = IF k = j THEN e ELSE log[k]
  BY DEF Writes, TypeOK
<1>2. UNCHANGED <<proposals, alerts, stock, reserved, sales, arrived, dispatched,
                  batches, admin, faults>>
  BY DEF shelf
<1>3. /\ \A i \in Proposals : proposals[i].job # j
      /\ \A v \in Workers : worker[v].pc = "saving" => About(v) # j
  BY UnsavedIsAlone DEF Proposed, RowsOf
<1>4. TypeOK'
  BY <1>1, <1>2 DEF TypeOK, Writes
<1>5. TasksAtWork'
  BY <1>1 DEF TasksAtWork, Writes, Asked
<1>6. LogsAgree'
  BY <1>1 DEF LogsAgree, Writes
<1>7. AnsweredOnce'
  BY <1>1 DEF AnsweredOnce, Writes
<1>8. CallsAgree'
  <2> SUFFICES ASSUME NEW v \in Workers
               PROVE /\ worker'[v].pc \in Asked =>
                          /\ log'[About(v)'].status = "GENERATING"
                          /\ log'[About(v)'].request = worker'[v].request
                     /\ worker'[v].pc = "calling" => answered'[About(v)'] = 0
                     /\ worker'[v].pc = "saving" =>
                          /\ log'[About(v)'].status \in Saved
                          /\ log'[About(v)'].request = worker'[v].request
                          /\ log'[About(v)'].response = worker'[v].answer
    BY DEF CallsAgree
  <2>1. CASE v = w
    BY <2>1, <1>1 DEF Writes, About, Asked
  <2>2. CASE v # w
    <3>1. worker'[v] = worker[v] /\ About(v)' = About(v)
      BY <2>2, <1>1 DEF About
    <3>2. worker[v].pc \in Asked \cup {"saving"} => About(v) \in Jobs /\ About(v) # j
      BY <2>2, <1>3 DEF TasksAtWork, Asked, MessageType, About
    <3>3. worker[v].pc \in Asked \cup {"saving"} =>
            log'[About(v)] = log[About(v)] /\ answered'[About(v)] = answered[About(v)]
      BY <3>2, <1>1 DEF Writes
    <3> QED BY <3>1, <3>3 DEF CallsAgree, Asked
  <2> QED BY <2>1, <2>2
<1>9. OneCaller'
  <2>1. \A v \in Workers : v # w => worker'[v] = worker[v] /\ About(v)' = About(v)
    BY <1>1 DEF About
  <2>2. worker'[w].pc \in Asked => About(w)' = j
    BY <1>1 DEF Writes, About, Asked
  <2> QED BY <2>1, <2>2 DEF OneCaller
<1>10. BooksExclude'
  <2>1. \A v \in Workers : \A b \in Books : HoldsBook(v, b)' => HoldsBook(v, b)
    BY <1>1 DEF HoldsBook, Writes, Asked
  <2>2. \A a \in Admins : \A b \in Books : DecidesOn(a, b)' <=> DecidesOn(a, b)
    BY <1>2 DEF DecidesOn
  <2> QED BY <2>1, <2>2 DEF BooksExclude
<1>11. ReviewsExclude'
  BY <1>2 DEF ReviewsExclude, Proposals
<1>12. StockNotGrown'
  BY <1>1, <1>2 DEF StockNotGrown, About, Writes, Asked
<1>13. SafetyAlone'
  BY <1>1, <1>2 DEF SafetyAlone, SafetyPending, Proposals, About, Writes, Asked
<1>14. AlertsAgree'
  BY <1>1, <1>2 DEF AlertsAgree, Proposals, Writes, Asked
<1>15. OneProposalPerRejection' /\ AlertedOnce'
  BY <1>2 DEF OneProposalPerRejection, AlertedOnce, Proposals
<1>16. ProposalIsTheAnswer'
  <2>1. \A i \in Proposals : proposals[i].job \in Jobs \cup {None}
    BY RowsAreProposals DEF Proposal
  <2> QED BY <1>1, <1>2, <1>3, <2>1 DEF ProposalIsTheAnswer, Proposals
<1> QED BY <1>4, <1>5, <1>6, <1>7, <1>8, <1>9, <1>10, <1>11, <1>12, <1>13, <1>14,
           <1>15, <1>16

(* What is known of a task that handles a rejection.                       *)
LEMMA RejectionTask ==
  ASSUME TaskInvariant, NEW w \in Workers, worker[w].pc # "idle",
         worker[w].msg.kind = "rejected"
  PROVE  /\ worker \in [Workers -> WorkerState] /\ worker[w] \in WorkerState
         /\ worker[w].msg \in MessageType /\ About(w) = worker[w].msg.about
         /\ About(w) \in Jobs /\ BookOf[About(w)] \in Books
         /\ log \in [Jobs -> LogEntry] /\ log[About(w)] \in LogEntry
         /\ answered \in [Jobs -> Nat]
         /\ queue \in SUBSET MessageType
PROOF
<1>1. worker[w].msg \in MessageType
  BY DEF TaskInvariant, TasksAtWork
<1>2. About(w) \in Jobs
  BY <1>1 DEF MessageType, About
<1> QED BY <1>1, <1>2, JobConstants DEF TaskInvariant, TypeOK, About

(* The request is written before the agent is asked: by one task only.     *)
LEMMA BeginGenerationKeeps ==
  ASSUME TaskInvariant, NEW w \in Workers, BeginGeneration(w)
  PROVE  TaskInvariant'
PROOF
<1> DEFINE j == About(w)
           request == IF log[j].status = "FAILED" THEN log[j].request ELSE Snapshot(BookOf[j])
           e == [status |-> "GENERATING", request |-> request, response |-> None]
           r == [worker[w] EXCEPT !.pc = "calling", !.request = request]
<1>1. /\ worker[w].pc = "start" /\ worker[w].msg.kind = "rejected"
      /\ log[j].response = None /\ log[j].status # "GENERATING"
      /\ log' = [log EXCEPT ![j] = e]
      /\ worker' = [worker EXCEPT ![w].pc = "calling", ![w].request = request]
  BY DEF BeginGeneration, At, Generating
<1>2. UNCHANGED <<proposals, alerts, shelf, queue, dispatched, batches, admin,
                  answered, faults>>
  BY DEF BeginGeneration
<1>3. /\ worker \in [Workers -> WorkerState] /\ worker[w] \in WorkerState
      /\ worker[w].msg \in MessageType /\ About(w) = worker[w].msg.about
      /\ j \in Jobs /\ BookOf[j] \in Books
      /\ log[j] \in LogEntry /\ answered \in [Jobs -> Nat] /\ queue \in SUBSET MessageType
  BY <1>1, RejectionTask
<1>4. log[j].status \in {"NONE", "FAILED"} /\ answered[j] = 0
  BY <1>1, <1>3 DEF TaskInvariant, LogsAgree, Saved, LogEntry
<1>5. request \in Request
  <2>1. log[j].status = "FAILED" => log[j].request \in Request
    BY <1>3 DEF TaskInvariant, LogsAgree
  <2>2. Snapshot(BookOf[j]) \in Request
    BY <1>3, SnapshotIsRequest DEF TaskInvariant
  <2> QED BY <2>1, <2>2
<1> HIDE DEF request
<1>6. worker' = [worker EXCEPT ![w] = r]
  BY <1>1, <1>3 DEF WorkerState
<1>7. e \in LogEntry /\ r \in WorkerState
  BY <1>3, <1>5 DEF LogEntry, WorkerState
<1>8. Writes(w, j, e, r)
  <2>1. /\ r.pc = "calling" /\ r.msg = worker[w].msg /\ r.request = request
        /\ e.status = "GENERATING" /\ e.request = request /\ e.response = None
    BY <1>3 DEF WorkerState
  <2> HIDE DEF e, r
  <2>2. /\ e.status \in {"NONE", "FAILED"} => answered'[j] = 0
        /\ e.status \in Saved <=> e.response # None
        /\ e.request \in Request
    BY <2>1, <1>2, <1>3, <1>4, <1>5, <1>1 DEF Saved
  <2>3. /\ r.pc \in Asked \cup {"saving", "idle"}
        /\ r.msg.kind = "rejected" /\ r.msg.about = j /\ e.request = r.request
        /\ r.msg \in MessageType
    BY <2>1, <1>2, <1>3, <1>4, <1>5, <1>1 DEF Asked
  <2>4. /\ answered' \in [Jobs -> Nat] /\ answered'[j] <= 1
        /\ r.pc = "calling" => answered'[j] = 0
        /\ \A k \in Jobs : k # j => answered'[k] = answered[k]
    BY <2>1, <1>2, <1>3, <1>4, <1>5, <1>1
  <2> QED BY <2>1, <2>2, <2>3, <2>4, <1>1, <1>2, <1>3, <1>6, <1>7 DEF Writes
<1>9. \A v \in Workers : worker[v].pc \in Asked => About(v) # j
  BY <1>1 DEF TaskInvariant, CallsAgree
<1>10. log[j].status \notin Saved
  BY <1>4 DEF Saved
<1> QED BY <1>2, <1>3, <1>8, <1>9, <1>10, WritingKeeps

(* The first answer is the only one.                                       *)
LEMMA AgentAnswersKeeps ==
  ASSUME TaskInvariant, NEW w \in Workers, NEW n \in 0..MaxAnswer, AgentAnswers(w, n)
  PROVE  TaskInvariant'
PROOF
<1> DEFINE j == About(w)
           e == log[j]
           r == [worker[w] EXCEPT !.pc = "answered", !.answer = n]
<1>1. /\ worker[w].pc = "calling" /\ worker[w].msg.kind = "rejected"
      /\ answered' = [answered EXCEPT ![j] = @ + 1]
      /\ worker' = [worker EXCEPT ![w].pc = "answered", ![w].answer = n]
  BY DEF AgentAnswers, At
<1>2. UNCHANGED <<log, proposals, alerts, shelf, queue, dispatched, batches, admin, faults>>
  BY DEF AgentAnswers
<1>3. /\ worker \in [Workers -> WorkerState] /\ worker[w] \in WorkerState
      /\ worker[w].msg \in MessageType /\ About(w) = worker[w].msg.about
      /\ j \in Jobs /\ log \in [Jobs -> LogEntry]
      /\ e \in LogEntry /\ answered \in [Jobs -> Nat] /\ queue \in SUBSET MessageType
  BY <1>1, RejectionTask
<1>4. /\ e.status = "GENERATING" /\ e.request = worker[w].request /\ answered[j] = 0
      /\ e.response = None /\ e.request \in Request
      /\ \A v \in Workers : worker[v].pc \in Asked /\ About(v) = j => v = w
  BY <1>1, <1>3 DEF TaskInvariant, CallsAgree, LogsAgree, OneCaller, Asked, Saved
<1>5. /\ worker' = [worker EXCEPT ![w] = r] /\ log' = [log EXCEPT ![j] = e]
      /\ r \in WorkerState
  <2>1. n \in Nat
    BY Bounds
  <2>2. r \in WorkerState
    BY <2>1, <1>3 DEF WorkerState
  <2>3. worker' = [worker EXCEPT ![w] = r]
    BY <1>1, <1>3 DEF WorkerState
  <2>4. log' = [log EXCEPT ![j] = e]
    BY <1>2, <1>3
  <2> QED BY <2>2, <2>3, <2>4
<1>6. Writes(w, j, e, r)
  <2>1. r.pc = "answered" /\ r.msg = worker[w].msg /\ r.request = worker[w].request
    BY <1>3 DEF WorkerState
  <2> HIDE DEF e, r
  <2>2. /\ e.status \in {"NONE", "FAILED"} => answered'[j] = 0
        /\ e.status \in Saved <=> e.response # None
        /\ e.request \in Request
    BY <2>1, <1>1, <1>3, <1>4 DEF Saved
  <2>3. /\ r.pc \in Asked \cup {"saving", "idle"}
        /\ r.msg.kind = "rejected" /\ r.msg.about = j /\ e.request = r.request
        /\ r.msg \in MessageType
    BY <2>1, <1>1, <1>3, <1>4 DEF Asked
  <2>4. /\ answered' \in [Jobs -> Nat] /\ answered'[j] <= 1
        /\ r.pc = "calling" => answered'[j] = 0
        /\ \A k \in Jobs : k # j => answered'[k] = answered[k]
    BY <2>1, <1>1, <1>3, <1>4
  <2> QED BY <2>1, <2>2, <2>3, <2>4, <1>2, <1>3, <1>4, <1>5 DEF Writes
<1>7. log[j].status \notin Saved
  BY <1>4 DEF Saved
<1> QED BY <1>2, <1>3, <1>4, <1>6, <1>7, WritingKeeps

(* A failure is written where there was no answer.                         *)
LEMMA AgentFailsKeeps ==
  ASSUME TaskInvariant, NEW w \in Workers, AgentFails(w)
  PROVE  TaskInvariant'
PROOF
<1> DEFINE j == About(w)
           e == [status |-> "FAILED", request |-> worker[w].request, response |-> None]
           r == WorkerIdle
<1>1. /\ worker[w].pc = "calling" /\ worker[w].msg.kind = "rejected"
      /\ log' = [log EXCEPT ![j] = e]
      /\ Retry(w)
  BY DEF AgentFails, At, AfterFailure
<1>2. UNCHANGED <<proposals, alerts, shelf, dispatched, batches, admin, answered, faults>>
  BY DEF AgentFails
<1>3. /\ worker \in [Workers -> WorkerState] /\ worker[w].msg \in MessageType
      /\ j \in Jobs /\ answered \in [Jobs -> Nat] /\ queue \in SUBSET MessageType
  BY <1>1, RejectionTask
<1>4. /\ log[j].status = "GENERATING" /\ log[j].request = worker[w].request
      /\ answered[j] = 0 /\ worker[w].request \in Request
      /\ \A v \in Workers : worker[v].pc \in Asked /\ About(v) = j => v = w
  BY <1>1, <1>3 DEF TaskInvariant, CallsAgree, LogsAgree, OneCaller, Asked
<1>5. r \in WorkerState /\ e \in LogEntry
  BY <1>4 DEF WorkerState, WorkerIdle, LogEntry
<1>6. worker' = [worker EXCEPT ![w] = r] /\ queue' \in SUBSET MessageType
  BY <1>1, <1>3, RetriedMessage DEF Retry
<1>7. Writes(w, j, e, r)
  BY <1>1, <1>2, <1>3, <1>4, <1>5, <1>6 DEF Writes, Saved, Asked, WorkerIdle
<1>8. log[j].status \notin Saved
  BY <1>4 DEF Saved
<1> QED BY <1>2, <1>3, <1>4, <1>7, <1>8, WritingKeeps

(* The answer is saved next to the request it was given for.               *)
LEMMA SaveAnswerKeeps ==
  ASSUME TaskInvariant, NEW w \in Workers, SaveAnswer(w)
  PROVE  TaskInvariant'
PROOF
<1> DEFINE j == About(w)
           e == [status |-> "RESPONSE_SAVED", request |-> worker[w].request,
                 response |-> worker[w].answer]
           r == [worker[w] EXCEPT !.pc = "saving"]
<1>1. /\ worker[w].pc = "answered" /\ worker[w].msg.kind = "rejected"
      /\ log' = [log EXCEPT ![j] = e]
      /\ worker' = [worker EXCEPT ![w].pc = "saving"]
  BY DEF SaveAnswer, At, Goto
<1>2. UNCHANGED <<proposals, alerts, shelf, queue, dispatched, batches, admin,
                  answered, faults>>
  BY DEF SaveAnswer
<1>3. /\ worker \in [Workers -> WorkerState] /\ worker[w] \in WorkerState
      /\ worker[w].msg \in MessageType /\ About(w) = worker[w].msg.about
      /\ j \in Jobs /\ answered \in [Jobs -> Nat] /\ queue \in SUBSET MessageType
  BY <1>1, RejectionTask
<1>4. /\ log[j].status = "GENERATING" /\ log[j].request = worker[w].request
      /\ worker[w].request \in Request /\ worker[w].answer \in Nat
      /\ answered[j] <= 1
      /\ \A v \in Workers : worker[v].pc \in Asked /\ About(v) = j => v = w
  BY <1>1, <1>3 DEF TaskInvariant, CallsAgree, LogsAgree, OneCaller, Asked, AnsweredOnce,
     WorkerState
<1>5. worker' = [worker EXCEPT ![w] = r] /\ r \in WorkerState /\ e \in LogEntry
  BY <1>1, <1>3, <1>4 DEF WorkerState, LogEntry
<1>6. worker[w].answer # None
  BY <1>4, NoneIsNothing
<1>7. Writes(w, j, e, r)
  BY <1>1, <1>2, <1>3, <1>4, <1>5, <1>6 DEF Writes, Saved, Asked, WorkerState
<1>8. log[j].status \notin Saved
  BY <1>4 DEF Saved
<1> QED BY <1>2, <1>3, <1>4, <1>7, <1>8, WritingKeeps

-----------------------------------------------------------------------------
(* Steps that insert a proposal.                                           *)

(* What is inserted for a rejection is what its log says; what is inserted *)
(* without one is for a book that has no pending proposal, by the only     *)
(* task that holds it.                                                     *)
Inserts(w, j, b, request, answer) ==
  /\ Insert(w, j, b, request, answer)
  /\ IF j = None
     THEN /\ SafetyPending(b) = {}
          /\ \A v \in Workers : worker[v].pc = "asking" /\ About(v) = b => v = w
          /\ UNCHANGED log
     ELSE /\ j \in Jobs /\ ~Proposed(j)
          /\ log[j].status \in Saved
          /\ log[j].request = request /\ log[j].response = answer
          /\ log' = [log EXCEPT ![j].status = "COMPLETED"]
  /\ UNCHANGED <<shelf, queue, dispatched, batches, admin, answered, faults>>

(* Inserting keeps the invariant.                                          *)
LEMMA InsertingKeeps ==
  ASSUME TaskInvariant, NEW w \in Workers, NEW j \in Jobs \cup {None}, NEW b \in Books,
         NEW request \in Request, NEW answer \in Nat, worker[w].msg \in MessageType,
         Inserts(w, j, b, request, answer)
  PROVE  TaskInvariant'
PROOF
<1> USE DEF TaskInvariant
<1> DEFINE p == NewProposal(j, b, request, answer)
           new == Len(proposals) + 1
           r == [WorkerIdle EXCEPT !.msg = worker[w].msg,
                   !.pc = IF answer = 0 THEN "ack" ELSE "notify", !.row = new]
<1>1. /\ proposals' = Append(proposals, p) /\ alerts' = Append(alerts, 0)
      /\ worker' = [worker EXCEPT ![w] = r]
      /\ UNCHANGED <<stock, reserved, sales, arrived, queue, dispatched, batches, admin,
                      answered, faults>>
  BY DEF Inserts, Insert, shelf
<1>2. /\ p \in Proposal
      /\ p.job = j /\ p.book = b /\ p.stock = request.stock /\ p.pending = request.pending
      /\ p.recommended = answer
      /\ p.status = IF answer = 0 THEN "NOT_REQUIRED" ELSE "PENDING"
  BY DEF NewProposal, Proposal, Request
<1> HIDE DEF p
<1>3. /\ proposals' \in Seq(Proposal) /\ Len(proposals') = new
      /\ DOMAIN proposals' = Proposals \cup {new} /\ new \notin Proposals
      /\ \A i \in Proposals : proposals'[i] = proposals[i]
      /\ proposals'[new] = p
      /\ new \in Nat
  BY <1>1, <1>2, AppendedRow DEF TypeOK, Proposals
<1>4. /\ alerts' \in Seq(Nat) /\ Len(alerts') = new
      /\ \A i \in Proposals : alerts'[i] = alerts[i]
      /\ alerts'[new] = 0
  <2>1. alerts \in Seq(Nat) /\ Len(alerts) = Len(proposals) /\ DOMAIN alerts = Proposals
    BY RowsAreProposals DEF TypeOK
  <2> QED BY <1>1, <2>1, AppendedRow
<1> HIDE DEF new
<1>5. /\ r \in WorkerState /\ r.pc = (IF answer = 0 THEN "ack" ELSE "notify")
      /\ r.row = new /\ r.msg = worker[w].msg
  BY <1>3 DEF WorkerState, WorkerIdle
<1> HIDE DEF r
<1>6. /\ worker \in [Workers -> WorkerState] /\ worker' \in [Workers -> WorkerState]
      /\ \A v \in Workers : worker'[v] = IF v = w THEN r ELSE worker[v]
  BY <1>1, <1>5 DEF TypeOK
<1>7. /\ log' \in [Jobs -> LogEntry]
      /\ \A k \in Jobs : log'[k] =
           IF k = j THEN [log[k] EXCEPT !.status = "COMPLETED"] ELSE log[k]
  <2>1. log \in [Jobs -> LogEntry]
    BY DEF TypeOK
  <2>2. CASE j = None
    BY <2>1, <2>2, NoneIsNothing DEF Inserts
  <2>3. CASE j # None
    <3>1. log' = [log EXCEPT ![j].status = "COMPLETED"] /\ j \in Jobs
      BY <2>3 DEF Inserts
    <3> QED BY <2>1, <3>1 DEF LogEntry
  <2> QED BY <2>2, <2>3
<1>8. /\ j \in Jobs => /\ log[j].status \in Saved /\ log'[j].status = "COMPLETED"
                       /\ log'[j].request = log[j].request
                       /\ log'[j].response = log[j].response
      /\ j \in Jobs => log[j] \in LogEntry
      /\ j \in Jobs => log[j].request = request /\ log[j].response = answer /\ ~Proposed(j)
  <2>1. j \in Jobs => j # None
    BY NoneIsNothing
  <2>2. j \in Jobs => log[j] \in LogEntry
    BY DEF TypeOK
  <2> QED BY <1>7, <2>1, <2>2 DEF Inserts, LogEntry
<1>9. TypeOK'
  BY <1>1, <1>3, <1>4, <1>6, <1>7 DEF TypeOK
<1>10. TasksAtWork'
  BY <1>5, <1>6 DEF TasksAtWork, Asked
<1>11. LogsAgree'
  BY <1>1, <1>7, <1>8 DEF LogsAgree, Saved
<1>12. AnsweredOnce'
  BY <1>1 DEF AnsweredOnce
<1>13. CallsAgree'
  <2> SUFFICES ASSUME NEW v \in Workers
               PROVE /\ worker'[v].pc \in Asked =>
                          /\ log'[About(v)'].status = "GENERATING"
                          /\ log'[About(v)'].request = worker'[v].request
                     /\ worker'[v].pc = "calling" => answered'[About(v)'] = 0
                     /\ worker'[v].pc = "saving" =>
                          /\ log'[About(v)'].status \in Saved
                          /\ log'[About(v)'].request = worker'[v].request
                          /\ log'[About(v)'].response = worker'[v].answer
    BY DEF CallsAgree
  <2>1. CASE v = w
    BY <2>1, <1>5, <1>6 DEF Asked
  <2>2. CASE v # w
    <3>1. worker'[v] = worker[v] /\ About(v)' = About(v) /\ answered' = answered
      BY <2>2, <1>1, <1>6 DEF About
    <3>2. worker[v].pc \in Asked \cup {"saving"} => About(v) \in Jobs
      BY DEF TasksAtWork, Asked, MessageType, About
    <3>3. CASE About(v) = j
      BY <3>1, <3>2, <3>3, <1>8 DEF CallsAgree, Asked, Saved
    <3>4. CASE About(v) # j
      BY <3>1, <3>2, <3>4, <1>7 DEF CallsAgree, Asked
    <3> QED BY <3>3, <3>4
  <2> QED BY <2>1, <2>2
<1>14. OneCaller'
  BY <1>5, <1>6 DEF OneCaller, Asked, About
<1>15. ReviewsExclude'
  BY <1>1, <1>3 DEF ReviewsExclude, Proposals
<1>16. \A a \in Admins : admin[a].pc = "decide" =>
         proposals'[admin[a].row] = proposals[admin[a].row]
  BY <1>3 DEF ReviewsExclude
<1>17. BooksExclude'
  <2>1. \A v \in Workers : \A c \in Books : HoldsBook(v, c)' => HoldsBook(v, c)
    BY <1>5, <1>6 DEF HoldsBook
  <2>2. \A a \in Admins : \A c \in Books : DecidesOn(a, c)' <=> DecidesOn(a, c)
    BY <1>1, <1>16 DEF DecidesOn
  <2> QED BY <2>1, <2>2 DEF BooksExclude
<1>18. StockNotGrown'
  BY <1>1, <1>5, <1>6, <1>16 DEF StockNotGrown, About
<1>19. SafetyAlone'
  <2>1. \A c \in Books :
          SafetyPending(c)' \subseteq SafetyPending(c) \cup (IF j = None /\ c = b THEN {new} ELSE {})
    BY <1>2, <1>3 DEF SafetyPending, Proposals
  <2>2. j = None => SafetyPending(b) = {}
          /\ \A v \in Workers : worker[v].pc = "asking" /\ About(v) = b => v = w
    BY DEF Inserts
  <2>3. \A v \in Workers : worker'[v].pc = "asking" =>
          v # w /\ worker[v].pc = "asking" /\ About(v)' = About(v) /\ About(v) \in Books
    BY <1>5, <1>6 DEF About, TasksAtWork, MessageType
  <2>4. \A v \in Workers : worker'[v].pc = "asking" => SafetyPending(About(v))' = {}
    <3> SUFFICES ASSUME NEW v \in Workers, worker'[v].pc = "asking"
                 PROVE SafetyPending(About(v))' = {}
      OBVIOUS
    <3>1. v # w /\ worker[v].pc = "asking" /\ About(v)' = About(v) /\ About(v) \in Books
      BY <2>3
    <3>2. SafetyPending(About(v)) = {}
      BY <3>1 DEF SafetyAlone
    <3>3. ~(j = None /\ About(v) = b)
      BY <2>2, <3>1
    <3>4. SafetyPending(About(v))' \subseteq SafetyPending(About(v))
      BY <2>1, <3>1, <3>3 DEF SafetyPending
    <3> QED BY <3>1, <3>2, <3>4 DEF SafetyPending
  <2>5. \A c \in Books : \A i, k \in SafetyPending(c)' : i = k
    BY <2>1, <2>2 DEF SafetyAlone
  <2> QED BY <2>4, <2>5 DEF SafetyAlone
<1>20. AlertsAgree'
  <2>1. \A v \in Workers : worker'[v].pc = "notify" =>
          IF v = w THEN worker'[v].row = new /\ answer # 0
          ELSE worker'[v] = worker[v] /\ worker'[v].row \in Proposals
    BY <1>5, <1>6 DEF AlertsAgree
  <2>2. answer # 0 => answer > 0
    OBVIOUS
  <2> QED BY <2>1, <2>2, <1>2, <1>3, <1>4 DEF AlertsAgree, Proposals
<1>21. OneProposalPerRejection'
  BY <1>2, <1>3, <1>8 DEF OneProposalPerRejection, Proposed, RowsOf, Proposals
<1>22. AlertedOnce'
  BY <1>2, <1>3, <1>4 DEF AlertedOnce, Proposals
<1>23. ProposalIsTheAnswer'
  <2> SUFFICES ASSUME NEW i \in DOMAIN proposals', proposals'[i].job # None
               PROVE log'[proposals'[i].job] =
                 [status |-> "COMPLETED",
                  request |-> [stock |-> proposals'[i].stock, pending |-> proposals'[i].pending],
                  response |-> proposals'[i].recommended]
    BY DEF ProposalIsTheAnswer, Proposals
  <2>1. CASE i = new
    <3>1. /\ j \in Jobs /\ log'[j] \in LogEntry
          /\ log'[j].status = "COMPLETED" /\ log'[j].request = request
          /\ log'[j].response = answer
      BY <2>1, <1>2, <1>3, <1>7, <1>8
    <3>2. request = [stock |-> request.stock, pending |-> request.pending]
      BY DEF Request
    <3>3. log'[j] = [status |-> "COMPLETED", request |-> request, response |-> answer]
      BY <3>1 DEF LogEntry
    <3> QED BY <2>1, <3>2, <3>3, <1>2, <1>3
  <2>2. CASE i \in Proposals
    <3>1. proposals'[i] = proposals[i] /\ proposals[i].job # j /\ proposals[i].job \in Jobs
      <4>1. proposals'[i] = proposals[i]
        BY <2>2, <1>3
      <4>2. proposals[i].job \in Jobs
        BY <4>1, <2>2, RowsAreProposals DEF Proposal
      <4>3. proposals[i].job # j
        BY <2>2, <4>2, <1>8 DEF Proposed, RowsOf
      <4> QED BY <4>1, <4>2, <4>3
    <3> QED BY <2>2, <3>1, <1>7 DEF ProposalIsTheAnswer
  <2> QED BY <2>1, <2>2, <1>3
<1> QED BY <1>9, <1>10, <1>11, <1>12, <1>13, <1>14, <1>15, <1>17, <1>18, <1>19, <1>20,
           <1>21, <1>22, <1>23

(* A later task uses the answer an earlier one has saved.                  *)
LEMMA ResumeSavedKeeps ==
  ASSUME TaskInvariant, NEW w \in Workers, ResumeSaved(w)
  PROVE  TaskInvariant'
PROOF
<1> DEFINE j == About(w)
<1>1. /\ worker[w].pc = "start" /\ worker[w].msg.kind = "rejected"
      /\ ~Proposed(j) /\ log[j].response # None
      /\ Insert(w, j, BookOf[j], log[j].request, log[j].response)
      /\ log' = [log EXCEPT ![j].status = "COMPLETED"]
      /\ UNCHANGED <<shelf, queue, dispatched, batches, admin, answered, faults>>
  BY DEF ResumeSaved, At, SavedRequest
<1>2. /\ worker[w].msg \in MessageType /\ j \in Jobs /\ BookOf[j] \in Books
      /\ log[j] \in LogEntry
  BY <1>1, RejectionTask
<1>3. /\ log[j].status \in Saved /\ log[j].request \in Request /\ log[j].response \in Nat
      /\ j # None
  BY <1>1, <1>2, NoneIsNothing DEF TaskInvariant, LogsAgree, LogEntry, Saved
<1>4. Inserts(w, j, BookOf[j], log[j].request, log[j].response)
  BY <1>1, <1>2, <1>3 DEF Inserts
<1> QED BY <1>2, <1>3, <1>4, InsertingKeeps

(* The task that was answered inserts the proposal itself.                 *)
LEMMA SaveProposalKeeps ==
  ASSUME TaskInvariant, NEW w \in Workers, SaveProposal(w)
  PROVE  TaskInvariant'
PROOF
<1> DEFINE j == About(w)
           request == worker[w].request
           answer == worker[w].answer
<1>1. /\ worker[w].pc = "saving" /\ worker[w].msg.kind = "rejected"
      /\ ~Proposed(j)
      /\ Insert(w, j, BookOf[j], request, answer)
      /\ log' = [log EXCEPT ![j] = [status |-> "COMPLETED", request |-> request,
                                    response |-> answer]]
      /\ UNCHANGED <<shelf, queue, dispatched, batches, admin, answered, faults>>
  BY DEF SaveProposal, At, Unique
<1>2. /\ worker[w].msg \in MessageType /\ j \in Jobs /\ BookOf[j] \in Books
      /\ log \in [Jobs -> LogEntry] /\ log[j] \in LogEntry /\ worker[w] \in WorkerState
  BY <1>1, RejectionTask
<1>3. /\ log[j].status \in Saved /\ log[j].request = request /\ log[j].response = answer
      /\ request \in Request /\ answer \in Nat /\ j # None
  BY <1>1, <1>2, NoneIsNothing
     DEF TaskInvariant, CallsAgree, LogsAgree, LogEntry, Saved, WorkerState
<1>4. log' = [log EXCEPT ![j].status = "COMPLETED"]
  <2>1. [log[j] EXCEPT !.status = "COMPLETED"]
          = [status |-> "COMPLETED", request |-> request, response |-> answer]
    BY <1>2, <1>3 DEF LogEntry
  <2> QED BY <1>1, <1>2, <2>1
<1>5. Inserts(w, j, BookOf[j], request, answer)
  BY <1>1, <1>2, <1>3, <1>4 DEF Inserts
<1> QED BY <1>2, <1>3, <1>5, InsertingKeeps

(* The safety stock task inserts its proposal while it holds the book.     *)
LEMMA SafetyAnswerKeeps ==
  ASSUME TaskInvariant, NEW w \in Workers, NEW n \in 0..MaxAnswer, SafetyAnswer(w, n)
  PROVE  TaskInvariant'
PROOF
<1> DEFINE b == About(w)
<1>1. /\ worker[w].pc = "asking" /\ worker[w].msg.kind = "safety"
      /\ Insert(w, None, b, worker[w].request, n)
      /\ UNCHANGED <<log, shelf, queue, dispatched, batches, admin, answered, faults>>
  BY DEF SafetyAnswer, At
<1>2. /\ worker[w].msg \in MessageType /\ worker[w].request \in Request
      /\ SafetyPending(b) = {}
  BY <1>1 DEF TaskInvariant, TasksAtWork, StockNotGrown, SafetyAlone
<1>3. b \in Books /\ n \in Nat
  BY <1>1, <1>2, Bounds DEF MessageType, About
<1>4. \A v \in Workers : worker[v].pc = "asking" /\ About(v) = b => v = w
  BY <1>1, <1>3 DEF TaskInvariant, BooksExclude, HoldsBook, About
<1>5. Inserts(w, None, b, worker[w].request, n)
  BY <1>1, <1>2, <1>4 DEF Inserts
<1> QED BY <1>2, <1>3, <1>5, InsertingKeeps

(* An alert is sent by the task that inserted the proposal.                *)
LEMMA NotifyKeeps ==
  ASSUME TaskInvariant, NEW w \in Workers, Notify(w)
  PROVE  TaskInvariant'
PROOF
<1> USE DEF TaskInvariant
<1> DEFINE n == worker[w].row
<1>1. /\ worker[w].pc = "notify"
      /\ alerts' = [alerts EXCEPT ![n] = @ + 1]
      /\ worker' = [worker EXCEPT ![w].pc = "ack", ![w].row = 0]
      /\ UNCHANGED <<log, proposals, stock, reserved, sales, arrived, queue, dispatched,
                      batches, admin, answered, faults>>
  BY DEF Notify, shelf
<1>2. /\ n \in Proposals /\ alerts[n] = 0 /\ proposals[n].recommended > 0
      /\ \A v \in Workers : worker[v].pc = "notify" /\ worker[v].row = n => v = w
      /\ worker[w].msg \in MessageType
  BY <1>1 DEF AlertsAgree, TasksAtWork
<1>3. /\ worker \in [Workers -> WorkerState] /\ worker' \in [Workers -> WorkerState]
      /\ \A v \in Workers : v # w => worker'[v] = worker[v]
      /\ worker'[w].pc = "ack" /\ worker'[w].msg = worker[w].msg
  BY <1>1 DEF TypeOK, WorkerState
<1>4. /\ alerts' \in Seq(Nat) /\ Len(alerts') = Len(alerts)
      /\ \A i \in Proposals : alerts'[i] = IF i = n THEN 1 ELSE alerts[i]
  <2>1. alerts \in Seq(Nat) /\ DOMAIN alerts = Proposals
    BY RowsAreProposals DEF TypeOK
  <2>2. alerts' = [alerts EXCEPT ![n] = 1]
    BY <1>1, <1>2, <2>1
  <2> QED BY <1>2, <2>1, <2>2, ChangedRow
<1>5. TypeOK'
  BY <1>1, <1>3, <1>4 DEF TypeOK
<1>6. TasksAtWork'
  BY <1>2, <1>3 DEF TasksAtWork, Asked
<1>7. LogsAgree' /\ AnsweredOnce' /\ OneProposalPerRejection' /\ ProposalIsTheAnswer'
  BY <1>1 DEF LogsAgree, AnsweredOnce, OneProposalPerRejection, ProposalIsTheAnswer,
     Proposals
<1>8. CallsAgree' /\ OneCaller'
  BY <1>1, <1>3 DEF CallsAgree, OneCaller, Asked, About
<1>9. BooksExclude'
  <2>1. \A v \in Workers : \A c \in Books : HoldsBook(v, c)' => HoldsBook(v, c)
    BY <1>3 DEF HoldsBook
  <2>2. \A a \in Admins : \A c \in Books : DecidesOn(a, c)' <=> DecidesOn(a, c)
    BY <1>1 DEF DecidesOn
  <2> QED BY <2>1, <2>2 DEF BooksExclude
<1>10. ReviewsExclude'
  BY <1>1 DEF ReviewsExclude, Proposals
<1>11. StockNotGrown' /\ SafetyAlone'
  BY <1>1, <1>3 DEF StockNotGrown, SafetyAlone, SafetyPending, Proposals, About
<1>12. AlertsAgree'
  BY <1>1, <1>2, <1>3, <1>4 DEF AlertsAgree, Proposals
<1>13. AlertedOnce'
  <2>1. \A i \in Proposals : proposals[i].recommended \in Nat
    BY RowsAreProposals DEF Proposal
  <2> QED BY <1>1, <1>2, <1>4, <2>1 DEF AlertedOnce, Proposals
<1> QED BY <1>5, <1>6, <1>7, <1>8, <1>9, <1>10, <1>11, <1>12, <1>13

-----------------------------------------------------------------------------
(* Reviews.                                                                *)

(* A review that begins has the proposal to itself.                        *)
LEMMA BeginApprovalKeeps ==
  ASSUME TaskInvariant, NEW a \in Admins, NEW i \in Proposals, BeginApproval(a, i)
  PROVE  TaskInvariant'
PROOF
<1> USE DEF TaskInvariant
<1>1. /\ admin[a].pc = "idle" /\ proposals[i].status = "PENDING"
      /\ \A c \in Admins : admin[c].row # i
      /\ admin' = [admin EXCEPT ![a] = [AdminIdle EXCEPT !.pc = "lock", !.row = i]]
      /\ UNCHANGED <<log, proposals, alerts, stock, reserved, sales, arrived, queue,
                      dispatched, batches, worker, answered, faults>>
  BY DEF BeginApproval, Reviewable, RowFree, shelf
<1>2. i \in Nat
  BY LenProperties DEF TypeOK, Proposals
<1>3. /\ admin \in [Admins -> AdminState] /\ admin' \in [Admins -> AdminState]
      /\ \A c \in Admins : c # a => admin'[c] = admin[c]
      /\ admin'[a].pc = "lock" /\ admin'[a].row = i
  BY <1>1, <1>2 DEF TypeOK, AdminState, AdminIdle
<1>4. TypeOK'
  BY <1>1, <1>3 DEF TypeOK
<1>5. TasksAtWork' /\ LogsAgree' /\ CallsAgree' /\ OneCaller'
  BY <1>1 DEF TasksAtWork, LogsAgree, CallsAgree, OneCaller, About
<1>6. BooksExclude'
  <2>1. \A v \in Workers : \A c \in Books : HoldsBook(v, c)' <=> HoldsBook(v, c)
    BY <1>1 DEF HoldsBook
  <2>2. \A e \in Admins : \A c \in Books : DecidesOn(e, c)' => DecidesOn(e, c)
    BY <1>1, <1>3 DEF DecidesOn
  <2> QED BY <2>1, <2>2 DEF BooksExclude
<1>7. ReviewsExclude'
  BY <1>1, <1>3 DEF ReviewsExclude, Proposals
<1>8. StockNotGrown'
  BY <1>1, <1>3 DEF StockNotGrown, About
<1>9. SafetyAlone' /\ AlertsAgree'
  BY <1>1 DEF SafetyAlone, SafetyPending, AlertsAgree, Proposals, About
<1>10. OneProposalPerRejection' /\ AnsweredOnce' /\ ProposalIsTheAnswer' /\ AlertedOnce'
  BY <1>1 DEF OneProposalPerRejection, AnsweredOnce, ProposalIsTheAnswer, AlertedOnce,
     Proposals
<1> QED BY <1>4, <1>5, <1>6, <1>7, <1>8, <1>9, <1>10

(* The stock an approval reads is read under the lock on the book.         *)
LEMMA LockForApprovalKeeps ==
  ASSUME TaskInvariant, NEW a \in Admins, LockForApproval(a)
  PROVE  TaskInvariant'
PROOF
<1> USE DEF TaskInvariant
<1> DEFINE i == admin[a].row
           b == proposals[i].book
<1>1. /\ admin[a].pc = "lock"
      /\ BookFree(b)
      /\ admin' = [admin EXCEPT ![a].pc = "decide", ![a].seen = Snapshot(b)]
      /\ UNCHANGED <<log, proposals, alerts, stock, reserved, sales, arrived, queue,
                      dispatched, batches, worker, answered, faults>>
  BY DEF LockForApproval, shelf
<1>2. i \in Proposals /\ proposals[i].status = "PENDING"
  BY <1>1 DEF ReviewsExclude
<1>3. b \in Books
  BY <1>2, RowsAreProposals DEF Proposal
<1>4. Snapshot(b) \in Request /\ Snapshot(b).stock = stock[b] /\ stock[b] \in Nat
  BY <1>3, SnapshotIsRequest DEF TypeOK
<1> HIDE DEF i
<1>5. /\ admin \in [Admins -> AdminState] /\ admin' \in [Admins -> AdminState]
      /\ \A c \in Admins : c # a => admin'[c] = admin[c]
      /\ admin'[a].pc = "decide" /\ admin'[a].row = admin[a].row
      /\ admin'[a].seen = Snapshot(b)
  BY <1>1, <1>4 DEF TypeOK, AdminState
<1>6. TypeOK'
  BY <1>1, <1>5 DEF TypeOK
<1>7. TasksAtWork' /\ LogsAgree' /\ CallsAgree' /\ OneCaller'
  BY <1>1 DEF TasksAtWork, LogsAgree, CallsAgree, OneCaller, About
<1>8. BooksExclude'
  <2>1. \A v \in Workers : \A c \in Books : HoldsBook(v, c)' <=> HoldsBook(v, c)
    BY <1>1 DEF HoldsBook
  <2>2. /\ \A v \in Workers : ~HoldsBook(v, b)
        /\ \A e \in Admins : ~DecidesOn(e, b)
    BY <1>1 DEF BookFree
  <2>3. \A e \in Admins : \A c \in Books :
          DecidesOn(e, c)' => IF e = a THEN c = b ELSE DecidesOn(e, c)
    BY <1>1, <1>5 DEF DecidesOn, i
  <2> QED BY <2>1, <2>2, <2>3 DEF BooksExclude
<1>9. ReviewsExclude'
  <2>1. \A c \in Admins : /\ admin'[c].row = admin[c].row
                          /\ (admin'[c].pc = "idle" <=> admin[c].pc = "idle")
    BY <1>1, <1>5
  <2>2. Proposals' = Proposals /\ proposals' = proposals
    BY <1>1 DEF Proposals
  <2>3. \A c \in Admins : IF admin'[c].pc = "idle" THEN admin'[c].row = 0
          ELSE admin'[c].row \in Proposals /\ proposals[admin'[c].row].status = "PENDING"
    BY <2>1 DEF ReviewsExclude
  <2>4. \A c, e \in Admins :
          admin'[c].pc # "idle" /\ admin'[e].pc # "idle" /\ admin'[c].row = admin'[e].row
            => c = e
    BY <2>1 DEF ReviewsExclude
  <2> QED BY <2>2, <2>3, <2>4 DEF ReviewsExclude
<1>10. StockNotGrown'
  <2>1. \A w \in Workers : worker'[w].pc = "asking" =>
          worker'[w].request \in Request /\ stock'[About(w)'] <= worker'[w].request.stock
    BY <1>1 DEF StockNotGrown, About
  <2>2. ASSUME NEW c \in Admins, admin'[c].pc = "decide"
        PROVE /\ admin'[c].seen \in Request
              /\ stock'[proposals'[admin'[c].row].book] <= admin'[c].seen.stock
    <3>1. CASE c = a
      BY <3>1, <1>1, <1>4, <1>5 DEF i
    <3>2. CASE c # a
      BY <3>2, <2>2, <1>1, <1>5 DEF StockNotGrown
    <3> QED BY <3>1, <3>2
  <2> QED BY <2>1, <2>2 DEF StockNotGrown
<1>11. SafetyAlone' /\ AlertsAgree'
  BY <1>1 DEF SafetyAlone, SafetyPending, AlertsAgree, Proposals, About
<1>12. OneProposalPerRejection' /\ AnsweredOnce' /\ ProposalIsTheAnswer' /\ AlertedOnce'
  BY <1>1 DEF OneProposalPerRejection, AnsweredOnce, ProposalIsTheAnswer, AlertedOnce,
     Proposals
<1> QED BY <1>6, <1>7, <1>8, <1>9, <1>10, <1>11, <1>12

(* A review that is given up leaves nothing behind.                        *)
LEMMA LeavingKeeps ==
  ASSUME TaskInvariant, NEW a \in Admins, admin' = [admin EXCEPT ![a] = AdminIdle],
         faults' \in Nat,
         UNCHANGED <<log, proposals, alerts, shelf, queue, dispatched, batches, worker,
                     answered>>
  PROVE  TaskInvariant'
PROOF
<1> USE DEF TaskInvariant
<1>1. UNCHANGED <<log, proposals, alerts, stock, reserved, sales, arrived, queue,
                  dispatched, batches, worker, answered>>
  BY DEF shelf
<1>2. /\ admin \in [Admins -> AdminState] /\ admin' \in [Admins -> AdminState]
      /\ \A c \in Admins : c # a => admin'[c] = admin[c]
      /\ admin'[a].pc = "idle" /\ admin'[a].row = 0
  BY NoneIsNothing DEF TypeOK, AdminState, AdminIdle
<1>3. TypeOK'
  BY <1>1, <1>2 DEF TypeOK
<1>4. TasksAtWork' /\ LogsAgree' /\ CallsAgree' /\ OneCaller'
  BY <1>1 DEF TasksAtWork, LogsAgree, CallsAgree, OneCaller, About
<1>5. BooksExclude'
  <2>1. \A v \in Workers : \A c \in Books : HoldsBook(v, c)' <=> HoldsBook(v, c)
    BY <1>1 DEF HoldsBook
  <2>2. \A e \in Admins : \A c \in Books : DecidesOn(e, c)' => DecidesOn(e, c)
    BY <1>1, <1>2 DEF DecidesOn
  <2> QED BY <2>1, <2>2 DEF BooksExclude
<1>6. ReviewsExclude'
  BY <1>1, <1>2 DEF ReviewsExclude, Proposals
<1>7. StockNotGrown'
  BY <1>1, <1>2 DEF StockNotGrown, About
<1>8. SafetyAlone' /\ AlertsAgree'
  BY <1>1 DEF SafetyAlone, SafetyPending, AlertsAgree, Proposals, About
<1>9. OneProposalPerRejection' /\ AnsweredOnce' /\ ProposalIsTheAnswer' /\ AlertedOnce'
  BY <1>1 DEF OneProposalPerRejection, AnsweredOnce, ProposalIsTheAnswer, AlertedOnce,
     Proposals
<1> QED BY <1>3, <1>4, <1>5, <1>6, <1>7, <1>8, <1>9

(* The row q that a decision makes of proposal i, by those who review it.  *)
Decides(i, q) ==
  /\ q \in Proposal /\ q.status # "PENDING"
  /\ q.job = proposals[i].job /\ q.book = proposals[i].book
  /\ q.stock = proposals[i].stock /\ q.pending = proposals[i].pending
  /\ q.recommended = proposals[i].recommended
  /\ proposals' = [proposals EXCEPT ![i] = q]
  /\ admin' \in [Admins -> AdminState]
  /\ \A e \in Admins : IF admin[e].pc # "idle" /\ admin[e].row = i
                       THEN admin'[e] = AdminIdle ELSE admin'[e] = admin[e]
  /\ UNCHANGED <<log, alerts, reserved, sales, arrived, queue, dispatched, batches,
                 worker, answered, faults>>

(* A decision ends the review of its proposal, and the stock grows only    *)
(* for a book that nobody else has locked.                                 *)
LEMMA DecidingKeeps ==
  ASSUME TaskInvariant, NEW i \in Proposals, NEW q, Decides(i, q),
         proposals[i].status = "PENDING",
         stock' \in [Books -> Nat],
         \A b \in Books :
           \/ stock'[b] = stock[b]
           \/ /\ \A w \in Workers : ~HoldsBook(w, b)
              /\ \A e \in Admins : DecidesOn(e, b) => admin[e].row = i
  PROVE  TaskInvariant'
PROOF
<1> USE DEF TaskInvariant
<1>1. /\ proposals \in Seq(Proposal) /\ i \in DOMAIN proposals /\ q \in Proposal
      /\ UNCHANGED <<log, alerts, reserved, sales, arrived, queue, dispatched, batches,
                      worker, answered, faults>>
  BY DEF TypeOK, Decides, Proposals
<1>2. /\ proposals' \in Seq(Proposal) /\ Len(proposals') = Len(proposals)
      /\ Proposals' = Proposals
      /\ \A k \in Proposals : proposals'[k] = IF k = i THEN q ELSE proposals[k]
  BY <1>1, ChangedRow DEF Decides, Proposals
<1>3. /\ \A k \in Proposals : /\ proposals'[k].job = proposals[k].job
                              /\ proposals'[k].book = proposals[k].book
                              /\ proposals'[k].stock = proposals[k].stock
                              /\ proposals'[k].pending = proposals[k].pending
                              /\ proposals'[k].recommended = proposals[k].recommended
                              /\ proposals'[k].status = "PENDING" =>
                                   k # i /\ proposals[k].status = "PENDING"
  BY <1>2 DEF Decides
<1>4. /\ admin' \in [Admins -> AdminState]
      /\ \A e \in Admins : admin'[e] = admin[e] \/ admin'[e] = AdminIdle
      /\ \A e \in Admins : admin'[e].pc # "idle" => admin'[e] = admin[e] /\ admin[e].row # i
  BY DEF Decides, AdminIdle
<1>5. TypeOK'
  BY <1>1, <1>2, <1>4 DEF TypeOK
<1>6. TasksAtWork' /\ LogsAgree' /\ CallsAgree' /\ OneCaller'
  BY <1>1 DEF TasksAtWork, LogsAgree, CallsAgree, OneCaller, About
<1>7. BooksExclude'
  <2>1. \A v \in Workers : \A c \in Books : HoldsBook(v, c)' <=> HoldsBook(v, c)
    BY <1>1 DEF HoldsBook
  <2>2. \A e \in Admins : \A c \in Books : DecidesOn(e, c)' => DecidesOn(e, c)
    <3> SUFFICES ASSUME NEW e \in Admins, NEW c \in Books, DecidesOn(e, c)'
                 PROVE DecidesOn(e, c)
      OBVIOUS
    <3>1. admin'[e].pc = "decide" /\ proposals'[admin'[e].row].book = c
      BY DEF DecidesOn
    <3>2. admin'[e] = admin[e] /\ admin[e].row \in Proposals
      BY <3>1, <1>4 DEF ReviewsExclude
    <3> QED BY <3>1, <3>2, <1>3 DEF DecidesOn
  <2> QED BY <2>1, <2>2 DEF BooksExclude
<1>8. ReviewsExclude'
  <2>1. \A e \in Admins : IF admin'[e].pc = "idle" THEN admin'[e].row = 0
          ELSE admin'[e].row \in Proposals /\ proposals'[admin'[e].row].status = "PENDING"
    BY <1>2, <1>4 DEF ReviewsExclude, AdminIdle
  <2>2. \A c, e \in Admins :
          admin'[c].pc # "idle" /\ admin'[e].pc # "idle" /\ admin'[c].row = admin'[e].row
            => c = e
    BY <1>4 DEF ReviewsExclude
  <2> QED BY <2>1, <2>2, <1>2 DEF ReviewsExclude
<1>9. StockNotGrown'
  <2>1. ASSUME NEW w \in Workers, worker'[w].pc = "asking"
        PROVE worker'[w].request \in Request /\ stock'[About(w)'] <= worker'[w].request.stock
    <3>1. /\ worker[w].pc = "asking" /\ worker' = worker /\ About(w)' = About(w)
          /\ HoldsBook(w, About(w))
      BY <2>1, <1>1 DEF About, HoldsBook
    <3>2. About(w) \in Books
      BY <3>1 DEF TasksAtWork, MessageType, About
    <3> QED BY <3>1, <3>2 DEF StockNotGrown
  <2>2. ASSUME NEW e \in Admins, admin'[e].pc = "decide"
        PROVE /\ admin'[e].seen \in Request
              /\ stock'[proposals'[admin'[e].row].book] <= admin'[e].seen.stock
    <3> DEFINE b == proposals[admin[e].row].book
    <3>1. /\ admin'[e] = admin[e] /\ admin[e].row # i /\ admin[e].row \in Proposals
          /\ admin[e].pc = "decide"
      BY <2>2, <1>4 DEF ReviewsExclude
    <3>2. b \in Books /\ DecidesOn(e, b) /\ proposals'[admin'[e].row].book = b
      BY <3>1, <1>3, RowsAreProposals DEF DecidesOn, Proposal
    <3>3. stock'[b] = stock[b]
      BY <3>1, <3>2
    <3> QED BY <3>1, <3>2, <3>3 DEF StockNotGrown
  <2> QED BY <2>1, <2>2 DEF StockNotGrown
<1>10. \A b \in Books : SafetyPending(b)' \subseteq SafetyPending(b)
  BY <1>2, <1>3 DEF SafetyPending
<1>11. SafetyAlone'
  <2>1. ASSUME NEW w \in Workers, worker'[w].pc = "asking"
        PROVE SafetyPending(About(w))' = {}
    <3>1. worker[w].pc = "asking" /\ About(w)' = About(w) /\ About(w) \in Books
      BY <2>1, <1>1 DEF About, TasksAtWork, MessageType
    <3>2. SafetyPending(About(w)) = {}
      BY <3>1 DEF SafetyAlone
    <3>3. SafetyPending(About(w))' \subseteq SafetyPending(About(w))
      BY <3>1, <1>10 DEF SafetyPending
    <3> QED BY <3>2, <3>3
  <2> QED BY <2>1, <1>10 DEF SafetyAlone
<1>12. AlertsAgree' /\ AlertedOnce'
  BY <1>1, <1>2, <1>3 DEF AlertsAgree, AlertedOnce
<1>13. OneProposalPerRejection' /\ AnsweredOnce'
  BY <1>1, <1>2, <1>3 DEF OneProposalPerRejection, AnsweredOnce
<1>14. ProposalIsTheAnswer'
  BY <1>1, <1>2, <1>3 DEF ProposalIsTheAnswer
<1> QED BY <1>5, <1>6, <1>7, <1>8, <1>9, <1>11, <1>12, <1>13, <1>14

(* What an approval finds: a pending proposal that it alone reviews, and a *)
(* book that it alone has locked, with no more stock than it has read.     *)
LEMMA ApprovalFinds ==
  ASSUME TaskInvariant, NEW a \in Admins, admin[a].pc = "decide"
  PROVE  LET i == admin[a].row
             p == proposals[i]
             n == OrderQuantity(p, admin[a].seen)
         IN
         /\ i \in Proposals /\ p \in Proposal /\ p.status = "PENDING"
         /\ \A e \in Admins : admin[e].pc # "idle" /\ admin[e].row = i => e = a
         /\ \A w \in Workers : ~HoldsBook(w, p.book)
         /\ \A e \in Admins : DecidesOn(e, p.book) => e = a
         /\ n \in Nat /\ stock[p.book] \in Nat
         /\ n > 0 => stock[p.book] + n <= p.stock + p.recommended
PROOF
<1> USE DEF TaskInvariant
<1> DEFINE i == admin[a].row
           p == proposals[i]
           seen == admin[a].seen
           n == OrderQuantity(p, seen)
<1>1. /\ i \in Proposals /\ p.status = "PENDING"
      /\ \A e \in Admins : admin[e].pc # "idle" /\ admin[e].row = i => e = a
  BY DEF ReviewsExclude
<1>2. p \in Proposal
  BY <1>1, RowsAreProposals
<1>3. p.book \in Books /\ DecidesOn(a, p.book)
  BY <1>2 DEF Proposal, DecidesOn
<1>4. /\ \A w \in Workers : ~HoldsBook(w, p.book)
      /\ \A e \in Admins : DecidesOn(e, p.book) => e = a
  BY <1>3 DEF BooksExclude
<1>5. /\ seen \in Request /\ stock[p.book] <= seen.stock /\ stock[p.book] \in Nat
  BY <1>3 DEF StockNotGrown, TypeOK
<1>6. /\ p.stock \in Nat /\ p.pending \in Nat /\ p.recommended \in Nat
      /\ seen.stock \in Nat /\ seen.pending \in Nat
  BY <1>2, <1>5 DEF Proposal, Request
<1> HIDE DEF p, seen
<1>7. n \in Nat /\ (n > 0 => n <= p.recommended - Larger(0, seen.stock - p.stock))
  BY <1>6 DEF OrderQuantity, Larger
<1>8. n > 0 => stock[p.book] + n <= p.stock + p.recommended
  <2> HIDE DEF n
  <2> QED BY <1>5, <1>6, <1>7 DEF Larger
<1> QED BY <1>1, <1>2, <1>4, <1>5, <1>7, <1>8 DEF p, seen

(* An approval decides its proposal, and stocks what it orders.            *)
LEMMA ApproveKeeps ==
  ASSUME TaskInvariant, NEW a \in Admins, Approve(a)
  PROVE  TaskInvariant'
PROOF
<1> DEFINE i == admin[a].row
           p == proposals[i]
           n == OrderQuantity(p, admin[a].seen)
           q == IF n = 0 THEN [p EXCEPT !.status = "NOT_REQUIRED"]
                ELSE [p EXCEPT !.status = "APPROVED", !.ordered = n, !.order = "RECEIVED"]
<1>1. /\ admin[a].pc = "decide"
      /\ IF n = 0
         THEN proposals' = [proposals EXCEPT ![i].status = "NOT_REQUIRED"] /\ stock' = stock
         ELSE /\ proposals' = [proposals EXCEPT ![i] =
                   [p EXCEPT !.status = "APPROVED", !.ordered = n, !.order = "RECEIVED"]]
              /\ stock' = [stock EXCEPT ![p.book] = @ + n]
      /\ admin' = [admin EXCEPT ![a] = AdminIdle]
      /\ UNCHANGED <<log, alerts, reserved, sales, arrived, queue, dispatched, batches,
                      worker, answered, faults>>
  BY DEF Approve, Received
<1>2. /\ i \in Proposals /\ p \in Proposal /\ p.status = "PENDING"
      /\ \A e \in Admins : admin[e].pc # "idle" /\ admin[e].row = i => e = a
      /\ \A w \in Workers : ~HoldsBook(w, p.book)
      /\ \A e \in Admins : DecidesOn(e, p.book) => e = a
      /\ n \in Nat
  BY <1>1, ApprovalFinds
<1>3. /\ q \in Proposal /\ q.status # "PENDING"
      /\ q.job = p.job /\ q.book = p.book /\ q.stock = p.stock /\ q.pending = p.pending
      /\ q.recommended = p.recommended
  <2> HIDE DEF n, p
  <2> QED BY <1>2 DEF Proposal
<1>4. proposals' = [proposals EXCEPT ![i] = q]
  BY <1>1, <1>2 DEF Proposals
<1>5. /\ admin \in [Admins -> AdminState] /\ stock \in [Books -> Nat]
      /\ AdminIdle \in AdminState
  BY DEF TaskInvariant, TypeOK, AdminIdle, AdminState
<1>6. Decides(i, q)
  <2> HIDE DEF q
  <2>1. \A e \in Admins : IF admin[e].pc # "idle" /\ admin[e].row = i
                         THEN admin'[e] = AdminIdle ELSE admin'[e] = admin[e]
    BY <1>1, <1>2, <1>5
  <2>2. admin' \in [Admins -> AdminState]
    BY <1>1, <1>5
  <2> QED BY <1>1, <1>3, <1>4, <2>1, <2>2 DEF Decides
<1>7. stock' \in [Books -> Nat] /\ \A b \in Books : b # p.book => stock'[b] = stock[b]
  <2> HIDE DEF n, p
  <2> QED BY <1>1, <1>2, <1>5
<1>8. \A b \in Books :
        \/ stock'[b] = stock[b]
        \/ /\ \A w \in Workers : ~HoldsBook(w, b)
           /\ \A e \in Admins : DecidesOn(e, b) => admin[e].row = i
  BY <1>2, <1>7
<1> HIDE DEF q
<1> QED BY <1>2, <1>6, <1>7, <1>8, DecidingKeeps

(* A rejection decides a proposal that nobody reviews.                     *)
LEMMA RejectKeeps ==
  ASSUME TaskInvariant, NEW i \in Proposals, Reject(i)
  PROVE  TaskInvariant'
PROOF
<1> DEFINE q == [proposals[i] EXCEPT !.status = "REJECTED"]
<1>1. /\ proposals[i].status = "PENDING" /\ \A a \in Admins : admin[a].row # i
      /\ proposals' = [proposals EXCEPT ![i].status = "REJECTED"]
      /\ UNCHANGED <<log, alerts, stock, reserved, sales, arrived, queue, dispatched,
                      batches, worker, admin, answered, faults>>
  BY DEF Reject, Reviewable, RowFree, shelf
<1>2. proposals[i] \in Proposal
  BY RowsAreProposals DEF TaskInvariant
<1>3. /\ q \in Proposal /\ q.status # "PENDING"
      /\ q.job = proposals[i].job /\ q.book = proposals[i].book
      /\ q.stock = proposals[i].stock /\ q.pending = proposals[i].pending
      /\ q.recommended = proposals[i].recommended
  BY <1>2 DEF Proposal
<1>4. proposals' = [proposals EXCEPT ![i] = q]
  BY <1>1 DEF Proposals
<1>5. admin \in [Admins -> AdminState] /\ stock \in [Books -> Nat]
  BY DEF TaskInvariant, TypeOK
<1>6. Decides(i, q)
  <2> HIDE DEF q
  <2> QED BY <1>1, <1>3, <1>4, <1>5 DEF Decides
<1> HIDE DEF q
<1> QED BY <1>1, <1>5, <1>6, DecidingKeeps

-----------------------------------------------------------------------------
(* Stock that arrives, is set aside or leaves.                             *)

(* Stock grows only under a book that is not locked.                       *)
LEMMA MovingKeeps ==
  ASSUME TaskInvariant,
         stock' \in [Books -> Nat], reserved' \in [Books -> Nat],
         sales' \in [Books -> Nat], arrived' \in [Books -> Nat],
         \A b \in Books : stock'[b] <= stock[b] \/ BookFree(b),
         UNCHANGED <<log, proposals, alerts, queue, dispatched, batches, worker, admin,
                     answered, faults>>
  PROVE  TaskInvariant'
PROOF
<1> USE DEF TaskInvariant
<1>1. TypeOK'
  BY DEF TypeOK
<1>2. TasksAtWork' /\ LogsAgree' /\ CallsAgree' /\ OneCaller'
  BY DEF TasksAtWork, LogsAgree, CallsAgree, OneCaller, About
<1>3. BooksExclude' /\ ReviewsExclude'
  BY DEF BooksExclude, HoldsBook, DecidesOn, ReviewsExclude, Proposals
<1>4. StockNotGrown'
  <2>1. \A b \in Books : stock'[b] \in Nat /\ stock[b] \in Nat
    BY DEF TypeOK
  <2>2. ASSUME NEW w \in Workers, worker'[w].pc = "asking"
        PROVE worker'[w].request \in Request /\ stock'[About(w)'] <= worker'[w].request.stock
    <3>1. /\ worker[w].pc = "asking" /\ About(w)' = About(w) /\ About(w) \in Books
          /\ HoldsBook(w, About(w))
      BY <2>2 DEF About, HoldsBook, TasksAtWork, MessageType
    <3>2. stock'[About(w)] <= stock[About(w)]
      BY <3>1 DEF BookFree
    <3>3. worker[w].request \in Request /\ stock[About(w)] <= worker[w].request.stock
      BY <3>1 DEF StockNotGrown
    <3>4. worker[w].request.stock \in Nat
      BY <3>3 DEF Request
    <3> QED BY <2>1, <3>1, <3>2, <3>3, <3>4
  <2>3. ASSUME NEW e \in Admins, admin'[e].pc = "decide"
        PROVE /\ admin'[e].seen \in Request
              /\ stock'[proposals'[admin'[e].row].book] <= admin'[e].seen.stock
    <3> DEFINE b == proposals[admin[e].row].book
    <3>1. admin[e].pc = "decide" /\ DecidesOn(e, b) /\ b \in Books
      BY <2>3, RowsAreProposals DEF DecidesOn, ReviewsExclude, Proposal
    <3>2. stock'[b] <= stock[b]
      BY <3>1 DEF BookFree
    <3>3. admin[e].seen \in Request /\ stock[b] <= admin[e].seen.stock
      BY <3>1 DEF StockNotGrown
    <3>4. admin[e].seen.stock \in Nat
      BY <3>3 DEF Request
    <3> HIDE DEF b
    <3>5. stock'[b] <= admin[e].seen.stock
      BY <2>1, <3>1, <3>2, <3>3, <3>4
    <3> QED BY <3>3, <3>5 DEF b
  <2> QED BY <2>2, <2>3 DEF StockNotGrown
<1>5. SafetyAlone' /\ AlertsAgree'
  BY DEF SafetyAlone, SafetyPending, AlertsAgree, Proposals, About
<1>6. OneProposalPerRejection' /\ AnsweredOnce' /\ ProposalIsTheAnswer' /\ AlertedOnce'
  BY DEF OneProposalPerRejection, AnsweredOnce, ProposalIsTheAnswer, AlertedOnce, Proposals
<1> QED BY <1>1, <1>2, <1>3, <1>4, <1>5, <1>6

-----------------------------------------------------------------------------
(* Every step.                                                             *)

(* The ways a task ends: done, retried, or lost.                           *)
LEMMA EndingRests ==
  ASSUME TaskInvariant, NEW w \in Workers, worker[w].pc # "idle",
         End(w) \/ Retry(w) \/ (worker' = [worker EXCEPT ![w] = WorkerIdle] /\ queue' = queue),
         faults' \in Nat,
         UNCHANGED <<log, proposals, alerts, shelf, dispatched, batches, admin, answered>>
  PROVE  TaskInvariant'
PROOF
<1>1. worker[w].msg \in MessageType /\ queue \in SUBSET MessageType
  BY DEF TaskInvariant, TasksAtWork, TypeOK
<1>2. WorkerIdle \in WorkerState /\ WorkerIdle.pc = "idle"
  BY DEF WorkerIdle, WorkerState
<1>3. worker' = [worker EXCEPT ![w] = WorkerIdle] /\ queue' \in SUBSET MessageType
  BY <1>1, RetriedMessage DEF End, Retry
<1>4. Rests(w, WorkerIdle)
  BY <1>2, <1>3 DEF Rests
<1> QED BY <1>4, RestingKeeps

(* A task takes a message of the queue.                                    *)
LEMMA TakeKeeps ==
  ASSUME TaskInvariant, NEW w \in Workers, NEW m \in queue, Take(w, m)
  PROVE  TaskInvariant'
PROOF
<1> DEFINE r == [WorkerIdle EXCEPT !.pc = "start", !.msg = m]
<1>1. m \in MessageType /\ queue \in SUBSET MessageType /\ faults \in Nat
  BY DEF TaskInvariant, TypeOK
<1>2. r \in WorkerState /\ r.pc = "start" /\ r.msg = m
  BY <1>1 DEF WorkerIdle, WorkerState
<1>3. worker' = [worker EXCEPT ![w] = r]
  BY DEF Take
<1> HIDE DEF r
<1>4. Rests(w, r)
  BY <1>1, <1>2, <1>3 DEF Rests, Take
<1> QED BY <1>4, RestingKeeps

(* The code of a task keeps the invariant.                                 *)
LEMMA HandlingKeeps ==
  ASSUME TaskInvariant, NEW w \in Workers, Handle(w)
  PROVE  TaskInvariant'
PROOF
<1>1. faults \in Nat
  BY DEF TaskInvariant, TypeOK
<1>2. CASE FindProposal(w)
  BY <1>1, <1>2, EndingRests DEF FindProposal, FoundProposal, At
<1>3. CASE FindGenerating(w)
  BY <1>1, <1>3, EndingRests DEF FindGenerating, At
<1>4. CASE SaveDuplicate(w)
  BY <1>1, <1>4, EndingRests DEF SaveDuplicate, At
<1>5. CASE Ack(w)
  BY <1>1, <1>5, EndingRests DEF Ack
<1>6. CASE FindSafetyPending(w) \/ FindEnough(w)
  BY <1>1, <1>6, EndingRests DEF FindSafetyPending, FindEnough, At
<1>7. CASE SafetyCallFails(w)
  BY <1>1, <1>7, EndingRests DEF SafetyCallFails, At
<1>8. CASE ResumeSaved(w) \/ SaveProposal(w)
  BY <1>8, ResumeSavedKeeps, SaveProposalKeeps
<1>9. CASE BeginGeneration(w) \/ SaveAnswer(w) \/ AgentFails(w)
  BY <1>9, BeginGenerationKeeps, SaveAnswerKeeps, AgentFailsKeeps
<1>10. CASE Notify(w)
  BY <1>10, NotifyKeeps
<1>11. CASE LockBook(w) \/ AskForSafetyStock(w)
  BY <1>11, LockBookKeeps, AskKeeps
<1>12. CASE \E n \in 0..MaxAnswer : AgentAnswers(w, n) \/ SafetyAnswer(w, n)
  BY <1>12, AgentAnswersKeeps, SafetyAnswerKeeps
<1> QED BY <1>2, <1>3, <1>4, <1>5, <1>6, <1>7, <1>8, <1>9, <1>10, <1>11, <1>12
        DEF Handle, CallEnds

(* A dispatch and a run of the batch put well-formed messages into the     *)
(* queue.                                                                  *)
LEMMA MessagesKeep ==
  ASSUME TaskInvariant, (\E j \in Jobs : Dispatch(j)) \/ RunBatch
  PROVE  TaskInvariant'
PROOF
<1>1. /\ queue \in SUBSET MessageType /\ dispatched \in [Jobs -> Nat] /\ batches \in Nat
      /\ sales \in [Books -> Nat]
  BY DEF TaskInvariant, TypeOK
<1>2. CASE \E j \in Jobs : Dispatch(j)
  <2> PICK j \in Jobs : Dispatch(j)
    BY <1>2
  <2>1. Message("rejected", j, 0, dispatched[j]) \in MessageType
    BY <1>1 DEF Message, MessageType
  <2>2. /\ queue' \in SUBSET MessageType /\ dispatched' \in [Jobs -> Nat] /\ batches' \in Nat
    BY <1>1, <2>1 DEF Dispatch
  <2> QED BY <2>2, QueueingKeeps DEF Dispatch
<1>3. CASE RunBatch
  <2>1. \A b \in Books : Level(b) \in Nat
    BY <1>1, StockConstants DEF Level, Larger
  <2>2. \A b \in Books : Message("safety", b, Level(b), batches) \in MessageType
    BY <1>1, <2>1 DEF Message, MessageType
  <2>3. /\ queue' \in SUBSET MessageType /\ dispatched' \in [Jobs -> Nat] /\ batches' \in Nat
    BY <1>1, <1>3, <2>2 DEF RunBatch, NeedingRestock
  <2> QED BY <1>3, <2>3, QueueingKeeps DEF RunBatch
<1> QED BY <1>2, <1>3

(* Lost processes, time limits and errors.                                 *)
LEMMA FaultsKeep ==
  ASSUME TaskInvariant, NEW w \in Workers, LoseWorker(w) \/ KillTask(w) \/ FailTask(w)
  PROVE  TaskInvariant'
PROOF
<1>1. faults' \in Nat
  BY DEF TaskInvariant, TypeOK, LoseWorker, KillTask, FailTask, Fault
<1>2. CASE LoseWorker(w)
  BY <1>1, <1>2, EndingRests DEF LoseWorker
<1>3. CASE KillTask(w)
  BY <1>1, <1>3, EndingRests DEF KillTask
<1>4. CASE FailTask(w)
  BY <1>1, <1>4, EndingRests DEF FailTask
<1> QED BY <1>2, <1>3, <1>4

(* The code of an approval, and the ways it is given up.                   *)
LEMMA ServingKeeps ==
  ASSUME TaskInvariant, NEW a \in Admins, Serve(a) \/ BreakDeadlock(a) \/ LoseAdmin(a)
  PROVE  TaskInvariant'
PROOF
<1>1. faults \in Nat
  BY DEF TaskInvariant, TypeOK
<1>2. CASE LockForApproval(a) \/ Approve(a)
  BY <1>2, LockForApprovalKeeps, ApproveKeeps
<1>3. CASE NoShelf(a)
  BY <1>1, <1>3, LeavingKeeps DEF NoShelf
<1>4. CASE LoseAdmin(a)
  <2>1. faults' \in Nat
    BY <1>1, <1>4 DEF LoseAdmin, Fault
  <2> QED BY <2>1, <1>4, LeavingKeeps DEF LoseAdmin
<1>5. CASE \E w \in Workers : FailApproval(a, w)
  BY <1>1, <1>5, LeavingKeeps DEF FailApproval
<1>6. CASE \E w \in Workers : FailSafetyTask(a, w)
  BY <1>1, <1>6, EndingRests DEF FailSafetyTask, Deadlocked
<1> QED BY <1>2, <1>3, <1>4, <1>5, <1>6 DEF Serve, BreakDeadlock

(* Arrivals, reservations and shipments.                                   *)
LEMMA StockKeeps ==
  ASSUME TaskInvariant, NEW b \in Books, Arrive(b) \/ Reserve(b) \/ Ship(b)
  PROVE  TaskInvariant'
PROOF
<1>1. /\ stock \in [Books -> Nat] /\ reserved \in [Books -> Nat]
      /\ sales \in [Books -> Nat] /\ arrived \in [Books -> Nat]
  BY DEF TaskInvariant, TypeOK
<1>2. CASE Arrive(b)
  <2>1. stock' \in [Books -> Nat] /\ arrived' \in [Books -> Nat]
    BY <1>1, <1>2 DEF Arrive
  <2>2. \A c \in Books : stock'[c] <= stock[c] \/ BookFree(c)
    BY <1>1, <1>2 DEF Arrive
  <2> QED BY <1>1, <1>2, <2>1, <2>2, MovingKeeps DEF Arrive
<1>3. CASE Reserve(b)
  <2>1. stock' \in [Books -> Nat] /\ reserved' \in [Books -> Nat]
    BY <1>1, <1>3 DEF Reserve
  <2>2. \A c \in Books : stock'[c] <= stock[c]
    BY <1>1, <1>3 DEF Reserve
  <2> QED BY <1>1, <1>3, <2>1, <2>2, MovingKeeps DEF Reserve
<1>4. CASE Ship(b)
  <2>1. reserved' \in [Books -> Nat] /\ sales' \in [Books -> Nat]
    BY <1>1, <1>4 DEF Ship
  <2>2. \A c \in Books : stock'[c] <= stock[c]
    BY <1>1, <1>4 DEF Ship
  <2> QED BY <1>1, <1>4, <2>1, <2>2, MovingKeeps DEF Ship
<1> QED BY <1>2, <1>3, <1>4

-----------------------------------------------------------------------------
(* Theorems.                                                               *)

(* The invariant holds when the system starts.                             *)
LEMMA InitEstablishes == ASSUME Init PROVE TaskInvariant
PROOF
<1> USE DEF Init
<1>1. Proposals = {} /\ DOMAIN proposals = {} /\ Len(proposals) = 0 /\ Len(alerts) = 0
      /\ proposals \in Seq(Proposal) /\ alerts \in Seq(Nat)
  BY DEF Proposals
<1>2. WorkerIdle \in WorkerState /\ AdminIdle \in AdminState /\ NoLog \in LogEntry
  BY DEF WorkerIdle, WorkerState, AdminIdle, AdminState, NoLog, LogEntry
<1>3. TypeOK
  BY <1>1, <1>2, StockConstants DEF TypeOK
<1>4. TasksAtWork /\ LogsAgree /\ CallsAgree /\ OneCaller
  BY DEF TasksAtWork, LogsAgree, CallsAgree, OneCaller, WorkerIdle, NoLog, Asked, Saved
<1>5. BooksExclude /\ ReviewsExclude /\ StockNotGrown
  BY DEF BooksExclude, ReviewsExclude, StockNotGrown, HoldsBook, DecidesOn, WorkerIdle,
     AdminIdle
<1>6. SafetyAlone /\ AlertsAgree
  BY <1>1 DEF SafetyAlone, SafetyPending, AlertsAgree, WorkerIdle
<1>7. OneProposalPerRejection /\ AnsweredOnce /\ ProposalIsTheAnswer /\ AlertedOnce
  BY <1>1 DEF OneProposalPerRejection, AnsweredOnce, ProposalIsTheAnswer, AlertedOnce
<1> QED BY <1>3, <1>4, <1>5, <1>6, <1>7 DEF TaskInvariant

(* Every step keeps it.                                                    *)
LEMMA NextKeeps == ASSUME TaskInvariant, [Next]_vars PROVE TaskInvariant'
PROOF
<1>1. CASE \E j \in Jobs : Dispatch(j)
  BY <1>1, MessagesKeep
<1>2. CASE RunBatch
  BY <1>2, MessagesKeep
<1>3. CASE \E w \in Workers : \E m \in queue : Take(w, m)
  BY <1>3, TakeKeeps
<1>4. CASE \E w \in Workers : Handle(w)
  BY <1>4, HandlingKeeps
<1>5. CASE \E w \in Workers : LoseWorker(w) \/ KillTask(w) \/ FailTask(w)
  BY <1>5, FaultsKeep
<1>6. CASE \E a \in Admins : \E i \in Proposals : BeginApproval(a, i)
  BY <1>6, BeginApprovalKeeps
<1>7. CASE \E a \in Admins : Serve(a) \/ BreakDeadlock(a) \/ LoseAdmin(a)
  BY <1>7, ServingKeeps
<1>8. CASE \E i \in Proposals : Reject(i)
  BY <1>8, RejectKeeps
<1>9. CASE \E b \in Books : Arrive(b) \/ Reserve(b) \/ Ship(b)
  BY <1>9, StockKeeps
<1>10. CASE UNCHANGED vars
  <2>1. UNCHANGED <<log, proposals, alerts, shelf, queue, dispatched, batches, worker,
                    admin, answered, faults>>
    BY <1>10 DEF vars
  <2>2. queue \in SUBSET MessageType /\ dispatched \in [Jobs -> Nat] /\ batches \in Nat
    BY DEF TaskInvariant, TypeOK
  <2> QED BY <2>1, <2>2, QueueingKeeps
<1> QED BY <1>1, <1>2, <1>3, <1>4, <1>5, <1>6, <1>7, <1>8, <1>9, <1>10 DEF Next

(* The tasks and reviews agree with the log, the proposals and the stock   *)
(* at all times, through retries, redeliveries and lost processes.         *)
THEOREM TasksAgree == Spec => []TaskInvariant
PROOF
<1>1. Init => TaskInvariant
  BY InitEstablishes
<1>2. TaskInvariant /\ [Next]_vars => TaskInvariant'
  BY NextKeeps
<1> QED BY <1>1, <1>2, PTL DEF Spec

(* A rejection never gets two proposals, with any number of dispatches,    *)
(* deliveries, retries and workers.                                        *)
THEOREM ProposedOnce == Spec => []OneProposalPerRejection
PROOF
<1>1. TaskInvariant => OneProposalPerRejection
  BY DEF TaskInvariant
<1> QED BY <1>1, TasksAgree, PTL

(* The agent's answer for a rejection is received once at most.            *)
THEOREM AnsweredAtMostOnce == Spec => []AnsweredOnce
PROOF
<1>1. TaskInvariant => AnsweredOnce
  BY DEF TaskInvariant
<1> QED BY <1>1, TasksAgree, PTL

(* The proposal for a rejection says what the agent answered, and to what. *)
THEOREM AnswerIsProposed == Spec => []ProposalIsTheAnswer
PROOF
<1>1. TaskInvariant => ProposalIsTheAnswer
  BY DEF TaskInvariant
<1> QED BY <1>1, TasksAgree, PTL

(* No proposal is announced twice.                                         *)
THEOREM AlertedAtMostOnce == Spec => []AlertedOnce
PROOF
<1>1. TaskInvariant => AlertedOnce
  BY DEF TaskInvariant
<1> QED BY <1>1, TasksAgree, PTL

(* A book never waits for two safety stock proposals, however many batches *)
(* and workers there are.                                                  *)
THEOREM SafetyProposedOnce == Spec => []OnePendingSafety
PROOF
<1>1. TaskInvariant => OnePendingSafety
  <2> SUFFICES ASSUME TaskInvariant, NEW b \in Books
               PROVE Cardinality(SafetyPending(b)) <= 1
    BY DEF OnePendingSafety
  <2>1. \A i, k \in SafetyPending(b) : i = k
    BY DEF TaskInvariant, SafetyAlone
  <2>2. CASE SafetyPending(b) = {}
    BY <2>2, FS_EmptySet
  <2>3. CASE SafetyPending(b) # {}
    <3>1. PICK i \in SafetyPending(b) : SafetyPending(b) = {i}
      BY <2>1, <2>3
    <3>2. Cardinality({i}) = 1
      BY FS_Singleton
    <3> QED BY <3>1, <3>2
  <2> QED BY <2>2, <2>3
<1> QED BY <1>1, TasksAgree, PTL

(* Which steps change the proposals.                                       *)
LEMMA WhoChangesRows ==
  ASSUME [Next]_vars, proposals' # proposals
  PROVE  \/ \E w \in Workers : \/ ResumeSaved(w) \/ SaveProposal(w)
                               \/ \E n \in 0..MaxAnswer : SafetyAnswer(w, n)
         \/ \E a \in Admins : Approve(a)
         \/ \E i \in Proposals : Reject(i)
PROOF
<1>1. CASE \E j \in Jobs : Dispatch(j)
  BY <1>1 DEF Dispatch
<1>2. CASE RunBatch
  BY <1>2 DEF RunBatch
<1>3. CASE \E w \in Workers : \E m \in queue : Take(w, m)
  BY <1>3 DEF Take
<1>4. ASSUME NEW w \in Workers, Handle(w)
      PROVE \/ ResumeSaved(w) \/ SaveProposal(w)
            \/ \E n \in 0..MaxAnswer : SafetyAnswer(w, n)
  BY <1>4 DEF Handle, CallEnds, FindProposal, FindGenerating, BeginGeneration, SaveAnswer,
     SaveDuplicate, Notify, Ack, LockBook, FindSafetyPending, FindEnough,
     AskForSafetyStock, AgentAnswers, AgentFails, SafetyCallFails
<1>5. CASE \E w \in Workers : LoseWorker(w) \/ KillTask(w) \/ FailTask(w)
  BY <1>5 DEF LoseWorker, KillTask, FailTask
<1>6. CASE \E a \in Admins : \E i \in Proposals : BeginApproval(a, i)
  BY <1>6 DEF BeginApproval
<1>7. ASSUME NEW a \in Admins, Serve(a) \/ BreakDeadlock(a) \/ LoseAdmin(a)
      PROVE Approve(a)
  BY <1>7 DEF Serve, BreakDeadlock, LoseAdmin, LockForApproval, NoShelf, FailApproval,
     FailSafetyTask
<1>8. CASE \E b \in Books : Arrive(b) \/ Reserve(b) \/ Ship(b)
  BY <1>8 DEF Arrive, Reserve, Ship
<1>9. CASE UNCHANGED vars
  BY <1>9 DEF vars
<1> QED BY <1>1, <1>2, <1>3, <1>4, <1>5, <1>6, <1>7, <1>8, <1>9 DEF Next

(* What the rows look like after an insertion.                             *)
LEMMA AfterInsert ==
  ASSUME TaskInvariant, NEW w, NEW j, NEW b, NEW request, NEW answer,
         Insert(w, j, b, request, answer)
  PROVE  /\ DOMAIN proposals' = Proposals \cup {Len(proposals) + 1}
         /\ \A i \in Proposals : proposals'[i] = proposals[i]
         /\ proposals'[Len(proposals) + 1] = NewProposal(j, b, request, answer)
PROOF
<1> DEFINE e == NewProposal(j, b, request, answer)
           S == Proposal \cup {e}
<1>1. proposals \in Seq(Proposal) /\ proposals' = Append(proposals, e)
  BY DEF TaskInvariant, TypeOK, Insert
<1> HIDE DEF e
<1>2. proposals \in Seq(S)
  <2>1. /\ Len(proposals) \in Nat /\ DOMAIN proposals = 1..Len(proposals)
        /\ proposals \in [1..Len(proposals) -> Proposal]
    BY <1>1, LenProperties, SeqDef
  <2>2. proposals \in [1..Len(proposals) -> S]
    BY <2>1
  <2> QED BY <2>1, <2>2, IsASeq
<1>3. e \in S
  OBVIOUS
<1> HIDE DEF S
<1> QED BY <1>1, <1>2, <1>3, AppendedRow DEF Proposals, e

(* What the rows look like after a decision: the pending row i changes.    *)
LEMMA AfterDecision ==
  ASSUME TaskInvariant, (\E a \in Admins : Approve(a)) \/ (\E i \in Proposals : Reject(i))
  PROVE  \E i \in Proposals :
           /\ proposals[i].status = "PENDING"
           /\ DOMAIN proposals' = Proposals
           /\ \A k \in Proposals : k # i => proposals'[k] = proposals[k]
           /\ \/ /\ proposals'[i].status = "APPROVED"
                 /\ stock'[proposals[i].book] <= proposals[i].stock + proposals[i].recommended
              \/ proposals'[i].status \in {"NOT_REQUIRED", "REJECTED"}
PROOF
<1>1. ASSUME NEW i \in Proposals, NEW q, proposals' = [proposals EXCEPT ![i] = q]
      PROVE /\ DOMAIN proposals' = Proposals /\ proposals'[i] = q
            /\ \A k \in Proposals : k # i => proposals'[k] = proposals[k]
  <2>1. proposals = [k \in Proposals |-> proposals[k]]
    <3>1. proposals \in Seq(Proposal)
      BY DEF TaskInvariant, TypeOK
    <3>2. proposals \in [1..Len(proposals) -> Proposal] /\ DOMAIN proposals = 1..Len(proposals)
      BY <3>1, LenProperties, SeqDef
    <3> QED BY <3>2 DEF Proposals
  <2> QED BY <1>1, <2>1 DEF Proposals
<1>2. ASSUME NEW i \in Proposals PROVE proposals[i] \in Proposal
  BY <1>2, RowsAreProposals DEF TaskInvariant
<1>3. CASE \E i \in Proposals : Reject(i)
  <2> PICK i \in Proposals : Reject(i)
    BY <1>3
  <2> DEFINE q == [proposals[i] EXCEPT !.status = "REJECTED"]
  <2>1. proposals' = [proposals EXCEPT ![i] = q] /\ proposals[i].status = "PENDING"
    BY DEF Reject, Reviewable, Proposals
  <2>2. q.status = "REJECTED"
    BY <1>2 DEF Proposal
  <2> HIDE DEF q
  <2> QED BY <1>1, <2>1, <2>2
<1>4. CASE \E a \in Admins : Approve(a)
  <2> PICK a \in Admins : Approve(a)
    BY <1>4
  <2> DEFINE i == admin[a].row
             p == proposals[i]
             n == OrderQuantity(p, admin[a].seen)
  <2>1. /\ admin[a].pc = "decide"
        /\ IF n = 0
           THEN proposals' = [proposals EXCEPT ![i].status = "NOT_REQUIRED"]
           ELSE /\ proposals' = [proposals EXCEPT ![i] =
                     [p EXCEPT !.status = "APPROVED", !.ordered = n, !.order = "RECEIVED"]]
                /\ stock' = [stock EXCEPT ![p.book] = @ + n]
    BY DEF Approve, Received
  <2>2. /\ i \in Proposals /\ p \in Proposal /\ p.status = "PENDING" /\ n \in Nat
        /\ n > 0 => stock[p.book] + n <= p.stock + p.recommended
    BY <2>1, ApprovalFinds
  <2>3. CASE n = 0
    <3> DEFINE q == [p EXCEPT !.status = "NOT_REQUIRED"]
    <3>1. proposals' = [proposals EXCEPT ![i] = q]
      BY <2>1, <2>2, <2>3 DEF Proposals
    <3>2. q.status = "NOT_REQUIRED"
      <4> HIDE DEF p
      <4> QED BY <2>2 DEF Proposal
    <3> HIDE DEF q
    <3> QED BY <1>1, <2>2, <3>1, <3>2
  <2>4. CASE n # 0
    <3> DEFINE q == [p EXCEPT !.status = "APPROVED", !.ordered = n, !.order = "RECEIVED"]
    <3>1. proposals' = [proposals EXCEPT ![i] = q]
      BY <2>1, <2>4
    <3>2. q.status = "APPROVED"
      <4> HIDE DEF p, n
      <4> QED BY <2>2 DEF Proposal
    <3>3. stock'[p.book] = stock[p.book] + n
      <4>1. p.book \in Books /\ stock \in [Books -> Nat]
        BY <2>2 DEF Proposal, TaskInvariant, TypeOK
      <4> HIDE DEF p, n
      <4> QED BY <2>1, <2>4, <4>1
    <3>4. stock'[p.book] <= p.stock + p.recommended
      <4> HIDE DEF p, n
      <4> QED BY <2>2, <2>4, <3>3
    <3> HIDE DEF q
    <3> QED BY <1>1, <2>2, <3>1, <3>2, <3>4
  <2> QED BY <2>3, <2>4
<1> QED BY <1>3, <1>4

(* A decision stays, and no proposal disappears.                           *)
THEOREM DecisionsStay == Spec => ReviewedOnce
PROOF
<1> DEFINE Kept == \A i \in Proposals : i \in DOMAIN proposals'
                     /\ (proposals[i].status # "PENDING" => proposals'[i] = proposals[i])
<1>1. TaskInvariant /\ [Next]_vars => [Kept]_vars
  <2> SUFFICES ASSUME TaskInvariant, [Next]_vars PROVE Kept
    OBVIOUS
  <2>1. CASE proposals' = proposals
    BY <2>1 DEF Proposals
  <2>2. CASE proposals' # proposals
    <3>1. CASE \E w \in Workers : \/ ResumeSaved(w) \/ SaveProposal(w)
                                  \/ \E n \in 0..MaxAnswer : SafetyAnswer(w, n)
      <4>1. \E w, j, b, request, answer : Insert(w, j, b, request, answer)
        BY <3>1 DEF ResumeSaved, SaveProposal, SafetyAnswer
      <4> QED BY <4>1, AfterInsert
    <3>2. CASE (\E a \in Admins : Approve(a)) \/ (\E i \in Proposals : Reject(i))
      BY <3>2, AfterDecision
    <3> QED BY <2>2, <3>1, <3>2, WhoChangesRows
  <2> QED BY <2>1, <2>2
<1> QED BY <1>1, TasksAgree, PTL DEF Spec, ReviewedOnce

(* An approval orders no more than the agent aimed at.                     *)
THEOREM OrdersAreNeeded == Spec => NoOverOrder
PROOF
<1> DEFINE Bounded ==
      \A i \in Proposals :
        proposals[i].status = "PENDING" /\ proposals'[i].status = "APPROVED" =>
          LET p == proposals[i] IN stock'[p.book] <= p.stock + p.recommended
<1>1. TaskInvariant /\ [Next]_vars => [Bounded]_vars
  <2> SUFFICES ASSUME TaskInvariant, [Next]_vars PROVE Bounded
    OBVIOUS
  <2>1. CASE proposals' = proposals
    BY <2>1
  <2>2. CASE proposals' # proposals
    <3>1. CASE \E w \in Workers : \/ ResumeSaved(w) \/ SaveProposal(w)
                                  \/ \E n \in 0..MaxAnswer : SafetyAnswer(w, n)
      <4>1. \E w, j, b, request, answer : Insert(w, j, b, request, answer)
        BY <3>1 DEF ResumeSaved, SaveProposal, SafetyAnswer
      <4> QED BY <4>1, AfterInsert
    <3>2. CASE (\E a \in Admins : Approve(a)) \/ (\E i \in Proposals : Reject(i))
      BY <3>2, AfterDecision
    <3> QED BY <2>2, <3>1, <3>2, WhoChangesRows
  <2> QED BY <2>1, <2>2
<1> QED BY <1>1, TasksAgree, PTL DEF Spec, NoOverOrder

(* The figure a safety stock proposal is based on is not out of date when  *)
(* it is inserted: nothing has arrived since.                              *)
THEOREM ShortageIsCurrent == Spec => SafetyStillShort
PROOF
<1> DEFINE Current == \A i \in DOMAIN proposals' \ Proposals :
                        LET p == proposals'[i] IN
                        p.job = None => stock[p.book] <= p.stock
<1>1. TaskInvariant /\ [Next]_vars => [Current]_vars
  <2> SUFFICES ASSUME TaskInvariant, [Next]_vars PROVE Current
    OBVIOUS
  <2>1. CASE proposals' = proposals
    BY <2>1 DEF Proposals
  <2>2. ASSUME NEW w \in Workers, ResumeSaved(w) \/ SaveProposal(w) PROVE Current
    <3>1. worker[w].pc # "idle" /\ worker[w].msg.kind = "rejected"
      BY <2>2 DEF ResumeSaved, SaveProposal, At
    <3>2. About(w) # None
      BY <3>1, RejectionTask, NoneIsNothing
    <3>3. \E b, request, answer : Insert(w, About(w), b, request, answer)
      BY <2>2 DEF ResumeSaved, SaveProposal
    <3>4. PICK b, request, answer : Insert(w, About(w), b, request, answer)
      BY <3>3
    <3> DEFINE e == NewProposal(About(w), b, request, answer)
    <3>5. e.job = About(w)
      BY DEF NewProposal
    <3> HIDE DEF e
    <3>6. \A i \in DOMAIN proposals' \ Proposals : proposals'[i] = e
      BY <3>4, AfterInsert DEF e
    <3> QED BY <3>2, <3>5, <3>6
  <2>3. ASSUME NEW w \in Workers, NEW n \in 0..MaxAnswer, SafetyAnswer(w, n) PROVE Current
    <3>1. Insert(w, None, About(w), worker[w].request, n) /\ worker[w].pc = "asking"
      BY <2>3 DEF SafetyAnswer, At
    <3>2. stock[About(w)] <= worker[w].request.stock
      BY <3>1 DEF TaskInvariant, StockNotGrown
    <3> DEFINE e == NewProposal(None, About(w), worker[w].request, n)
    <3>3. e.book = About(w) /\ e.stock = worker[w].request.stock
      BY DEF NewProposal
    <3> HIDE DEF e
    <3>4. \A i \in DOMAIN proposals' \ Proposals : proposals'[i] = e
      BY <3>1, AfterInsert DEF e
    <3> QED BY <3>2, <3>3, <3>4
  <2>4. CASE (\E a \in Admins : Approve(a)) \/ (\E i \in Proposals : Reject(i))
    BY <2>4, AfterDecision
  <2> QED BY <2>1, <2>2, <2>3, <2>4, WhoChangesRows
<1> QED BY <1>1, TasksAgree, PTL DEF Spec, SafetyStillShort

(* No order is ever on its way to a book: the quantity pending_auto_po     *)
(* that the batch, the tasks and the approval take into account is zero.   *)
THEOREM NothingIsEverOnItsWay == Spec => [](\A b \in Books : PendingAutoPo(b) = 0)
PROOF
<1>1. TaskInvariant => \A b \in Books : PendingAutoPo(b) = 0
  BY NothingOnItsWay DEF TaskInvariant
<1> QED BY <1>1, TasksAgree, PTL

-----------------------------------------------------------------------------
(* The books balance.                                                      *)

Quantities == [i \in Proposals |-> proposals[i].ordered]
StockedRows(b) == {i \in Proposals : proposals[i].book = b /\ proposals[i].order \in {"RECEIVED"}}

(* What was ordered of a book is a sum of quantities.                      *)
LEMMA OrderedTerms ==
  ASSUME TaskInvariant, NEW b
  PROVE  /\ OrderedIn(b, {"RECEIVED"}) = SumFunctionOnSet(Quantities, StockedRows(b))
         /\ OrderedIn(b, {"RECEIVED"})' = SumFunctionOnSet(Quantities', StockedRows(b)')
         /\ IsFiniteSet(Proposals) /\ IsFiniteSet(StockedRows(b))
         /\ \A i \in Proposals : Quantities[i] = proposals[i].ordered /\ Quantities[i] \in Nat
         /\ OrderedIn(b, {"RECEIVED"}) \in Nat
PROOF
<1>1. /\ OrderedIn(b, {"RECEIVED"}) = SumFunctionOnSet(Quantities, StockedRows(b))
      /\ OrderedIn(b, {"RECEIVED"})' = SumFunctionOnSet(Quantities', StockedRows(b)')
  BY DEF OrderedIn, Quantities, StockedRows
<1>2. IsFiniteSet(Proposals)
  <2>1. Len(proposals) \in Nat /\ Proposals = 1..Len(proposals)
    BY LenProperties DEF TaskInvariant, TypeOK, Proposals
  <2> QED BY <2>1, FS_Interval
<1>3. IsFiniteSet(StockedRows(b)) /\ StockedRows(b) \subseteq Proposals
  BY <1>2, FS_Subset DEF StockedRows
<1>4. \A i \in Proposals : Quantities[i] = proposals[i].ordered /\ Quantities[i] \in Nat
  BY RowsAreProposals DEF TaskInvariant, Proposal, Quantities
<1>5. SumFunctionOnSet(Quantities, StockedRows(b)) \in Nat
  BY <1>3, <1>4, SumNat
<1> QED BY <1>1, <1>2, <1>3, <1>4, <1>5

(* New proposals and decisions that order nothing leave it alone.          *)
LEMMA OrderedSame ==
  ASSUME TaskInvariant, NEW b, Proposals \subseteq Proposals',
         \A i \in Proposals : /\ proposals'[i].book = proposals[i].book
                              /\ proposals'[i].order = proposals[i].order
                              /\ proposals'[i].ordered = proposals[i].ordered,
         \A i \in Proposals' \ Proposals : proposals'[i].order = "NONE"
  PROVE  OrderedIn(b, {"RECEIVED"})' = OrderedIn(b, {"RECEIVED"})
PROOF
<1> DEFINE g == Quantities'
           S == StockedRows(b)
<1>1. StockedRows(b)' = S
  BY DEF StockedRows
<1>2. \A i \in S : g[i] = Quantities[i]
  BY DEF StockedRows, Quantities
<1>3. SumFunctionOnSet(g, S) = SumFunctionOnSet(Quantities, S)
  <2>1. IsFiniteSet(S)
    BY OrderedTerms
  <2> HIDE DEF g, S
  <2> QED BY <1>2, <2>1, SumAgree
<1> QED BY <1>1, <1>3, OrderedTerms

(* An approval orders for the book of its proposal.                        *)
LEMMA OrderedMore ==
  ASSUME TaskInvariant, NEW b, Proposals' = Proposals, NEW i \in Proposals, NEW n \in Nat,
         \A k \in Proposals : k # i => proposals'[k] = proposals[k],
         proposals[i].order = "NONE", proposals'[i].order = "RECEIVED",
         proposals'[i].ordered = n, proposals'[i].book = proposals[i].book
  PROVE  OrderedIn(b, {"RECEIVED"})'
           = OrderedIn(b, {"RECEIVED"}) + IF proposals[i].book = b THEN n ELSE 0
PROOF
<1> DEFINE g == Quantities'
           S == StockedRows(b)
<1>1. i \notin S /\ StockedRows(b)' = IF proposals[i].book = b THEN S \cup {i} ELSE S
  BY DEF StockedRows
<1>2. /\ \A k \in S : g[k] = Quantities[k] /\ g[k] \in Int
      /\ g[i] = n
  <2>1. \A k \in S : g[k] = Quantities[k]
    BY <1>1 DEF StockedRows, Quantities
  <2>2. \A k \in S : Quantities[k] \in Nat
    BY OrderedTerms DEF StockedRows
  <2> QED BY <2>1, <2>2 DEF Quantities
<1>3. IsFiniteSet(S)
  BY OrderedTerms
<1>4. /\ SumFunctionOnSet(g, S) = SumFunctionOnSet(Quantities, S)
      /\ SumFunctionOnSet(g, S \cup {i}) = n + SumFunctionOnSet(g, S)
  <2> HIDE DEF g, S
  <2>1. \A k \in S \cup {i} : g[k] \in Int
    BY <1>2
  <2> QED BY <1>1, <1>2, <1>3, <2>1, SumAgree, SumAdd
<1>5. /\ OrderedIn(b, {"RECEIVED"}) = SumFunctionOnSet(Quantities, S)
      /\ OrderedIn(b, {"RECEIVED"})' = SumFunctionOnSet(g, StockedRows(b)')
      /\ OrderedIn(b, {"RECEIVED"}) \in Nat
  BY OrderedTerms
<1> HIDE DEF g, S
<1> QED BY <1>1, <1>4, <1>5

(* A step that moves nothing and orders nothing keeps the balance.         *)
LEMMA BalanceSame ==
  ASSUME TaskInvariant, BooksBalance, UNCHANGED shelf, Proposals \subseteq Proposals',
         \A i \in Proposals : /\ proposals'[i].book = proposals[i].book
                              /\ proposals'[i].order = proposals[i].order
                              /\ proposals'[i].ordered = proposals[i].ordered
                              /\ proposals'[i].status = "PENDING"
                                   => proposals[i].status = "PENDING",
         \A i \in Proposals' \ Proposals : proposals'[i].order = "NONE"
  PROVE  BooksBalance'
PROOF
<1>1. \A b \in Books : OrderedIn(b, {"RECEIVED"})' = OrderedIn(b, {"RECEIVED"})
  BY OrderedSame
<1>2. StockAccounted'
  BY <1>1 DEF BooksBalance, StockAccounted, shelf
<1>3. \A i \in Proposals' : proposals'[i].status = "PENDING" => proposals'[i].order = "NONE"
  BY DEF BooksBalance
<1> QED BY <1>2, <1>3 DEF BooksBalance

(* Steps that change neither stock nor proposals.                          *)
LEMMA BalanceKept ==
  ASSUME TaskInvariant, BooksBalance, UNCHANGED <<shelf, proposals>>
  PROVE  BooksBalance'
PROOF
  BY BalanceSame DEF Proposals

(* A new proposal has ordered nothing yet.                                 *)
LEMMA InsertBalances ==
  ASSUME TaskInvariant, BooksBalance, UNCHANGED shelf,
         \E w, j, b, request, answer : Insert(w, j, b, request, answer)
  PROVE  BooksBalance'
PROOF
<1>1. PICK w, j, b, request, answer : Insert(w, j, b, request, answer)
  OBVIOUS
<1> DEFINE n == Len(proposals) + 1
<1>2. /\ Proposals' = Proposals \cup {n}
      /\ \A i \in Proposals : proposals'[i] = proposals[i]
      /\ proposals'[n] = NewProposal(j, b, request, answer)
  BY <1>1, AfterInsert DEF Proposals
<1>3. proposals'[n].order = "NONE"
  BY <1>2 DEF NewProposal
<1> HIDE DEF n
<1> QED BY <1>2, <1>3, BalanceSame

(* One row changes.                                                        *)
LEMMA RowChanged ==
  ASSUME TaskInvariant, NEW i \in Proposals, NEW q, proposals' = [proposals EXCEPT ![i] = q]
  PROVE  /\ Proposals' = Proposals /\ proposals'[i] = q
         /\ \A k \in Proposals : k # i => proposals'[k] = proposals[k]
PROOF
<1>1. proposals = [k \in Proposals |-> proposals[k]]
  <2>1. proposals \in Seq(Proposal)
    BY DEF TaskInvariant, TypeOK
  <2>2. proposals \in [1..Len(proposals) -> Proposal] /\ DOMAIN proposals = 1..Len(proposals)
    BY <2>1, LenProperties, SeqDef
  <2> QED BY <2>2 DEF Proposals
<1> QED BY <1>1 DEF Proposals

(* A decision that orders nothing: the status of a row changes.            *)
LEMMA StatusBalances ==
  ASSUME TaskInvariant, BooksBalance, UNCHANGED shelf, NEW i \in Proposals,
         NEW st \in {"NOT_REQUIRED", "REJECTED"},
         proposals' = [proposals EXCEPT ![i].status = st]
  PROVE  BooksBalance'
PROOF
<1> DEFINE q == [proposals[i] EXCEPT !.status = st]
<1>1. proposals[i] \in Proposal
  BY RowsAreProposals DEF TaskInvariant
<1>2. /\ q.book = proposals[i].book /\ q.order = proposals[i].order
      /\ q.ordered = proposals[i].ordered /\ q.status = st
  BY <1>1 DEF Proposal
<1>3. proposals' = [proposals EXCEPT ![i] = q]
  OBVIOUS
<1> HIDE DEF q
<1>4. /\ Proposals' = Proposals /\ proposals'[i] = q
      /\ \A k \in Proposals : k # i => proposals'[k] = proposals[k]
  BY <1>3, RowChanged
<1> QED BY <1>2, <1>4, BalanceSame

(* An approval adds to the stock what it orders.                           *)
LEMMA ApproveBalances ==
  ASSUME TaskInvariant, BooksBalance, NEW a \in Admins, Approve(a)
  PROVE  BooksBalance'
PROOF
<1> DEFINE i == admin[a].row
           p == proposals[i]
           n == OrderQuantity(p, admin[a].seen)
<1>1. /\ admin[a].pc = "decide" /\ UNCHANGED <<reserved, sales, arrived>>
      /\ IF n = 0
         THEN proposals' = [proposals EXCEPT ![i].status = "NOT_REQUIRED"] /\ UNCHANGED stock
         ELSE /\ proposals' = [proposals EXCEPT ![i] =
                   [p EXCEPT !.status = "APPROVED", !.ordered = n, !.order = "RECEIVED"]]
              /\ stock' = [stock EXCEPT ![p.book] = @ + n]
  BY DEF Approve, Received
<1>2. i \in Proposals /\ p \in Proposal /\ p.status = "PENDING" /\ n \in Nat
  BY <1>1, ApprovalFinds
<1>3. CASE n = 0
  <2>1. UNCHANGED shelf /\ proposals' = [proposals EXCEPT ![i].status = "NOT_REQUIRED"]
    BY <1>1, <1>3 DEF shelf
  <2> HIDE DEF i
  <2> QED BY <1>2, <2>1, StatusBalances
<1>4. CASE n # 0
  <2> DEFINE q == [p EXCEPT !.status = "APPROVED", !.ordered = n, !.order = "RECEIVED"]
  <2>1. /\ q.status = "APPROVED" /\ q.ordered = n /\ q.order = "RECEIVED" /\ q.book = p.book
        /\ p.book \in Books
    <3> HIDE DEF p, n
    <3> QED BY <1>2 DEF Proposal
  <2>2. proposals' = [proposals EXCEPT ![i] = q] /\ stock' = [stock EXCEPT ![p.book] = @ + n]
    BY <1>1, <1>4
  <2>3. p.order = "NONE"
    BY <1>2 DEF BooksBalance
  <2> HIDE DEF q, n
  <2>4. /\ Proposals' = Proposals /\ proposals'[i] = q
        /\ \A k \in Proposals : k # i => proposals'[k] = proposals[k]
    <3> HIDE DEF i
    <3> QED BY <1>2, <2>2, RowChanged
  <2>5. ASSUME NEW b \in Books
        PROVE  stock'[b] + reserved'[b] + sales'[b]
                 = InitialStock[b] + arrived'[b] + OrderedIn(b, {"RECEIVED"})'
    <3>1. OrderedIn(b, {"RECEIVED"})'
            = OrderedIn(b, {"RECEIVED"}) + IF p.book = b THEN n ELSE 0
      <4> HIDE DEF i
      <4> QED BY <1>2, <2>1, <2>3, <2>4, OrderedMore
    <3>2. OrderedIn(b, {"RECEIVED"}) \in Nat
      BY OrderedTerms
    <3>3. /\ stock[b] \in Nat /\ reserved[b] \in Nat /\ sales[b] \in Nat /\ arrived[b] \in Nat
          /\ InitialStock[b] \in Nat
      BY StockConstants DEF TaskInvariant, TypeOK
    <3>4. stock'[b] = stock[b] + IF p.book = b THEN n ELSE 0
      <4>1. stock \in [Books -> Nat]
        BY DEF TaskInvariant, TypeOK
      <4> HIDE DEF p
      <4> QED BY <1>2, <2>2, <3>3, <4>1
    <3>5. stock[b] + reserved[b] + sales[b]
            = InitialStock[b] + arrived[b] + OrderedIn(b, {"RECEIVED"})
      BY DEF BooksBalance, StockAccounted
    <3>6. reserved' = reserved /\ sales' = sales /\ arrived' = arrived
      BY <1>1
    <3> HIDE DEF p
    <3> QED BY <1>2, <3>1, <3>2, <3>3, <3>4, <3>5, <3>6
  <2>6. \A k \in Proposals' : proposals'[k].status = "PENDING" => proposals'[k].order = "NONE"
    BY <2>1, <2>4 DEF BooksBalance
  <2> QED BY <2>5, <2>6 DEF BooksBalance, StockAccounted
<1> QED BY <1>3, <1>4

(* Copies arrive, are set aside and leave.                                 *)
LEMMA MovesBalance ==
  ASSUME TaskInvariant, BooksBalance, NEW c \in Books, Arrive(c) \/ Reserve(c) \/ Ship(c)
  PROVE  BooksBalance'
PROOF
<1>1. UNCHANGED proposals
  BY DEF Arrive, Reserve, Ship
<1>2. ASSUME NEW b \in Books
      PROVE  stock'[b] + reserved'[b] + sales'[b]
               = InitialStock[b] + arrived'[b] + OrderedIn(b, {"RECEIVED"})'
  <2>1. OrderedIn(b, {"RECEIVED"})' = OrderedIn(b, {"RECEIVED"})
    BY <1>1, OrderedSame DEF Proposals
  <2>2. OrderedIn(b, {"RECEIVED"}) \in Nat
    BY OrderedTerms
  <2>3. /\ stock \in [Books -> Nat] /\ reserved \in [Books -> Nat]
        /\ sales \in [Books -> Nat] /\ arrived \in [Books -> Nat] /\ InitialStock[b] \in Nat
    BY StockConstants DEF TaskInvariant, TypeOK
  <2>4. stock[b] + reserved[b] + sales[b]
          = InitialStock[b] + arrived[b] + OrderedIn(b, {"RECEIVED"})
    BY DEF BooksBalance, StockAccounted
  <2>5. CASE Arrive(c)
    <3>1. /\ arrived' = [arrived EXCEPT ![c] = @ + 1] /\ stock' = [stock EXCEPT ![c] = @ + 1]
          /\ reserved' = reserved /\ sales' = sales
      BY <2>5 DEF Arrive
    <3>2. CASE b = c
      BY <2>1, <2>2, <2>3, <2>4, <3>1, <3>2
    <3>3. CASE b # c
      BY <2>1, <2>2, <2>3, <2>4, <3>1, <3>3
    <3> QED BY <3>2, <3>3
  <2>6. CASE Reserve(c)
    <3>1. /\ reserved' = [reserved EXCEPT ![c] = @ + 1] /\ stock' = [stock EXCEPT ![c] = @ - 1]
          /\ arrived' = arrived /\ sales' = sales
      BY <2>6 DEF Reserve
    <3>2. CASE b = c
      BY <2>1, <2>2, <2>3, <2>4, <3>1, <3>2
    <3>3. CASE b # c
      BY <2>1, <2>2, <2>3, <2>4, <3>1, <3>3
    <3> QED BY <3>2, <3>3
  <2>7. CASE Ship(c)
    <3>1. /\ reserved' = [reserved EXCEPT ![c] = @ - 1] /\ sales' = [sales EXCEPT ![c] = @ + 1]
          /\ arrived' = arrived /\ stock' = stock
      BY <2>7 DEF Ship
    <3>2. CASE b = c
      BY <2>1, <2>2, <2>3, <2>4, <3>1, <3>2
    <3>3. CASE b # c
      BY <2>1, <2>2, <2>3, <2>4, <3>1, <3>3
    <3> QED BY <3>2, <3>3
  <2> QED BY <2>5, <2>6, <2>7
<1>3. \A i \in Proposals' : proposals'[i].status = "PENDING" => proposals'[i].order = "NONE"
  BY <1>1 DEF BooksBalance, Proposals
<1> QED BY <1>2, <1>3 DEF BooksBalance, StockAccounted

(* Every step keeps the books balanced.                                    *)
LEMMA BalanceIsInductive ==
  ASSUME TaskInvariant, BooksBalance, [Next]_vars
  PROVE  BooksBalance'
PROOF
<1>1. CASE \E j \in Jobs : Dispatch(j)
  BY <1>1, BalanceKept DEF Dispatch
<1>2. CASE RunBatch
  BY <1>2, BalanceKept DEF RunBatch
<1>3. CASE \E w \in Workers : \E m \in queue : Take(w, m)
  BY <1>3, BalanceKept DEF Take
<1>4. ASSUME NEW w \in Workers, Handle(w)
      PROVE  BooksBalance'
  <2>1. CASE UNCHANGED <<shelf, proposals>>
    BY <2>1, BalanceKept
  <2>2. CASE ResumeSaved(w) \/ SaveProposal(w) \/ \E n \in 0..MaxAnswer : SafetyAnswer(w, n)
    <3>1. UNCHANGED shelf /\ \E v, j, b, request, answer : Insert(v, j, b, request, answer)
      BY <2>2 DEF ResumeSaved, SaveProposal, SafetyAnswer
    <3> QED BY <3>1, InsertBalances
  <2>3. \/ UNCHANGED <<shelf, proposals>>
        \/ ResumeSaved(w) \/ SaveProposal(w) \/ \E n \in 0..MaxAnswer : SafetyAnswer(w, n)
    BY <1>4 DEF Handle, CallEnds, FindProposal, FindGenerating, BeginGeneration, SaveAnswer,
       SaveDuplicate, Notify, Ack, LockBook, FindSafetyPending, FindEnough,
       AskForSafetyStock, AgentAnswers, AgentFails, SafetyCallFails
  <2> QED BY <2>1, <2>2, <2>3
<1>5. CASE \E w \in Workers : LoseWorker(w) \/ KillTask(w) \/ FailTask(w)
  BY <1>5, BalanceKept DEF LoseWorker, KillTask, FailTask
<1>6. CASE \E a \in Admins : \E i \in Proposals : BeginApproval(a, i)
  BY <1>6, BalanceKept DEF BeginApproval
<1>7. ASSUME NEW a \in Admins, Serve(a) \/ BreakDeadlock(a) \/ LoseAdmin(a)
      PROVE  BooksBalance'
  <2>1. Approve(a) \/ UNCHANGED <<shelf, proposals>>
    BY <1>7 DEF Serve, BreakDeadlock, LoseAdmin, LockForApproval, NoShelf, FailApproval,
       FailSafetyTask
  <2> QED BY <2>1, ApproveBalances, BalanceKept
<1>8. ASSUME NEW i \in Proposals, Reject(i)
      PROVE  BooksBalance'
  <2>1. UNCHANGED shelf /\ proposals' = [proposals EXCEPT ![i].status = "REJECTED"]
    BY <1>8 DEF Reject
  <2> QED BY <2>1, StatusBalances
<1>9. CASE \E b \in Books : Arrive(b) \/ Reserve(b) \/ Ship(b)
  BY <1>9, MovesBalance
<1>10. CASE UNCHANGED vars
  BY <1>10, BalanceKept DEF vars
<1> QED BY <1>1, <1>2, <1>3, <1>4, <1>5, <1>6, <1>7, <1>8, <1>9, <1>10 DEF Next

(* No copy is lost or counted twice: what the shelves, the open orders and *)
(* the week's sales hold is what was there, what suppliers brought and     *)
(* what was approved.                                                      *)
THEOREM StockIsAccounted == Spec => []StockAccounted
PROOF
<1>1. Init => BooksBalance
  <2> SUFFICES ASSUME Init PROVE BooksBalance
    OBVIOUS
  <2>1. Proposals = {}
    BY DEF Init, Proposals
  <2>2. \A b : OrderedIn(b, {"RECEIVED"}) = 0
    BY <2>1, EmptySum
  <2>3. \A b \in Books : /\ stock[b] = InitialStock[b] /\ InitialStock[b] \in Nat
                         /\ reserved[b] = 0 /\ sales[b] = 0 /\ arrived[b] = 0
    BY StockConstants DEF Init
  <2> QED BY <2>1, <2>2, <2>3 DEF BooksBalance, StockAccounted
<1>2. TaskInvariant /\ BooksBalance /\ [Next]_vars => BooksBalance'
  BY BalanceIsInductive
<1>3. Spec => []BooksBalance
  BY <1>1, <1>2, TasksAgree, PTL DEF Spec
<1>4. BooksBalance => StockAccounted
  BY DEF BooksBalance
<1> QED BY <1>3, <1>4, PTL
=============================================================================
