-------------------------- MODULE RestockInvariant --------------------------
(***************************************************************************)
(* The inductive invariant of Restock: how the state of each task and each *)
(* review agrees with the log, the proposals and the stock it has read.    *)
(***************************************************************************)
EXTENDS Restock

Asked == {"calling", "answered"}
Saved == {"RESPONSE_SAVED", "COMPLETED"}

(* A task at work has a message of the kind its code handles.              *)
TasksAtWork ==
  \A w \in Workers :
    /\ worker[w].pc # "idle" => worker[w].msg \in MessageType
    /\ worker[w].pc \in Asked \cup {"saving"} => worker[w].msg.kind = "rejected"
    /\ worker[w].pc \in {"checking", "asking"} => worker[w].msg.kind = "safety"

(* The log of a job tells whether the agent has answered: never before a   *)
(* call was begun, never before a call that is reported as failed.         *)
LogsAgree ==
  \A j \in Jobs :
    /\ log[j].status \in {"NONE", "FAILED"} => answered[j] = 0
    /\ log[j].status \in Saved <=> log[j].response # None
    /\ log[j].status # "NONE" => log[j].request \in Request

(* A task that is asking finds its request in the log, and the agent has   *)
(* not answered another; a task that is saving finds its answer there.     *)
CallsAgree ==
  \A w \in Workers :
    /\ worker[w].pc \in Asked =>
         /\ log[About(w)].status = "GENERATING"
         /\ log[About(w)].request = worker[w].request
    /\ worker[w].pc = "calling" => answered[About(w)] = 0
    /\ worker[w].pc = "saving" =>
         /\ log[About(w)].status \in Saved
         /\ log[About(w)].request = worker[w].request
         /\ log[About(w)].response = worker[w].answer

(* One task at a time asks the agent about a rejection.                    *)
OneCaller ==
  \A v, w \in Workers :
    worker[v].pc \in Asked /\ worker[w].pc \in Asked /\ About(v) = About(w) => v = w

(* A book is locked by one process.                                        *)
BooksExclude ==
  /\ \A v, w \in Workers : \A b \in Books : HoldsBook(v, b) /\ HoldsBook(w, b) => v = w
  /\ \A a, c \in Admins : \A b \in Books : DecidesOn(a, b) /\ DecidesOn(c, b) => a = c
  /\ \A w \in Workers, a \in Admins : \A b \in Books : ~(HoldsBook(w, b) /\ DecidesOn(a, b))

(* A review has a pending proposal to itself.                              *)
ReviewsExclude ==
  /\ \A a \in Admins : IF admin[a].pc = "idle" THEN admin[a].row = 0
       ELSE admin[a].row \in Proposals /\ proposals[admin[a].row].status = "PENDING"
  /\ \A a, c \in Admins :
       admin[a].pc # "idle" /\ admin[c].pc # "idle" /\ admin[a].row = admin[c].row => a = c

(* The stock that was read under the lock on the book has not grown since. *)
StockNotGrown ==
  /\ \A w \in Workers : worker[w].pc = "asking" =>
       /\ worker[w].request \in Request
       /\ stock[About(w)] <= worker[w].request.stock
  /\ \A a \in Admins : admin[a].pc = "decide" =>
       /\ admin[a].seen \in Request
       /\ stock[proposals[admin[a].row].book] <= admin[a].seen.stock

(* A task that asks about a book knows of no pending proposal for it, and  *)
(* there is none; a book has one at most.                                  *)
SafetyAlone ==
  /\ \A w \in Workers : worker[w].pc = "asking" => SafetyPending(About(w)) = {}
  /\ \A b \in Books : \A i, k \in SafetyPending(b) : i = k

(* A task that is about to alert has a proposal of its own to announce.    *)
AlertsAgree ==
  /\ \A w \in Workers : worker[w].pc = "notify" =>
       /\ worker[w].row \in Proposals
       /\ alerts[worker[w].row] = 0
       /\ proposals[worker[w].row].recommended > 0
  /\ \A v, w \in Workers : worker[v].pc = "notify" /\ worker[w].pc = "notify"
                             /\ worker[v].row = worker[w].row => v = w

(* The inductive invariant.                                                *)
TaskInvariant ==
  /\ TypeOK
  /\ TasksAtWork /\ LogsAgree /\ CallsAgree /\ OneCaller
  /\ BooksExclude /\ ReviewsExclude /\ StockNotGrown /\ SafetyAlone /\ AlertsAgree
  /\ OneProposalPerRejection /\ AnsweredOnce /\ ProposalIsTheAnswer /\ AlertedOnce

(* The books are balanced: nothing is ordered before it is approved, and   *)
(* the stock is what was there, what arrived and what was ordered.         *)
BooksBalance ==
  /\ \A i \in Proposals : proposals[i].status = "PENDING" => proposals[i].order = "NONE"
  /\ StockAccounted
=============================================================================
