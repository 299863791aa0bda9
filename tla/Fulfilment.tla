----------------------------- MODULE Fulfilment -----------------------------
(***************************************************************************)
(* What order fulfilment promises, without handlers, rows or locks: every  *)
(* order takes all it asks for in one step or nothing at all, never more   *)
(* than is unclaimed, and what it took leaves the warehouse when it ships. *)
(***************************************************************************)
EXTENDS Integers

CONSTANTS
  Orders,
  Kinds,    \* the things one can order: a book and a grade
  Demand    \* Orders -> [Kinds -> Nat]

VARIABLES
  state,      \* "NONE", "PENDING", "PICKING" or "SHIPPED", per order
  unclaimed,  \* copies on the shelves that no order has, per kind
  onHand      \* copies on the shelves, per kind

vars == <<state, unclaimed, onHand>>

Init ==
  /\ state = [o \in Orders |-> "NONE"]
  /\ unclaimed \in [Kinds -> Nat]
  /\ onHand = unclaimed

Move(o, from, to) == state[o] = from /\ state' = [state EXCEPT ![o] = to]

Place(o) ==
  /\ Move(o, "NONE", "PENDING")
  /\ UNCHANGED <<unclaimed, onHand>>

Claim(o) ==
  /\ Move(o, "PENDING", "PICKING")
  /\ \A k \in Kinds : Demand[o][k] <= unclaimed[k]
  /\ unclaimed' = [k \in Kinds |-> unclaimed[k] - Demand[o][k]]
  /\ UNCHANGED onHand

Ship(o) ==
  /\ Move(o, "PICKING", "SHIPPED")
  /\ onHand' = [k \in Kinds |-> onHand[k] - Demand[o][k]]
  /\ UNCHANGED unclaimed

(* Copies arrive, of one kind at a time, and can be claimed at once. *)
Arrive(k) ==
  /\ unclaimed' = [unclaimed EXCEPT ![k] = unclaimed'[k]]
  /\ unclaimed'[k] > unclaimed[k]
  /\ onHand' = [onHand EXCEPT ![k] = @ + unclaimed'[k] - unclaimed[k]]
  /\ UNCHANGED state

Next ==
  \/ \E o \in Orders : Place(o) \/ Claim(o) \/ Ship(o)
  \/ \E k \in Kinds : Arrive(k)

Spec == Init /\ [][Next]_vars
=============================================================================
