------------------------- MODULE OutboundRefinement -------------------------
(***************************************************************************)
(* The concurrent handlers of Outbound implement Fulfilment: seen from     *)
(* outside, a commit is one atomic step of it and everything before the    *)
(* commit is invisible.                                                    *)
(***************************************************************************)
EXTENDS Outbound

Grades == {LpnGrade[l] : l \in Lpns}
Kinds == Books \X (Grades \cup {NewStock})
CopiesIn(k, states) ==
  {l \in Lpns : LpnBook[l] = k[1] /\ LpnGrade[l] = k[2] /\ lpn[l] \in states}

Claimable(k) ==
  IF k[2] = NewStock
  THEN SumFunctionOnSet([r \in Rows |-> quantity[r] - reserved[r]], RowsOf(k[1]))
  ELSE Cardinality(CopiesIn(k, {"AVAILABLE"}))
OnHand(k) ==
  IF k[2] = NewStock
  THEN SumFunctionOnSet(quantity, RowsOf(k[1]))
  ELSE Cardinality(CopiesIn(k, {"AVAILABLE", "RESERVED"}))

Promise ==
  INSTANCE Fulfilment WITH
    Kinds <- Kinds,
    Demand <- [o \in Orders |-> [k \in Kinds |-> Requested(o, k[1], k[2])]],
    state <- status,
    unclaimed <- [k \in Kinds |-> Claimable(k)],
    onHand <- [k \in Kinds |-> OnHand(k)]

(* Every behaviour of the handlers, with their locks, snapshots, rollbacks *)
(* and deadlocks, is a behaviour of the abstract warehouse.                *)
KeepsPromise == Promise!Spec
=============================================================================
