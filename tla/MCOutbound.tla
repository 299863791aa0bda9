----------------------------- MODULE MCOutbound -----------------------------
(* Instances of Outbound for TLC.                                          *)
EXTENDS OutboundRefinement, OutboundInvariant, TLC

CONSTANTS b1, b2, o1, o2, o3, s1, s2, d1, d2, k1

New(b, n) == [book |-> b, grade |-> NewStock, quantity |-> n]
Used(b) == [book |-> b, grade |-> "NORMAL", quantity |-> 1]

(* Book b1 on shelves 1 and 2, book b2 on shelf 3, one rack. *)
MCRowBook == [r \in Rows |-> IF r = 3 THEN b2 ELSE b1]
MCRackOf == [b \in Books |-> k1]
MCInitialStock == [r \in Rows |-> 1]
MCInitialVirtual ==
  [b \in Books |-> SumFunctionOnSet(MCInitialStock, RowsOf(b))]
MCLpnBook == [l \in Lpns |-> b1]
MCLpnGrade == [l \in Lpns |-> "NORMAL"]

(* More is ordered than there is, until the deliveries arrive. *)
MCOrderLines == (o1 :> <<Used(b1), New(b1, 1)>>)
             @@ (o2 :> <<Used(b1), New(b1, 2), New(b2, 1)>>)
             @@ (o3 :> <<Used(b1)>>)
MCDeliveryBook == d1 :> b1 @@ d2 :> b2
MCDeliveryQty == [d \in Deliveries |-> 1]

Symmetry == Permutations(Sessions)
=============================================================================
