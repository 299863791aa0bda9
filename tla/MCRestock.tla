------------------------------ MODULE MCRestock ------------------------------
(* Instances of Restock for TLC.                                           *)
EXTENDS RestockInvariant, TLC

CONSTANTS b1, j1, w1, w2, a1, a2

MCBookOf == [j \in Jobs |-> b1]
MCInitialStock == [b \in Books |-> 1]

Symmetry == Permutations(Workers) \cup Permutations(Admins)
=============================================================================
