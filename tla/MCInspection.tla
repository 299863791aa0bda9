---------------------------- MODULE MCInspection ----------------------------
(* Instances of InspectionPipeline for TLC.                                *)
EXTENDS InspectionInvariant, TLC

CONSTANTS c1, a1, a2, w1, w2, s1, s2, r1, r2

(* All jobs inspect the same copy. *)
MCCopyOf == [j \in Jobs |-> c1]

Limits(crash, limit, api, send, timeout) ==
  [f \in Faults |-> CASE f = "crash" -> crash [] f = "limit" -> limit
                      [] f = "api" -> api [] f = "send" -> send
                      [] f = "timeout" -> timeout]
SlowWms == Limits(0, 0, 0, 0, 1)
LostWorker == Limits(1, 0, 0, 0, 0)
LostMessage == Limits(0, 0, 0, 1, 0)
NoFaults == Limits(0, 0, 0, 0, 0)
OneOfEach == Limits(1, 1, 1, 1, 1)

Symmetry == Permutations(Workers) \cup Permutations(Servers)
              \cup Permutations(Clients)
=============================================================================
