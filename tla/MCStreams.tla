----------------------------- MODULE MCStreams ------------------------------
(* One job, one worker and one browser that loses its connection once.     *)
EXTENDS Streams, TLC

CONSTANTS c1, a1, w1, s1, r1, v1

MCCopyOf == [j \in Jobs |-> c1]

Lost == [f \in Faults |-> IF f \in {"crash", "send", "limit"} THEN 1 ELSE 0]
=============================================================================
