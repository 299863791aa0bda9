---------------------------- MODULE LoginSession ----------------------------
(***************************************************************************)
(* What the login API promises of refresh sessions: a user holds at most   *)
(* one, every login opens a session that nobody had before, and a session  *)
(* that was closed or replaced never comes back.                           *)
(***************************************************************************)
EXTENDS Naturals

CONSTANT Users

VARIABLES holder,   \* the session each user holds, 0 for none
          opened    \* the sessions that were ever opened

Init == /\ holder = [u \in Users |-> 0]
        /\ opened = {}

Open(u) == LET s == holder'[u]
           IN /\ s \in Nat \ (opened \cup {0})
              /\ holder' = [holder EXCEPT ![u] = s]
              /\ opened' = opened \cup {s}

Close(u) == /\ holder' = [holder EXCEPT ![u] = 0]
            /\ UNCHANGED opened

Next == \E u \in Users : Open(u) \/ Close(u)

Spec == Init /\ [][Next]_<<holder, opened>>
=============================================================================
