----------------------------- MODULE MCAccounts -----------------------------
(***************************************************************************)
(* Two masters who may also be made administrators, or one master and a    *)
(* new colleague; two months of entry with room for three, a sheet that    *)
(* spans both months, a sheet with a known email and one that is refused.  *)
(***************************************************************************)
EXTENDS Accounts, SessionsInvariant, NumbersInvariant

CONSTANTS u1, u2, e1

RowOf(role, fresh) == [role |-> role, status |-> "ACTIVE", version |-> 0,
                       refresh |-> NoToken, password |-> 0, mustChange |-> fresh]

StartRows == { [u \in Users |-> RowOf("MASTER", FALSE)],
               [u \in Users |-> IF u = u1 THEN RowOf("MASTER", FALSE)
                                          ELSE RowOf("ADMIN", TRUE)] }

Joiner(m, place, email) == [month |-> m, place |-> place, email |-> email]

BlankRow == [kind |-> "blank"]
InvalidRow == [kind |-> "invalid"]

Sheets ==
    { [headers |-> TRUE, rows |-> <<Joiner(2, 1, NoEmail), BlankRow, Joiner(1, 2, NoEmail),
                                    Joiner(1, 1, NoEmail)>>],
      [headers |-> TRUE, rows |-> <<Joiner(1, 1, e1), Joiner(2, 1, NoEmail)>>],
      [headers |-> TRUE, rows |-> <<Joiner(1, 1, e1), InvalidRow>>] }
=============================================================================
