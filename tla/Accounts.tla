------------------------------ MODULE Accounts ------------------------------
(***************************************************************************)
(* The account API as a whole: the sessions, and the creation of accounts  *)
(* by a master whose access token is accepted (api/routes/admin_users.py). *)
(* Both draw on the same number of requests.                               *)
(***************************************************************************)
EXTENDS Sessions, Sequences

CONSTANTS Months, Emails, NoEmail, Files, MaxSequence, MaxRows

VARIABLES employees, job

INSTANCE EmployeeNumbers

ASSUME MonthsAssumption == Months \subseteq Nat

ASSUME LimitsAssumption == MaxSequence \in Nat /\ MaxRows \in Nat

ASSUME FilesAssumption ==
    \A f \in Files : /\ f.headers \in BOOLEAN
                     /\ f.rows \in Seq(Person \cup {Blank, Invalid})

\* Without the blank rows, the others stay what they were.
ASSUME RowsAssumption ==
    \A f \in Files : RowsOf(f) \in Seq(Person \cup {Invalid})

accountsVars == <<account, request, issued, cookies, lapsed, access, begun, raced, blind,
                  employees, job>>

AccountsInit == Init /\ NumbersInit

\* require_master admits the request that starts.
StaffRequest == NumbersNext /\ (begun' # begun => \E a \in access : MayManage(a))

AccountsNext ==
    \/ Next /\ UNCHANGED <<employees, job>>
    \/ /\ StaffRequest
       /\ UNCHANGED <<account, request, issued, cookies, lapsed, access, raced, blind>>

AccountsSpec == AccountsInit /\ [][AccountsNext]_accountsVars
=============================================================================
