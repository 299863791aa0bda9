--------------------------- MODULE EmployeeNumbers ---------------------------
(***************************************************************************)
(* The creation of employee accounts, one at a time or from a spreadsheet  *)
(* (services/auth_service.py, services/employee_bulk_excel_service.py).    *)
(*                                                                         *)
(* An employee number is the month of entry and a sequence number.  An     *)
(* upload takes an advisory lock per month, lowest month first, and gives  *)
(* the numbers after the highest one it reads; a single creation reads the *)
(* highest one without the lock.  Unique indexes on number and email       *)
(* reject a transaction that would repeat one, as a whole.                 *)
(***************************************************************************)
EXTENDS Naturals, FiniteSets, Sequences

CONSTANTS Handlers,
          Months,        \* months of entry, in the order of their prefixes
          Emails,
          NoEmail,
          Files,         \* the spreadsheets that may be uploaded
          MaxSequence,   \* MAX_MONTHLY_EMPLOYEE_SEQUENCE
          MaxRows,       \* MAX_EMPLOYEE_BULK_CREATE_ROWS
          MaxRequests    \* bound: requests

VARIABLES employees,   \* the accounts created so far
          job,         \* what each handler works on
          begun        \* number of requests so far

-----------------------------------------------------------------------------
(***************************************************************************)
(* Spreadsheets.  A row of a sheet is blank, invalid (its date, role, name *)
(* or email cannot be read) or describes a person: the month of entry, the *)
(* place that hire date and name give within it, and an email.             *)
(***************************************************************************)
Person == [month : Months, place : Nat, email : Emails \cup {NoEmail}]

Blank == [kind |-> "blank"]
Invalid == [kind |-> "invalid"]

\* Blank rows are skipped.
RowsOf(file) == SelectSeq(file.rows, LAMBDA row : row # Blank)

\* parse_employee_bulk_create_xlsx refuses the file as a whole: wrong headers,
\* an invalid row, no row at all or too many.
Parses(file) == /\ file.headers
                /\ Len(RowsOf(file)) \in 1..MaxRows
                /\ \A i \in 1..Len(RowsOf(file)) : RowsOf(file)[i] # Invalid

RepeatsEmail(rows) ==
    \E i, j \in 1..Len(rows) : i < j /\ rows[i].email = rows[j].email /\ rows[i].email # NoEmail

\* The people of one month in the order of hire date, name and row.
Rank(rows, i) ==
    Cardinality({j \in 1..Len(rows) :
        /\ rows[j].month = rows[i].month
        /\ \/ rows[j].place < rows[i].place
           \/ rows[j].place = rows[i].place /\ j <= i})

MonthsOf(rows) == {rows[i].month : i \in 1..Len(rows)}

Joining(rows, m) == Cardinality({i \in 1..Len(rows) : rows[i].month = m})

-----------------------------------------------------------------------------
\* An account; upload is 0 for a single creation.
Employee == [month : Months, sequence : Nat, email : Emails \cup {NoEmail}, upload : Nat]

NoJob == [step |-> "idle"]

NumbersInit == employees = {} /\ job = [h \in Handlers |-> NoJob]

Given(m) == {e.sequence : e \in {e \in employees : e.month = m}}

\* max(issued_sequences, default=0)
Last(m) == CHOOSE n \in {0} \cup Given(m) :
               \A k \in {0} \cup Given(m) : k <= n

Taken(e) == \E d \in employees : \/ d.month = e.month /\ d.sequence = e.sequence
                                 \/ d.email = e.email /\ e.email # NoEmail

Start(h, j) == /\ job[h] = NoJob
               /\ begun < MaxRequests
               /\ begun' = begun + 1
               /\ job' = [job EXCEPT ![h] = j]

End(h) == job' = [job EXCEPT ![h] = NoJob]

Registered(email) == email # NoEmail /\ \E e \in employees : e.email = email

-----------------------------------------------------------------------------
\* create_employee: the number after the highest one, read without a lock.
BeginSingle(h, m, email) ==
    /\ ~Registered(email)
    /\ Last(m) < MaxSequence
    /\ Start(h, [step |-> "single", month |-> m, sequence |-> Last(m) + 1, email |-> email])
    /\ UNCHANGED employees

CommitSingle(h) ==
    LET e == [month |-> job[h].month, sequence |-> job[h].sequence,
              email |-> job[h].email, upload |-> 0]
    IN /\ job[h].step = "single"
       /\ employees' = IF Taken(e) THEN employees ELSE employees \cup {e}
       /\ End(h)
       /\ UNCHANGED begun

-----------------------------------------------------------------------------
\* create_employees_bulk, up to its first lock.
BeginUpload(h, file) ==
    LET rows == RowsOf(file)
    IN /\ Parses(file)
       /\ ~RepeatsEmail(rows)
       /\ \A i \in 1..Len(rows) : ~Registered(rows[i].email)
       /\ Start(h, [step |-> "upload", rows |-> rows, base |-> [m \in {} |-> 0],
                    upload |-> begun + 1])
       /\ UNCHANGED employees

Uploading(h) == job[h].step = "upload"

\* The advisory locks of an upload, kept until its transaction ends.
HoldsMonth(h, m) == Uploading(h) /\ m \in DOMAIN job[h].base

\* The mistake: uploads read the highest number without the advisory lock
\* (UploadsDoNotCollide).
SlipMonthFree(h, m) == TRUE

MonthFree(h, m) == \A g \in Handlers \ {h} : ~HoldsMonth(g, m)

\* The next month in ascending order.
NextMonth(h, m) ==
    LET open == MonthsOf(job[h].rows) \ DOMAIN job[h].base
    IN m \in open /\ \A n \in open : m <= n

\* Locks a month and reads its highest number; without room for all the rows
\* of the month, the upload is rolled back.
LockMonth(h, m) ==
    /\ Uploading(h)
    /\ NextMonth(h, m)
    /\ MonthFree(h, m)
    /\ IF Last(m) + Joining(job[h].rows, m) > MaxSequence
       THEN End(h)
       ELSE job' = [job EXCEPT ![h].base =
                        [n \in DOMAIN @ \cup {m} |-> IF n = m THEN Last(m) ELSE @[n]]]
    /\ UNCHANGED <<employees, begun>>

NewAccounts(h) ==
    LET rows == job[h].rows
    IN {[month |-> rows[i].month, sequence |-> job[h].base[rows[i].month] + Rank(rows, i),
         email |-> rows[i].email, upload |-> job[h].upload] : i \in 1..Len(rows)}

\* All the accounts of the upload, or none.
CommitUpload(h) ==
    /\ Uploading(h)
    /\ DOMAIN job[h].base = MonthsOf(job[h].rows)
    /\ employees' = IF \E e \in NewAccounts(h) : Taken(e) THEN employees
                                                       ELSE employees \cup NewAccounts(h)
    /\ End(h)
    /\ UNCHANGED begun

NumbersNext ==
    \E h \in Handlers :
        \/ \E m \in Months, email \in Emails \cup {NoEmail} : BeginSingle(h, m, email)
        \/ CommitSingle(h)
        \/ \E file \in Files : BeginUpload(h, file)
        \/ \E m \in Months : LockMonth(h, m)
        \/ CommitUpload(h)

-----------------------------------------------------------------------------
(***************************************************************************)
(* Properties                                                              *)
(***************************************************************************)
\* Uploads never make each other fail: an account that another request gave a
\* number above what an upload has read comes from a single creation.
UploadsDoNotCollide ==
    \A h \in Handlers, e \in employees :
        HoldsMonth(h, e.month) /\ e.sequence > job[h].base[e.month] => e.upload = 0
=============================================================================
