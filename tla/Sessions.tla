------------------------------ MODULE Sessions ------------------------------
(***************************************************************************)
(* Login, token refresh, logout, password change and the administration of *)
(* roles and states (api/routes/auth.py, api/routes/admin_users.py and     *)
(* services/auth_service.py).                                              *)
(*                                                                         *)
(* A request is a transaction at READ COMMITTED.  Login, password change   *)
(* and administration read the row of the user without a lock and write it *)
(* at the commit; the mapper writes the columns whose value differs from   *)
(* the one it read, and no others.  Refresh and logout find the row by the *)
(* hash of the token and keep it locked until they commit.  A request that *)
(* is refused before it has read anything changes nothing and is left out. *)
(***************************************************************************)
EXTENDS Naturals, FiniteSets

CONSTANTS Users, Handlers,
          Roles,         \* UserRole, with "MASTER" and "ADMIN"
          InitialRows,   \* the user tables the database may start with
          MaxRequests    \* bound: requests that change a session or an account

VARIABLES account,   \* the row of each user
          request,   \* what each handler works on
          issued,    \* number of refresh tokens so far
          cookies,   \* refresh tokens handed to browsers
          lapsed,    \* refresh tokens past their expiry
          access,    \* access tokens handed to browsers
          begun,     \* number of requests so far
          raced,     \* users whose auth_version was written from a stale read
          blind      \* a master was removed on a count that no longer held

vars == <<account, request, issued, cookies, lapsed, access, begun, raced, blind>>

-----------------------------------------------------------------------------
(***************************************************************************)
(* Rows, tokens and requests                                               *)
(***************************************************************************)
Statuses == {"ACTIVE", "INACTIVE"}

\* A refresh token: its number, the login it descends from, the token it
\* replaced and the password that login was made with.
Token == [id : Nat, login : Nat, parent : Nat, password : Nat]

NoToken == [id |-> 0, login |-> 0, parent |-> 0, password |-> 0]

Row == [role : Roles, status : Statuses, version : Nat, refresh : Token,
        password : Nat, mustChange : BOOLEAN]

ActiveMastersOf(rows) ==
    {u \in Users : rows[u].role = "MASTER" /\ rows[u].status = "ACTIVE"}

ASSUME UsersAssumption == IsFiniteSet(Users)

ASSUME RolesAssumption == {"MASTER", "ADMIN"} \subseteq Roles

\* Nobody is logged in when the server starts, and the seeded master exists.
ASSUME InitialRowsAssumption ==
    \A rows \in InitialRows : /\ rows \in [Users -> Row]
                              /\ \A u \in Users : rows[u].refresh = NoToken
                              /\ ActiveMastersOf(rows) # {}

Cookie == [user : Users, token : Token]

Access == [user : Users, version : Nat, login : Nat]

\* An update of one column of a user by a master.
Change == [column : {"role"}, value : Roles] \cup [column : {"status"}, value : Statuses]

NoRequest == [step |-> "idle"]

OwnRequest == [step : {"login", "refresh", "logout", "password"}, user : Users, seen : Row]

Authorised == [step : {"authorised"}, user : Users, change : Change]

Checked == [step : {"checked"}, user : Users, change : Change, seen : Row, masters : Nat]

Init ==
    /\ account \in InitialRows
    /\ request = [h \in Handlers |-> NoRequest]
    /\ issued = 0
    /\ cookies = {}
    /\ lapsed = {}
    /\ access = {}
    /\ begun = 0
    /\ raced = {}
    /\ blind = FALSE

-----------------------------------------------------------------------------
(***************************************************************************)
(* Transactions                                                            *)
(***************************************************************************)
Begin(h, r) == /\ request[h] = NoRequest
               /\ begun < MaxRequests
               /\ begun' = begun + 1
               /\ request' = [request EXCEPT ![h] = r]

Finish(h) == request' = [request EXCEPT ![h] = NoRequest]

\* get_user_by_refresh_token keeps the row locked until its transaction ends.
HoldsRow(h, u) == request[h].step \in {"refresh", "logout"} /\ request[h].user = u

\* The mistake: the token is looked up without locking the row (ExchangedOnce,
\* KeepsSessions, OnlyActiveRefreshes).
SlipRowFree(h, u) == TRUE

\* No other handler keeps the row: it may be locked or written.
RowFree(h, u) == \A g \in Handlers \ {h} : ~HoldsRow(g, u)

\* The flush of a mapped row: a column is written if its new value differs
\* from the one that was read, and keeps what the table has otherwise.
Flush(seen, new, row) ==
    LET Column(was, now, is) == IF now # was THEN now ELSE is
    IN [role |-> Column(seen.role, new.role, row.role),
        status |-> Column(seen.status, new.status, row.status),
        version |-> Column(seen.version, new.version, row.version),
        refresh |-> Column(seen.refresh, new.refresh, row.refresh),
        password |-> Column(seen.password, new.password, row.password),
        mustChange |-> Column(seen.mustChange, new.mustChange, row.mustChange)]

Write(h, new) ==
    LET u == request[h].user
    IN /\ RowFree(h, u)
       /\ account' = [account EXCEPT ![u] = Flush(request[h].seen, new, account[u])]

\* Remembers a version that is written over one the request has not read.
NoteRace(h) ==
    LET u == request[h].user
    IN raced' = IF request[h].seen.version = account[u].version THEN raced ELSE raced \cup {u}

\* The response sets a cookie and carries an access token for this version.
HandOut(u, token, version) ==
    /\ issued' = issued + 1
    /\ cookies' = cookies \cup {[user |-> u, token |-> token]}
    /\ access' = access \cup {[user |-> u, version |-> version, login |-> token.login]}

-----------------------------------------------------------------------------
(***************************************************************************)
(* POST /login                                                             *)
(***************************************************************************)
\* authenticate_user: the password is the one of the row that was read.
BeginLogin(h, u) ==
    /\ account[u].status = "ACTIVE"
    /\ Begin(h, [step |-> "login", user |-> u, seen |-> account[u]])
    /\ UNCHANGED <<account, issued, cookies, lapsed, access, raced, blind>>

\* create_refresh_session_for_login and the commit.
CommitLogin(h) ==
    LET u == request[h].user
        seen == request[h].seen
        token == [id |-> issued + 1, login |-> issued + 1, parent |-> 0,
                  password |-> seen.password]
    IN /\ request[h].step = "login"
       /\ Write(h, [seen EXCEPT !.version = @ + 1, !.refresh = token])
       /\ HandOut(u, token, seen.version + 1)
       /\ NoteRace(h)
       /\ Finish(h)
       /\ UNCHANGED <<lapsed, begun, blind>>

-----------------------------------------------------------------------------
(***************************************************************************)
(* POST /refresh and POST /logout                                          *)
(***************************************************************************)
\* The row whose token is in the cookie, once its lock is free.
FindRow(h, c) ==
    /\ RowFree(h, c.user)
    /\ account[c.user].refresh = c.token
    /\ c.token.id \notin lapsed

\* validate_refresh_user: only an active user may go on.
BeginRefresh(h, c) ==
    /\ FindRow(h, c)
    /\ account[c.user].status = "ACTIVE"
    /\ Begin(h, [step |-> "refresh", user |-> c.user, seen |-> account[c.user]])
    /\ UNCHANGED <<account, issued, cookies, lapsed, access, raced, blind>>

\* rotate_refresh_session: a new token of the same session, at the same version.
CommitRefresh(h) ==
    LET u == request[h].user
        seen == request[h].seen
        token == [seen.refresh EXCEPT !.id = issued + 1, !.parent = seen.refresh.id]
    IN /\ request[h].step = "refresh"
       /\ Write(h, [seen EXCEPT !.refresh = token])
       /\ HandOut(u, token, seen.version)
       /\ Finish(h)
       /\ UNCHANGED <<lapsed, begun, raced, blind>>

BeginLogout(h, c) ==
    /\ FindRow(h, c)
    /\ Begin(h, [step |-> "logout", user |-> c.user, seen |-> account[c.user]])
    /\ UNCHANGED <<account, issued, cookies, lapsed, access, raced, blind>>

\* The mistake: the access tokens handed out stay valid (SessionsFollowLogins).
SlipRevoked(row) == [row EXCEPT !.refresh = NoToken]

\* revoke_refresh_session
Revoked(row) == [row EXCEPT !.refresh = NoToken, !.version = @ + 1]

CommitLogout(h) ==
    /\ request[h].step = "logout"
    /\ Write(h, Revoked(request[h].seen))
    /\ NoteRace(h)
    /\ Finish(h)
    /\ UNCHANGED <<issued, cookies, lapsed, access, begun, blind>>

\* refresh_token_expires_at passes.
Lapse(c) ==
    /\ c.token.id \notin lapsed
    /\ lapsed' = lapsed \cup {c.token.id}
    /\ UNCHANGED <<account, request, issued, cookies, access, begun, raced, blind>>

-----------------------------------------------------------------------------
(***************************************************************************)
(* PATCH /password                                                         *)
(***************************************************************************)
\* get_authenticated_user: the version of the token and the state of the user
\* are those of the row.
Accepted(a) == /\ a.version = account[a.user].version
               /\ account[a.user].status = "ACTIVE"

BeginPassword(h, a) ==
    /\ Accepted(a)
    /\ Begin(h, [step |-> "password", user |-> a.user, seen |-> account[a.user]])
    /\ UNCHANGED <<account, issued, cookies, lapsed, access, raced, blind>>

\* change_password: the new password differs from the one that was read.
CommitPassword(h) ==
    LET seen == request[h].seen
    IN /\ request[h].step = "password"
       /\ Write(h, [Revoked(seen) EXCEPT !.password = begun, !.mustChange = FALSE])
       /\ NoteRace(h)
       /\ Finish(h)
       /\ UNCHANGED <<issued, cookies, lapsed, access, begun, blind>>

-----------------------------------------------------------------------------
(***************************************************************************)
(* PATCH /{user_id}/role and /{user_id}/status                             *)
(***************************************************************************)
\* require_master
MayManage(a) == /\ Accepted(a)
                /\ ~account[a.user].mustChange
                /\ account[a.user].role = "MASTER"

\* Nobody changes the own role or state.
Authorise(h, a, u, change) ==
    /\ MayManage(a)
    /\ u # a.user
    /\ Begin(h, [step |-> "authorised", user |-> u, change |-> change])
    /\ UNCHANGED <<account, issued, cookies, lapsed, access, raced, blind>>

Updated(row, change) == IF change.column = "role" THEN [row EXCEPT !.role = change.value]
                                                  ELSE [row EXCEPT !.status = change.value]

IsActiveMaster(row) == row.role = "MASTER" /\ row.status = "ACTIVE"

\* The update takes an active master away.
Removes(row, change) == IsActiveMaster(row) /\ ~IsActiveMaster(Updated(row, change))

\* count_active_masters
ActiveMasters == ActiveMastersOf(account)

\* The mistake: the master that is about to go is not counted (MastersRemain).
SlipLastMaster(row, change) == Removes(row, change) /\ Cardinality(ActiveMasters) < 1

LastMaster(row, change) == Removes(row, change) /\ Cardinality(ActiveMasters) <= 1

\* Reads the row of the target, and the number of masters if one would go;
\* the last one stays.
CheckTarget(h) ==
    LET r == request[h]
        row == account[r.user]
    IN /\ r.step = "authorised"
       /\ IF LastMaster(row, r.change)
          THEN Finish(h)
          ELSE request' = [request EXCEPT ![h] =
                   [step |-> "checked", user |-> r.user, change |-> r.change, seen |-> row,
                    masters |-> IF Removes(row, r.change) THEN Cardinality(ActiveMasters)
                                                          ELSE 0]]
       /\ UNCHANGED <<account, issued, cookies, lapsed, access, begun, raced, blind>>

\* save_user.  A master that goes although the count was never taken, or has
\* sunk since, is noted.
CommitChange(h) ==
    LET r == request[h]
    IN /\ r.step = "checked"
       /\ Write(h, Updated(r.seen, r.change))
       /\ blind' = (blind \/ /\ IsActiveMaster(account[r.user])
                             /\ ~IsActiveMaster(account'[r.user])
                             /\ r.masters = 0 \/ Cardinality(ActiveMasters) < r.masters)
       /\ Finish(h)
       /\ UNCHANGED <<issued, cookies, lapsed, access, begun, raced>>

-----------------------------------------------------------------------------
Next ==
    \/ \E h \in Handlers :
          \/ \E u \in Users : BeginLogin(h, u)
          \/ \E c \in cookies : BeginRefresh(h, c) \/ BeginLogout(h, c)
          \/ \E a \in access : BeginPassword(h, a)
          \/ \E a \in access, u \in Users, change \in Change : Authorise(h, a, u, change)
          \/ CommitLogin(h) \/ CommitRefresh(h) \/ CommitLogout(h) \/ CommitPassword(h)
          \/ CheckTarget(h) \/ CommitChange(h)
    \/ \E c \in cookies : Lapse(c)

Spec == Init /\ [][Next]_vars

-----------------------------------------------------------------------------
(***************************************************************************)
(* Properties                                                              *)
(***************************************************************************)
\* Every variable has its type.
TypeOK ==
    /\ account \in [Users -> Row]
    /\ request \in [Handlers -> {NoRequest} \cup OwnRequest \cup Authorised \cup Checked]
    /\ issued \in Nat
    /\ cookies \subseteq Cookie
    /\ lapsed \subseteq Nat
    /\ access \subseteq Access
    /\ begun \in Nat
    /\ raced \subseteq Users
    /\ blind \in BOOLEAN

\* A refresh token is exchanged once: when the same token is presented twice at
\* the same time, the lock on the row lets one request find it and no other.
ExchangedOnce ==
    \A c, d \in cookies : c.token.parent = d.token.parent /\ c.token.parent # 0 => c = d

\* While no version of a user was written from a stale read: an access token
\* that is accepted belongs to the login whose refresh session the user holds,
\* and that login was made with the password in force.
SessionsFollowLogins ==
    \A a \in access :
        Accepted(a) /\ a.user \notin raced =>
            /\ account[a.user].refresh.login = a.login
            /\ account[a.user].refresh.password = account[a.user].password

\* Deactivation wins over a refresh under way: no token is exchanged for a user
\* who is inactive when the exchange commits.
OnlyActiveRefreshes ==
    [][\A u \in Users : LET old == account[u].refresh
                           new == account'[u].refresh
                       IN old # new /\ new.parent # 0 => account[u].status = "ACTIVE"]_vars

\* An active master is left, unless two requests had both counted before either
\* removed one, or the target became a master after it was read.
MastersRemain == ActiveMasters # {} \/ blind

\* What the login says of itself: a new login ends the sessions before it, so
\* that all accepted access tokens of a user stem from one login.  It does NOT
\* hold (two logins that read the same version) and no run checks it.
NewLoginEndsOthers ==
    \A a, b \in access : Accepted(a) /\ Accepted(b) /\ a.user = b.user => a.login = b.login

\* What the error text says: the last active master cannot be demoted or
\* deactivated.  It does NOT hold (two masters who remove each other) and no run
\* checks it; MastersRemain is what is left of it.
LastMasterStays == ActiveMasters # {}

\* The refresh sessions implement the abstract LoginSession: one per user, opened
\* by a login, and never back once closed or replaced.
Promise == INSTANCE LoginSession
    WITH holder <- [u \in Users |-> account[u].refresh.login],
         opened <- {c.token.login : c \in cookies}

KeepsSessions == Promise!Spec
=============================================================================
