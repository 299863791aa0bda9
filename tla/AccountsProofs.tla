--------------------------- MODULE AccountsProofs ----------------------------
(***************************************************************************)
(* What TLAPS proves of the sessions, for any number of users, requests    *)
(* and handlers and together with the creation of accounts: a refresh      *)
(* token is exchanged once, and never for an inactive user; an accepted    *)
(* access token belongs to the session and the password in force; a master *)
(* stays; the sessions implement LoginSession; uploads never draw a number *)
(* that another has drawn, and no number outgrows its digits.              *)
(***************************************************************************)
EXTENDS Accounts, SessionsInvariant, NumbersInvariant, Sums, FiniteSetTheorems, TLAPS

(* A step of the account API as the sessions see it: one of theirs, or one *)
(* of the creation of accounts, which only counts its requests.            *)
StaffStep == /\ UNCHANGED <<account, request, issued, cookies, lapsed, access, raced, blind>>
             /\ begun' \in Nat

Commits(h) == CommitLogin(h) \/ CommitRefresh(h) \/ CommitLogout(h) \/ CommitPassword(h)
                 \/ CommitChange(h)

Begins(h) == \/ \E u \in Users : BeginLogin(h, u)
             \/ \E c \in cookies : BeginRefresh(h, c) \/ BeginLogout(h, c)
             \/ \E a \in access : BeginPassword(h, a)
             \/ \E a \in access, u \in Users, change \in Change : Authorise(h, a, u, change)
             \/ CheckTarget(h)

OwnSteps == {"login", "refresh", "logout", "password"}

(* The kind of a request is told by its step.                              *)
LEMMA RequestKinds ==
  ASSUME TypeOK, NEW h \in Handlers
  PROVE  /\ request[h].step \in OwnSteps => request[h] \in OwnRequest
         /\ request[h].step = "authorised" => request[h] \in Authorised
         /\ request[h].step = "checked" => request[h] \in Checked
PROOF
<1>1. request[h] \in {NoRequest} \cup OwnRequest \cup Authorised \cup Checked
  BY DEF TypeOK
<1> QED BY <1>1 DEF NoRequest, OwnRequest, Authorised, Checked, OwnSteps

(* NoToken is a token and a held one has a number.                         *)
LEMMA TokenFields ==
  /\ NoToken \in Token
  /\ NoToken.id = 0 /\ NoToken.login = 0
  /\ \A t \in Token : t.id # 0 => t # NoToken
PROOF
  BY DEF NoToken, Token

(* What a flush writes, column by column.                                  *)
LEMMA FlushedColumns ==
  ASSUME NEW seen \in Row, NEW new \in Row, NEW row \in Row
  PROVE  LET r == Flush(seen, new, row)
             Column(was, now, is) == IF now # was THEN now ELSE is
         IN /\ r \in Row
            /\ r.role = Column(seen.role, new.role, row.role)
            /\ r.status = Column(seen.status, new.status, row.status)
            /\ r.version = Column(seen.version, new.version, row.version)
            /\ r.refresh = Column(seen.refresh, new.refresh, row.refresh)
            /\ r.password = Column(seen.password, new.password, row.password)
PROOF
  BY DEF Flush, Row

(* The rows that requests write.                                           *)
LEMMA NewRows ==
  ASSUME NEW row \in Row
  PROVE  /\ \A t \in Token : [row EXCEPT !.version = @ + 1, !.refresh = t] \in Row
         /\ \A t \in Token : [row EXCEPT !.refresh = t] \in Row
         /\ Revoked(row) \in Row
         /\ \A n \in Nat : [Revoked(row) EXCEPT !.password = n, !.mustChange = FALSE] \in Row
         /\ \A change \in Change : Updated(row, change) \in Row
PROOF
<1>1. \A t \in Token : [row EXCEPT !.version = @ + 1, !.refresh = t] \in Row
  <2>1. row.version + 1 \in Nat
    BY DEF Row
  <2>2. \A n \in Nat, t \in Token : [row EXCEPT !.version = n, !.refresh = t] \in Row
    BY DEF Row
  <2> QED BY <2>1, <2>2
<1>2. \A t \in Token : [row EXCEPT !.refresh = t] \in Row
  BY DEF Row
<1>3. Revoked(row) \in Row
  <2>1. NoToken \in Token
    BY TokenFields
  <2>2. row.version + 1 \in Nat
    BY DEF Row
  <2>3. \A n \in Nat, t \in Token : [row EXCEPT !.refresh = t, !.version = n] \in Row
    BY DEF Row
  <2> QED BY <2>1, <2>2, <2>3 DEF Revoked
<1>4. \A n \in Nat : [Revoked(row) EXCEPT !.password = n, !.mustChange = FALSE] \in Row
  BY <1>3 DEF Row
<1>5. ASSUME NEW change \in Change PROVE Updated(row, change) \in Row
  <2>1. CASE change \in [column : {"role"}, value : Roles]
    BY <2>1 DEF Updated, Row
  <2>2. CASE change \in [column : {"status"}, value : Statuses]
    BY <2>2 DEF Updated, Row
  <2> QED BY <2>1, <2>2 DEF Change
<1> QED BY <1>1, <1>2, <1>3, <1>4, <1>5

(* What a commit writes: one row, after which its request is over.         *)
LEMMA Written ==
  ASSUME TypeOK, NEW h \in Handlers, NEW new \in Row, Write(h, new),
         request[h] \in OwnRequest \cup Checked
  PROVE  LET u == request[h].user
             seen == request[h].seen
             r == account'[u]
             Column(was, now, is) == IF now # was THEN now ELSE is
         IN /\ u \in Users /\ seen \in Row
            /\ account' \in [Users -> Row]
            /\ \A v \in Users : v # u => account'[v] = account[v]
            /\ r.role = Column(seen.role, new.role, account[u].role)
            /\ r.status = Column(seen.status, new.status, account[u].status)
            /\ r.version = Column(seen.version, new.version, account[u].version)
            /\ r.refresh = Column(seen.refresh, new.refresh, account[u].refresh)
            /\ r.password = Column(seen.password, new.password, account[u].password)
PROOF
<1> DEFINE u == request[h].user
           seen == request[h].seen
<1>1. u \in Users /\ seen \in Row
  BY DEF OwnRequest, Checked
<1>2. account \in [Users -> Row] /\ account[u] \in Row
  BY <1>1 DEF TypeOK
<1>3. account' = [account EXCEPT ![u] = Flush(seen, new, account[u])]
  BY DEF Write
<1>4. Flush(seen, new, account[u]) \in Row
  BY <1>1, <1>2, FlushedColumns
<1>5. account'[u] = Flush(seen, new, account[u])
  BY <1>1, <1>2, <1>3
<1> QED BY <1>1, <1>2, <1>3, <1>4, <1>5, FlushedColumns

(* The row after a login: one version on, with the new session.            *)
LEMMA LoginWrites ==
  ASSUME TypeOK, SeenTokensAreOld, NEW h \in Handlers, CommitLogin(h)
  PROVE  LET u == request[h].user
             seen == request[h].seen
             token == [id |-> issued + 1, login |-> issued + 1, parent |-> 0,
                       password |-> seen.password]
         IN /\ request[h] \in OwnRequest /\ token \in Token
            /\ u \in Users /\ seen \in Row
            /\ account' \in [Users -> Row]
            /\ \A v \in Users : v # u => account'[v] = account[v]
            /\ account'[u].version = seen.version + 1
            /\ account'[u].refresh = token
            /\ account'[u].password = account[u].password
            /\ account'[u].role = account[u].role
            /\ account'[u].status = account[u].status
PROOF
<1> DEFINE u == request[h].user
           seen == request[h].seen
           token == [id |-> issued + 1, login |-> issued + 1, parent |-> 0,
                     password |-> seen.password]
           new == [seen EXCEPT !.version = @ + 1, !.refresh = token]
<1>1. request[h] \in OwnRequest
  BY RequestKinds DEF CommitLogin, OwnSteps
<1>2. u \in Users /\ seen \in Row
  BY <1>1 DEF OwnRequest
<1>3. token \in Token /\ seen.refresh.id < token.id
  BY <1>2 DEF Token, Row, TypeOK, SeenTokensAreOld, CommitLogin
<1>4. new \in Row
  <2> HIDE DEF token
  <2> QED BY <1>2, <1>3, NewRows
<1>5. /\ new.version = seen.version + 1 /\ new.refresh = token
      /\ new.password = seen.password /\ new.role = seen.role /\ new.status = seen.status
  <2> HIDE DEF token
  <2> QED BY <1>2 DEF Row
<1>6. new.version # seen.version /\ new.refresh # seen.refresh
  <2> HIDE DEF new, token
  <2>1. token # seen.refresh
    <3>1. seen.refresh.id \in Nat
      BY <1>2 DEF Row, Token
    <3>2. token.id \in Nat
      BY <1>3 DEF Token
    <3> QED BY <1>3, <3>1, <3>2
  <2>2. seen.version \in Nat
    BY <1>2 DEF Row
  <2> QED BY <1>5, <2>1, <2>2
<1>7. Write(h, new)
  BY DEF CommitLogin
<1> HIDE DEF new
<1> QED BY <1>1, <1>2, <1>3, <1>4, <1>5, <1>6, <1>7, Written

(* The row after a refresh: the same session and version, a new token.     *)
LEMMA RefreshWrites ==
  ASSUME TypeOK, SeenTokensAreOld, LockHolderIsCurrent, NEW h \in Handlers, CommitRefresh(h)
  PROVE  LET u == request[h].user
             token == [id |-> issued + 1, login |-> account[u].refresh.login,
                       parent |-> account[u].refresh.id,
                       password |-> account[u].refresh.password]
         IN /\ request[h] \in OwnRequest /\ token \in Token
            /\ u \in Users /\ request[h].seen = account[u]
            /\ [request[h].seen.refresh EXCEPT !.id = issued + 1,
                                               !.parent = request[h].seen.refresh.id] = token
            /\ account[u].refresh # NoToken
            /\ account[u].status = "ACTIVE"
            /\ account' \in [Users -> Row]
            /\ \A v \in Users : v # u => account'[v] = account[v]
            /\ account'[u].version = account[u].version
            /\ account'[u].refresh = token
            /\ account'[u].password = account[u].password
            /\ account'[u].role = account[u].role
            /\ account'[u].status = account[u].status
PROOF
<1> DEFINE u == request[h].user
           seen == request[h].seen
           token == [id |-> issued + 1, login |-> account[u].refresh.login,
                     parent |-> account[u].refresh.id,
                     password |-> account[u].refresh.password]
           new == [seen EXCEPT !.refresh = token]
<1>1. request[h] \in OwnRequest
  BY RequestKinds DEF CommitRefresh, OwnSteps
<1>2. u \in Users /\ seen \in Row
  BY <1>1 DEF OwnRequest
<1>3. seen = account[u] /\ account[u].refresh # NoToken /\ account[u].status = "ACTIVE"
  BY <1>2 DEF LockHolderIsCurrent, HoldsRow, CommitRefresh
<1>4. account[u].refresh \in Token /\ issued \in Nat /\ issued + 1 \in Nat
  BY <1>2, <1>3 DEF Row, TypeOK
<1>5. token \in Token
  BY <1>4 DEF Token
<1>6. [seen.refresh EXCEPT !.id = issued + 1, !.parent = seen.refresh.id] = token
  <2>1. ASSUME NEW t \in Token, NEW n \in Nat, NEW p \in Nat
        PROVE  [t EXCEPT !.id = n, !.parent = p] =
                   [id |-> n, login |-> t.login, parent |-> p, password |-> t.password]
    <3> DEFINE e == [t EXCEPT !.id = n, !.parent = p]
               f == [id |-> n, login |-> t.login, parent |-> p, password |-> t.password]
    <3>1. e \in Token /\ f \in Token
      BY DEF Token
    <3>2. /\ e.id = f.id /\ e.login = f.login
          /\ e.parent = f.parent /\ e.password = f.password
      BY DEF Token
    <3> HIDE DEF e, f
    <3>3. e = f
      BY <3>1, <3>2 DEF Token
    <3> QED BY <3>3 DEF e, f
  <2>2. account[u].refresh.id \in Nat
    BY <1>4 DEF Token
  <2>3. [account[u].refresh EXCEPT !.id = issued + 1, !.parent = account[u].refresh.id] = token
    BY <1>4, <2>1, <2>2
  <2> QED BY <1>3, <2>3
<1>7. token # seen.refresh
  <2>1. seen.refresh.id <= issued
    BY <1>2 DEF SeenTokensAreOld, CommitRefresh
  <2>2. token.id = issued + 1
    OBVIOUS
  <2>3. seen.refresh.id \in Nat
    BY <1>3, <1>4 DEF Token
  <2> HIDE DEF token, seen
  <2> QED BY <1>4, <2>1, <2>2, <2>3
<1> HIDE DEF token
<1>8. new \in Row
  BY <1>2, <1>5, NewRows
<1>9. /\ new.version = seen.version /\ new.refresh = token
      /\ new.password = seen.password /\ new.role = seen.role /\ new.status = seen.status
  BY <1>2 DEF Row
<1>10. Write(h, new)
  BY <1>6 DEF CommitRefresh
<1> HIDE DEF new
<1>11. /\ account' \in [Users -> Row]
       /\ \A v \in Users : v # u => account'[v] = account[v]
       /\ account'[u].version = account[u].version
       /\ account'[u].refresh = token
       /\ account'[u].password = account[u].password
       /\ account'[u].role = account[u].role
       /\ account'[u].status = account[u].status
  BY <1>1, <1>7, <1>8, <1>9, <1>10, Written
<1> QED BY <1>1, <1>2, <1>3, <1>5, <1>6, <1>11 DEF token

(* The row after a logout or a change of the password: one version on, and *)
(* the session that was seen is gone.                                      *)
LEMMA RevocationWrites ==
  ASSUME TypeOK, NEW h \in Handlers, CommitLogout(h) \/ CommitPassword(h)
  PROVE  LET u == request[h].user
             seen == request[h].seen
         IN /\ request[h] \in OwnRequest
            /\ u \in Users /\ seen \in Row
            /\ account' \in [Users -> Row]
            /\ \A v \in Users : v # u => account'[v] = account[v]
            /\ account'[u].version = seen.version + 1
            /\ account'[u].refresh = IF seen.refresh # NoToken THEN NoToken
                                                               ELSE account[u].refresh
            /\ account'[u].role = account[u].role
            /\ account'[u].status = account[u].status
PROOF
<1> DEFINE u == request[h].user
           seen == request[h].seen
           new == IF CommitLogout(h) THEN Revoked(seen)
                  ELSE [Revoked(seen) EXCEPT !.password = begun, !.mustChange = FALSE]
<1>1. request[h] \in OwnRequest
  BY RequestKinds DEF CommitLogout, CommitPassword, OwnSteps
<1>2. u \in Users /\ seen \in Row
  BY <1>1 DEF OwnRequest
<1>3. begun \in Nat
  BY DEF TypeOK
<1>4. Revoked(seen) \in Row /\ new \in Row
  BY <1>2, <1>3, NewRows
<1>5. /\ Revoked(seen).version = seen.version + 1 /\ Revoked(seen).refresh = NoToken
      /\ Revoked(seen).role = seen.role /\ Revoked(seen).status = seen.status
  BY <1>2 DEF Row, Revoked
<1>6. /\ new.version = seen.version + 1 /\ new.refresh = NoToken
      /\ new.role = seen.role /\ new.status = seen.status
  BY <1>4, <1>5 DEF Row
<1>7. new.version # seen.version
  BY <1>2, <1>6 DEF Row
<1>8. Write(h, new)
  BY DEF CommitLogout, CommitPassword
<1> HIDE DEF new
<1> QED BY <1>1, <1>2, <1>4, <1>6, <1>7, <1>8, Written

(* The row after an update by a master: version, session and password are  *)
(* what they were.                                                         *)
LEMMA ChangeWrites ==
  ASSUME TypeOK, NEW h \in Handlers, CommitChange(h)
  PROVE  LET u == request[h].user
         IN /\ request[h] \in Checked /\ u \in Users
            /\ account' \in [Users -> Row]
            /\ \A v \in Users : v # u => account'[v] = account[v]
            /\ account'[u].version = account[u].version
            /\ account'[u].refresh = account[u].refresh
            /\ account'[u].password = account[u].password
PROOF
<1> DEFINE u == request[h].user
           seen == request[h].seen
           new == Updated(seen, request[h].change)
<1>1. request[h] \in Checked
  BY RequestKinds DEF CommitChange
<1>2. u \in Users /\ seen \in Row /\ request[h].change \in Change
  BY <1>1 DEF Checked
<1>3. new \in Row
  BY <1>2, NewRows
<1>4. /\ new.version = seen.version /\ new.refresh = seen.refresh
      /\ new.password = seen.password
  BY <1>2 DEF Row, Updated
<1>5. Write(h, new)
  BY DEF CommitChange
<1> HIDE DEF new
<1> QED BY <1>1, <1>2, <1>3, <1>4, <1>5, Written

(* What a step that begins a request, or goes on with one, leaves alone.   *)
LEMMA BeginsOnlyRead ==
  ASSUME TypeOK, NEW h \in Handlers, Begins(h)
  PROVE  /\ UNCHANGED <<account, issued, cookies, lapsed, access, raced, blind>>
         /\ begun' \in Nat
         /\ \A g \in Handlers : g # h => request'[g] = request[g]
         /\ request' \in [Handlers -> {NoRequest} \cup OwnRequest \cup Authorised \cup Checked]
         /\ request'[h].step \in OwnSteps =>
                /\ request'[h].user \in Users
                /\ request'[h].seen = account[request'[h].user]
         /\ request'[h].step \in {"refresh", "logout"} =>
                /\ RowFree(h, request'[h].user)
                /\ \E c \in cookies : account[request'[h].user].refresh = c.token
         /\ request'[h].step = "refresh" => account[request'[h].user].status = "ACTIVE"
         /\ request'[h].step = "checked" /\ request'[h].masters # 0 => request'[h].masters >= 2
PROOF
<1> DEFINE Requests == {NoRequest} \cup OwnRequest \cup Authorised \cup Checked
           Result == /\ \A g \in Handlers : g # h => request'[g] = request[g]
                     /\ request' \in [Handlers -> Requests]
           Fine == /\ request'[h].step \in OwnSteps =>
                         /\ request'[h].user \in Users
                         /\ request'[h].seen = account[request'[h].user]
                   /\ request'[h].step \in {"refresh", "logout"} =>
                         /\ RowFree(h, request'[h].user)
                         /\ \E c \in cookies : account[request'[h].user].refresh = c.token
                   /\ request'[h].step = "refresh" => account[request'[h].user].status = "ACTIVE"
                   /\ request'[h].step = "checked" /\ request'[h].masters # 0 =>
                         request'[h].masters >= 2
<1>1. /\ UNCHANGED <<account, issued, cookies, lapsed, access, raced, blind>>
      /\ begun' \in Nat
  BY DEF Begins, BeginLogin, BeginRefresh, BeginLogout, BeginPassword, Authorise, CheckTarget,
         Begin, TypeOK
<1>2. request \in [Handlers -> Requests]
  BY DEF TypeOK
<1>3. ASSUME NEW r \in Requests, request' = [request EXCEPT ![h] = r] PROVE Result
  <2> HIDE DEF Requests
  <2> QED BY <1>2, <1>3
<1>4. \A v \in Users : account[v] \in Row
  BY DEF TypeOK
<1>5. ASSUME NEW s \in OwnSteps, NEW u \in Users,
             Begin(h, [step |-> s, user |-> u, seen |-> account[u]]),
             s \in {"refresh", "logout"} =>
                 RowFree(h, u) /\ \E c \in cookies : account[u].refresh = c.token,
             s = "refresh" => account[u].status = "ACTIVE"
      PROVE  Result /\ Fine
  <2> DEFINE r == [step |-> s, user |-> u, seen |-> account[u]]
  <2>1. r \in OwnRequest
    BY <1>4 DEF OwnRequest, OwnSteps
  <2>2. request' = [request EXCEPT ![h] = r]
    BY <1>5 DEF Begin
  <2>3. Result /\ request'[h] = r
    BY <1>2, <1>3, <2>1, <2>2
  <2>4. r.step = s /\ r.user = u /\ r.seen = account[u] /\ r.step # "checked"
    BY DEF OwnSteps
  <2> HIDE DEF r
  <2> QED BY <1>5, <2>3, <2>4
<1>6. CASE \E u \in Users : BeginLogin(h, u)
  BY <1>1, <1>5, <1>6 DEF BeginLogin, OwnSteps
<1>7. CASE \E c \in cookies : BeginRefresh(h, c) \/ BeginLogout(h, c)
  <2>1. PICK c \in cookies : BeginRefresh(h, c) \/ BeginLogout(h, c)
    BY <1>7
  <2>2. c.user \in Users
    BY DEF TypeOK, Cookie
  <2>3. RowFree(h, c.user) /\ account[c.user].refresh = c.token
    BY <2>1 DEF BeginRefresh, BeginLogout, FindRow
  <2>4. CASE BeginRefresh(h, c)
    BY <1>1, <1>5, <2>2, <2>3, <2>4 DEF BeginRefresh, OwnSteps
  <2>5. CASE BeginLogout(h, c)
    BY <1>1, <1>5, <2>2, <2>3, <2>5 DEF BeginLogout, OwnSteps
  <2> QED BY <2>1, <2>4, <2>5
<1>8. CASE \E a \in access : BeginPassword(h, a)
  BY <1>1, <1>5, <1>8 DEF BeginPassword, OwnSteps, TypeOK, Access
<1>9. CASE \E a \in access, u \in Users, change \in Change : Authorise(h, a, u, change)
  <2>1. PICK a \in access, u \in Users, change \in Change : Authorise(h, a, u, change)
    BY <1>9
  <2> DEFINE r == [step |-> "authorised", user |-> u, change |-> change]
  <2>2. r \in Authorised /\ request' = [request EXCEPT ![h] = r]
    BY <2>1 DEF Authorise, Begin, Authorised
  <2>3. Result /\ request'[h] = r
    BY <1>2, <1>3, <2>2
  <2>4. r.step = "authorised"
    OBVIOUS
  <2> HIDE DEF r
  <2> QED BY <1>1, <2>3, <2>4 DEF OwnSteps
<1>10. CASE CheckTarget(h)
  <2> DEFINE row == account[request[h].user]
             r == [step |-> "checked", user |-> request[h].user, change |-> request[h].change,
                   seen |-> row,
                   masters |-> IF Removes(row, request[h].change)
                               THEN Cardinality(ActiveMasters) ELSE 0]
  <2>1. request[h] \in Authorised
    BY <1>10, RequestKinds DEF CheckTarget
  <2>2. /\ request[h].user \in Users /\ request[h].change \in Change /\ row \in Row
    BY <2>1, <1>4 DEF Authorised
  <2>3. Cardinality(ActiveMasters) \in Nat
    BY UsersAssumption, FS_Subset, FS_CardinalityType DEF ActiveMasters, ActiveMastersOf
  <2>4. CASE LastMaster(row, request[h].change)
    <3>1. request' = [request EXCEPT ![h] = NoRequest]
      BY <1>10, <2>4 DEF CheckTarget, Finish
    <3>2. Result /\ request'[h] = NoRequest
      BY <1>2, <1>3, <3>1
    <3> QED BY <1>1, <3>2 DEF NoRequest, OwnSteps
  <2>5. CASE ~LastMaster(row, request[h].change)
    <3>1. request' = [request EXCEPT ![h] = r]
      BY <1>10, <2>5 DEF CheckTarget
    <3>2. r \in Checked
      BY <2>2, <2>3 DEF Checked
    <3>3. Result /\ request'[h] = r
      BY <1>2, <1>3, <3>1, <3>2
    <3>4. Removes(row, request[h].change) => Cardinality(ActiveMasters) >= 2
      BY <2>3, <2>5 DEF LastMaster
    <3>5. r.step = "checked" /\ (r.masters # 0 => r.masters >= 2)
      BY <3>4
    <3> HIDE DEF r
    <3> QED BY <1>1, <3>3, <3>5 DEF OwnSteps
  <2> QED BY <2>4, <2>5
<1> QED BY <1>1, <1>6, <1>7, <1>8, <1>9, <1>10 DEF Begins

(* What a commit leaves alone besides the row: the other requests; and its *)
(* own request is over.                                                    *)
LEMMA CommitsEnd ==
  ASSUME TypeOK, NEW h \in Handlers, Commits(h)
  PROVE  /\ request' = [request EXCEPT ![h] = NoRequest]
         /\ request' \in [Handlers -> {NoRequest} \cup OwnRequest \cup Authorised \cup Checked]
         /\ request'[h] = NoRequest
         /\ \A g \in Handlers : g # h => request'[g] = request[g]
         /\ UNCHANGED <<lapsed, begun>>
         /\ RowFree(h, request[h].user)
PROOF
<1> DEFINE Requests == {NoRequest} \cup OwnRequest \cup Authorised \cup Checked
<1>1. /\ request' = [request EXCEPT ![h] = NoRequest]
      /\ UNCHANGED <<lapsed, begun>>
      /\ RowFree(h, request[h].user)
  BY DEF Commits, CommitLogin, CommitRefresh, CommitLogout, CommitPassword, CommitChange, Finish,
         Write
<1>2. request \in [Handlers -> Requests] /\ NoRequest \in Requests
  BY DEF TypeOK
<1> HIDE DEF Requests
<1>3. /\ request' \in [Handlers -> Requests] /\ request'[h] = NoRequest
      /\ \A g \in Handlers : g # h => request'[g] = request[g]
  BY <1>1, <1>2
<1> QED BY <1>1, <1>3 DEF Requests

(* The steps of the sessions.                                              *)
LEMMA StepKinds ==
  ASSUME Next
  PROVE  \/ \E h \in Handlers : Begins(h) \/ Commits(h)
         \/ \E c \in cookies : Lapse(c)
PROOF
  BY DEF Next, Begins, Commits

(* A token that is handed out: to whom, and what it descends from.         *)
HandsOut(u, t) ==
  /\ t.id = issued + 1 /\ issued' = issued + 1
  /\ cookies' = cookies \cup {[user |-> u, token |-> t]}
  /\ account'[u].refresh = t
  /\ \A v \in Users : v # u => account'[v].refresh = account[v].refresh
  /\ \/ t.parent = 0 /\ t.login = issued + 1
     \/ /\ account[u].refresh # NoToken
        /\ t.parent = account[u].refresh.id /\ t.login = account[u].refresh.login

HandsOutNothing ==
  /\ UNCHANGED <<issued, cookies>>
  /\ \A v \in Users : account'[v].refresh \in {account[v].refresh, NoToken}

(* A commit hands out one token or none.                                   *)
LEMMA CommitTokens ==
  ASSUME TypeOK, SeenTokensAreOld, LockHolderIsCurrent, NEW h \in Handlers, Commits(h)
  PROVE  \/ HandsOutNothing
         \/ \E u \in Users, t \in Token : HandsOut(u, t)
PROOF
<1> DEFINE u == request[h].user
<1>1. CASE CommitLogin(h)
  <2> DEFINE t == [id |-> issued + 1, login |-> issued + 1, parent |-> 0,
                   password |-> request[h].seen.password]
  <2>1. /\ t \in Token /\ u \in Users /\ account'[u].refresh = t
        /\ \A v \in Users : v # u => account'[v] = account[v]
    BY <1>1, LoginWrites
  <2>2. issued' = issued + 1 /\ cookies' = cookies \cup {[user |-> u, token |-> t]}
    BY <1>1 DEF CommitLogin, HandOut
  <2>3. t.id = issued + 1 /\ t.parent = 0 /\ t.login = issued + 1
    OBVIOUS
  <2> HIDE DEF t
  <2> QED BY <2>1, <2>2, <2>3 DEF HandsOut
<1>2. CASE CommitRefresh(h)
  <2> DEFINE t == [id |-> issued + 1, login |-> account[u].refresh.login,
                   parent |-> account[u].refresh.id, password |-> account[u].refresh.password]
  <2>1. /\ t \in Token /\ u \in Users /\ account'[u].refresh = t
        /\ account[u].refresh # NoToken
        /\ \A v \in Users : v # u => account'[v] = account[v]
        /\ [request[h].seen.refresh EXCEPT !.id = issued + 1,
                                           !.parent = request[h].seen.refresh.id] = t
    BY <1>2, RefreshWrites
  <2>2. t.id = issued + 1 /\ t.parent = account[u].refresh.id /\ t.login = account[u].refresh.login
    OBVIOUS
  <2> HIDE DEF t
  <2>3. issued' = issued + 1 /\ cookies' = cookies \cup {[user |-> u, token |-> t]}
    BY <1>2, <2>1 DEF CommitRefresh, HandOut
  <2> QED BY <2>1, <2>2, <2>3 DEF HandsOut
<1>3. CASE CommitLogout(h) \/ CommitPassword(h)
  <2>1. UNCHANGED <<issued, cookies>>
    BY <1>3 DEF CommitLogout, CommitPassword
  <2> QED BY <1>3, <2>1, RevocationWrites DEF HandsOutNothing
<1>4. CASE CommitChange(h)
  <2>1. UNCHANGED <<issued, cookies>>
    BY <1>4 DEF CommitChange
  <2> QED BY <1>4, <2>1, ChangeWrites DEF HandsOutNothing
<1> QED BY <1>1, <1>2, <1>3, <1>4 DEF Commits

(* Every step keeps the types.                                             *)
LEMMA TypesHold ==
  ASSUME TypeOK, SeenTokensAreOld, LockHolderIsCurrent, Next \/ StaffStep
  PROVE  TypeOK'
PROOF
<1>1. CASE StaffStep
  BY <1>1 DEF StaffStep, TypeOK
<1>2. ASSUME NEW c \in cookies, Lapse(c) PROVE TypeOK'
  <2>1. c.token.id \in Nat
    BY DEF TypeOK, Cookie, Token
  <2> QED BY <1>2, <2>1 DEF Lapse, TypeOK
<1>3. ASSUME NEW h \in Handlers, Begins(h) PROVE TypeOK'
  BY <1>3, BeginsOnlyRead DEF TypeOK
<1>4. ASSUME NEW h \in Handlers, Commits(h) PROVE TypeOK'
  <2>1. account' \in [Users -> Row] /\ request[h].user \in Users
    BY <1>4, LoginWrites, RefreshWrites, RevocationWrites, ChangeWrites DEF Commits
  <2>2. issued' \in Nat /\ cookies' \subseteq Cookie
    BY <1>4, CommitTokens DEF HandsOut, HandsOutNothing, Cookie, TypeOK
  <2>3. access' \subseteq Access
    <3>1. CASE CommitLogin(h)
      <4>1. request[h].seen \in Row
        BY <3>1, LoginWrites
      <4>3. request[h].seen.version + 1 \in Nat /\ issued + 1 \in Nat
        BY <4>1 DEF Row, TypeOK
      <4>2. access' = access \cup {[user |-> request[h].user,
                                    version |-> request[h].seen.version + 1,
                                    login |-> issued + 1]}
        BY <3>1 DEF CommitLogin, HandOut
      <4> QED BY <2>1, <4>2, <4>3 DEF Access, TypeOK
    <3>2. CASE CommitRefresh(h)
      <4> DEFINE t == [id |-> issued + 1, login |-> account[request[h].user].refresh.login,
                       parent |-> account[request[h].user].refresh.id,
                       password |-> account[request[h].user].refresh.password]
      <4>1. /\ t \in Token
            /\ request[h].seen = account[request[h].user]
            /\ [request[h].seen.refresh EXCEPT !.id = issued + 1,
                                               !.parent = request[h].seen.refresh.id] = t
        BY <3>2, RefreshWrites
      <4> HIDE DEF t
      <4>2. access' = access \cup {[user |-> request[h].user,
                                    version |-> request[h].seen.version,
                                    login |-> t.login]}
        BY <3>2, <4>1 DEF CommitRefresh, HandOut
      <4>3. request[h].seen.version \in Nat /\ t.login \in Nat
        BY <2>1, <4>1 DEF TypeOK, Row, Token
      <4> QED BY <2>1, <4>2, <4>3 DEF Access, TypeOK
    <3>3. CASE CommitLogout(h) \/ CommitPassword(h) \/ CommitChange(h)
      BY <3>3 DEF CommitLogout, CommitPassword, CommitChange, TypeOK
    <3> QED BY <1>4, <3>1, <3>2, <3>3 DEF Commits
  <2>4. raced' \subseteq Users /\ blind' \in BOOLEAN
    <3>1. CASE CommitChange(h)
      BY <3>1 DEF CommitChange, TypeOK
    <3>2. CASE CommitRefresh(h)
      BY <3>2 DEF CommitRefresh, TypeOK
    <3>3. CASE CommitLogin(h) \/ CommitLogout(h) \/ CommitPassword(h)
      BY <2>1, <3>3 DEF CommitLogin, CommitLogout, CommitPassword, NoteRace, TypeOK
    <3> QED BY <1>4, <3>1, <3>2, <3>3 DEF Commits
  <2> QED BY <1>4, <2>1, <2>2, <2>3, <2>4, CommitsEnd DEF TypeOK
<1> QED BY <1>1, <1>2, <1>3, <1>4, StepKinds

(* The conjuncts that are about tokens.                                    *)
TokensOK == TokensAreNumbered /\ TokensDiffer /\ HeldWasHandedOut /\ ExchangedOnce

(* What the conjuncts say of a held token: it is one of the user's, and    *)
(* not one that is yet to come.                                            *)
LEMMA HeldTokens ==
  ASSUME TypeOK, TokensOK, NEW u \in Users, account[u].refresh # NoToken
  PROVE  /\ account[u].refresh.id \in 1..issued
         /\ account[u].refresh.login \in 1..issued
PROOF
<1>1. CookieOf(u) \in cookies /\ CookieOf(u).token = account[u].refresh
  BY DEF TokensOK, HeldWasHandedOut, CookieOf
<1> QED BY <1>1 DEF TokensOK, TokensAreNumbered

(* A token that is handed out is the last one, and the only one to replace *)
(* the token it stems from.                                                *)
LEMMA HandingOutKeepsTokens ==
  ASSUME TypeOK, TokensOK, account' \in [Users -> Row],
         NEW u \in Users, NEW t \in Token, HandsOut(u, t)
  PROVE  TokensOK'
PROOF
<1> DEFINE new == [user |-> u, token |-> t]
<1>1. /\ issued \in Nat /\ t.id = issued + 1 /\ issued' = issued + 1
      /\ cookies' = cookies \cup {new} /\ new.token = t /\ new.user = u
      /\ account'[u].refresh = t
      /\ \A v \in Users : v # u => account'[v].refresh = account[v].refresh
  BY DEF HandsOut, TypeOK
<1>2. /\ t.login \in 1..issued + 1
      /\ t.parent \in 0..issued
      /\ t.parent # 0 => account[u].refresh # NoToken /\ t.parent = account[u].refresh.id
  <2>1. CASE t.parent = 0 /\ t.login = issued + 1
    BY <1>1, <2>1
  <2>2. CASE /\ account[u].refresh # NoToken
             /\ t.parent = account[u].refresh.id /\ t.login = account[u].refresh.login
    BY <1>1, <2>2, HeldTokens
  <2> QED BY <2>1, <2>2 DEF HandsOut
<1>3. \A c \in cookies : /\ c.token.id \in 1..issued /\ c.token.login \in 1..issued
                         /\ c.token.parent \in 0..issued
  BY DEF TokensOK, TokensAreNumbered
<1> HIDE DEF new
<1>4. TokensAreNumbered'
  BY <1>1, <1>2, <1>3 DEF TokensAreNumbered
<1>5. TokensDiffer'
  BY <1>1, <1>3 DEF TokensOK, TokensDiffer
<1>6. HeldWasHandedOut'
  <2> SUFFICES ASSUME NEW v \in Users, account'[v].refresh # NoToken
               PROVE  /\ [user |-> v, token |-> account'[v].refresh] \in cookies'
                      /\ \A c \in cookies' : c.token.parent # account'[v].refresh.id
    BY DEF HeldWasHandedOut, CookieOf
  <2>1. CASE v = u
    BY <1>1, <1>2, <1>3, <2>1 DEF new
  <2>2. CASE v # u
    <3>1. account'[v].refresh = account[v].refresh
      BY <1>1, <2>2
    <3>2. /\ [user |-> v, token |-> account[v].refresh] \in cookies
          /\ \A c \in cookies : c.token.parent # account[v].refresh.id
      BY <3>1 DEF TokensOK, HeldWasHandedOut, CookieOf
    <3>3. t.parent # account[v].refresh.id
      <4>1. CASE t.parent = 0
        BY <3>1, <4>1, HeldTokens
      <4>2. CASE t.parent # 0
        <5> DEFINE mine == [user |-> v, token |-> account[v].refresh]
                   other == [user |-> u, token |-> account[u].refresh]
        <5>1. other \in cookies /\ t.parent = account[u].refresh.id
          BY <1>2, <4>2 DEF TokensOK, HeldWasHandedOut, CookieOf
        <5>2. mine # other
          BY <2>2
        <5>3. mine.token.id # other.token.id
          <6> HIDE DEF mine, other
          <6> QED BY <3>2, <5>1, <5>2 DEF TokensOK, TokensDiffer, mine
        <5> QED BY <5>1, <5>3
      <4> QED BY <4>1, <4>2
    <3> QED BY <1>1, <3>1, <3>2, <3>3
  <2> QED BY <2>1, <2>2
<1>7. ExchangedOnce'
  <2>1. ASSUME NEW c \in cookies PROVE t.parent # 0 => c.token.parent # t.parent
    BY <1>2 DEF TokensOK, HeldWasHandedOut
  <2> QED BY <1>1, <2>1 DEF TokensOK, ExchangedOnce
<1> QED BY <1>4, <1>5, <1>6, <1>7 DEF TokensOK

(* Tokens stay in order in every step.                                     *)
LEMMA TokensHold ==
  ASSUME TypeOK, TypeOK', TokensOK, SeenTokensAreOld, LockHolderIsCurrent, Next \/ StaffStep
  PROVE  TokensOK' /\ issued <= issued'
PROOF
<1>1. CASE UNCHANGED <<account, cookies, issued>>
  BY <1>1 DEF TypeOK, TokensOK, TokensAreNumbered, TokensDiffer, HeldWasHandedOut, CookieOf,
              ExchangedOnce
<1>2. CASE HandsOutNothing
  <2>1. TokensAreNumbered' /\ TokensDiffer' /\ ExchangedOnce'
    BY <1>2 DEF HandsOutNothing, TokensOK, TokensAreNumbered, TokensDiffer, ExchangedOnce
  <2>2. HeldWasHandedOut'
    <3> SUFFICES ASSUME NEW v \in Users, account'[v].refresh # NoToken
                 PROVE  /\ [user |-> v, token |-> account'[v].refresh] \in cookies'
                        /\ \A c \in cookies' : c.token.parent # account'[v].refresh.id
      BY DEF HeldWasHandedOut, CookieOf
    <3>1. account'[v].refresh = account[v].refresh /\ cookies' = cookies
      BY <1>2 DEF HandsOutNothing
    <3> QED BY <3>1 DEF TokensOK, HeldWasHandedOut, CookieOf
  <2> QED BY <1>2, <2>1, <2>2 DEF TokensOK, HandsOutNothing, TypeOK
<1>3. ASSUME NEW u \in Users, NEW t \in Token, HandsOut(u, t) PROVE TokensOK' /\ issued <= issued'
  BY <1>3, HandingOutKeepsTokens DEF TypeOK, HandsOut
<1>4. ASSUME NEW h \in Handlers, Begins(h) PROVE UNCHANGED <<account, cookies, issued>>
  BY <1>4, BeginsOnlyRead
<1>5. ASSUME NEW c \in cookies, Lapse(c) PROVE UNCHANGED <<account, cookies, issued>>
  BY <1>5 DEF Lapse
<1>6. StaffStep => UNCHANGED <<account, cookies, issued>>
  BY DEF StaffStep
<1> QED BY <1>1, <1>2, <1>3, <1>4, <1>5, <1>6, StepKinds, CommitTokens

(* What a request has seen stays older than the next token.                *)
LEMMA SeenTokensHold ==
  ASSUME TypeOK, TokensOK, SeenTokensAreOld, issued \in Nat, issued' \in Nat, issued <= issued',
         Next \/ StaffStep
  PROVE  SeenTokensAreOld'
PROOF
<1> DEFINE Old(g) == request[g].step \in OwnSteps => request[g].seen.refresh.id <= issued
           New(g) == request'[g].step \in OwnSteps => request'[g].seen.refresh.id <= issued'
<1>1. ASSUME NEW g \in Handlers, request'[g] = request[g] PROVE New(g)
  <2>1. CASE request[g].step \in OwnSteps
    <3>1. request[g].seen.refresh.id \in Nat
      <4>1. request[g] \in OwnRequest
        BY <2>1, RequestKinds
      <4> QED BY <4>1 DEF OwnRequest, Row, Token
    <3>2. request[g].seen.refresh.id <= issued
      BY <2>1 DEF SeenTokensAreOld, OwnSteps
    <3> QED BY <1>1, <3>1, <3>2
  <2> QED BY <1>1, <2>1
<1>2. ASSUME NEW u \in Users PROVE account[u].refresh.id <= issued'
  <2>1. CASE account[u].refresh # NoToken
    BY <2>1, HeldTokens
  <2>2. CASE account[u].refresh = NoToken
    BY <2>2, TokenFields
  <2> QED BY <2>1, <2>2
<1>3. ASSUME NEW h \in Handlers, Begins(h) \/ Commits(h), NEW g \in Handlers PROVE New(g)
  <2>1. CASE g # h
    BY <1>1, <1>3, <2>1, BeginsOnlyRead, CommitsEnd
  <2>2. CASE g = h /\ Commits(h)
    BY <2>2, CommitsEnd DEF NoRequest, OwnSteps
  <2>3. CASE g = h /\ Begins(h)
    BY <1>2, <2>3, BeginsOnlyRead
  <2> QED BY <1>3, <2>1, <2>2, <2>3
<1>4. ASSUME request' = request, NEW g \in Handlers PROVE New(g)
  BY <1>1, <1>4
<1>5. ASSUME NEW c \in cookies, Lapse(c) PROVE request' = request
  BY <1>5 DEF Lapse
<1>6. StaffStep => request' = request
  BY DEF StaffStep
<1>7. \A g \in Handlers : New(g)
  BY <1>3, <1>4, <1>5, <1>6, StepKinds
<1> QED BY <1>7 DEF SeenTokensAreOld, OwnSteps

(* Whoever keeps a row keeps it as it was read.                            *)
LEMMA LocksHold ==
  ASSUME TypeOK, TokensOK, LockHolderIsCurrent, SeenTokensAreOld, Next \/ StaffStep
  PROVE  LockHolderIsCurrent'
PROOF
<1>1. CASE UNCHANGED <<account, request>>
  BY <1>1 DEF LockHolderIsCurrent, HoldsRow
<1>2. ASSUME NEW h \in Handlers, Begins(h) PROVE LockHolderIsCurrent'
  <2> SUFFICES ASSUME NEW g \in Handlers, NEW u \in Users, HoldsRow(g, u)'
               PROVE  /\ request'[g].seen = account'[u]
                      /\ account'[u].refresh # NoToken
                      /\ \A f \in Handlers \ {g} : ~HoldsRow(f, u)'
                      /\ request'[g].step = "refresh" => account'[u].status = "ACTIVE"
    BY DEF LockHolderIsCurrent
  <2>1. account' = account /\ \A f \in Handlers : f # h => request'[f] = request[f]
    BY <1>2, BeginsOnlyRead
  <2>2. \A f \in Handlers : f # h => (HoldsRow(f, u)' <=> HoldsRow(f, u))
    BY <2>1 DEF HoldsRow
  <2>3. HoldsRow(h, u)' => /\ RowFree(h, u)
                           /\ request'[h].seen = account[u]
                           /\ account[u].refresh # NoToken
                           /\ request'[h].step = "refresh" => account[u].status = "ACTIVE"
    <3> SUFFICES ASSUME HoldsRow(h, u)'
                 PROVE  /\ RowFree(h, u)
                        /\ request'[h].seen = account[u]
                        /\ account[u].refresh # NoToken
                        /\ request'[h].step = "refresh" => account[u].status = "ACTIVE"
      OBVIOUS
    <3>1. request'[h].step \in {"refresh", "logout"} /\ request'[h].user = u
      BY DEF HoldsRow
    <3>2. PICK c \in cookies : account[u].refresh = c.token
      BY <1>2, <3>1, BeginsOnlyRead
    <3>3. account[u].refresh.id # 0 /\ account[u].refresh \in Token
      BY <3>2 DEF TokensOK, TokensAreNumbered, TypeOK, Cookie
    <3> QED BY <1>2, <3>1, <3>3, BeginsOnlyRead, TokenFields DEF OwnSteps
  <2>4. CASE g = h
    BY <2>1, <2>2, <2>3, <2>4 DEF RowFree
  <2>5. CASE g # h
    BY <2>1, <2>2, <2>3, <2>5 DEF RowFree, LockHolderIsCurrent
  <2> QED BY <2>4, <2>5
<1>3. ASSUME NEW h \in Handlers, Commits(h) PROVE LockHolderIsCurrent'
  <2>1. /\ request'[h] = NoRequest /\ RowFree(h, request[h].user)
        /\ \A g \in Handlers : g # h => request'[g] = request[g]
    BY <1>3, CommitsEnd
  <2>2. \A v \in Users : v # request[h].user => account'[v] = account[v]
    BY <1>3, LoginWrites, RefreshWrites, RevocationWrites, ChangeWrites DEF Commits
  <2>3. ASSUME NEW g \in Handlers, NEW u \in Users, HoldsRow(g, u)'
        PROVE  g # h /\ HoldsRow(g, u) /\ account'[u] = account[u]
    <3>1. g # h
      BY <2>1, <2>3 DEF HoldsRow, NoRequest
    <3>2. HoldsRow(g, u)
      BY <2>1, <2>3, <3>1 DEF HoldsRow
    <3>3. u # request[h].user
      BY <2>1, <3>1, <3>2 DEF RowFree
    <3> QED BY <2>2, <3>1, <3>2, <3>3
  <2> SUFFICES ASSUME NEW g \in Handlers, NEW u \in Users, HoldsRow(g, u)'
               PROVE  /\ request'[g].seen = account'[u]
                      /\ account'[u].refresh # NoToken
                      /\ \A f \in Handlers \ {g} : ~HoldsRow(f, u)'
                      /\ request'[g].step = "refresh" => account'[u].status = "ACTIVE"
    BY DEF LockHolderIsCurrent
  <2> QED BY <2>1, <2>3 DEF LockHolderIsCurrent
<1>4. ASSUME NEW c \in cookies, Lapse(c) PROVE UNCHANGED <<account, request>>
  BY <1>4 DEF Lapse
<1>5. StaffStep => UNCHANGED <<account, request>>
  BY DEF StaffStep
<1> QED BY <1>1, <1>2, <1>3, <1>4, <1>5, StepKinds

(* The counts of masters are taken once, and a request with one stops.     *)
LEMMA CountsHold ==
  ASSUME TypeOK, CountsLeaveOne, Next \/ StaffStep
  PROVE  CountsLeaveOne'
PROOF
<1>1. ASSUME NEW h \in Handlers, Begins(h) PROVE CountsLeaveOne'
  BY <1>1, BeginsOnlyRead DEF CountsLeaveOne
<1>2. ASSUME NEW h \in Handlers, Commits(h) PROVE CountsLeaveOne'
  BY <1>2, CommitsEnd DEF CountsLeaveOne, NoRequest
<1>3. ASSUME NEW c \in cookies, Lapse(c) PROVE CountsLeaveOne'
  BY <1>3 DEF Lapse, CountsLeaveOne
<1>4. StaffStep => CountsLeaveOne'
  BY DEF StaffStep, CountsLeaveOne
<1> QED BY <1>1, <1>2, <1>3, <1>4, StepKinds

(* Only an update of a role or a state changes who is an active master.    *)
LEMMA MastersHold ==
  ASSUME TypeOK, LockHolderIsCurrent, SeenTokensAreOld, CountsLeaveOne, MastersRemain,
         Next \/ StaffStep
  PROVE  MastersRemain'
PROOF
<1>1. CASE UNCHANGED <<account, blind>>
  BY <1>1 DEF MastersRemain, ActiveMasters, ActiveMastersOf
<1>2. ASSUME NEW h \in Handlers,
             CommitLogin(h) \/ CommitRefresh(h) \/ CommitLogout(h) \/ CommitPassword(h)
      PROVE  MastersRemain'
  <2>1. \A v \in Users : account'[v].role = account[v].role /\ account'[v].status = account[v].status
    BY <1>2, LoginWrites, RefreshWrites, RevocationWrites
  <2>2. blind' = blind
    BY <1>2 DEF CommitLogin, CommitRefresh, CommitLogout, CommitPassword
  <2> QED BY <2>1, <2>2 DEF MastersRemain, ActiveMasters, ActiveMastersOf
<1>3. ASSUME NEW h \in Handlers, CommitChange(h) PROVE MastersRemain'
  <2> DEFINE u == request[h].user
  <2> SUFFICES ASSUME ~blind' PROVE ActiveMasters' # {}
    BY DEF MastersRemain
  <2>1. /\ request[h] \in Checked /\ u \in Users
        /\ \A v \in Users : v # u => account'[v] = account[v]
    BY <1>3, ChangeWrites
  <2>2. ~blind /\ ActiveMasters # {}
    BY <1>3 DEF CommitChange, MastersRemain
  <2>3. CASE IsActiveMaster(account[u]) /\ ~IsActiveMaster(account'[u])
    <3>1. request[h].masters # 0 /\ ~(Cardinality(ActiveMasters) < request[h].masters)
      BY <1>3, <2>3 DEF CommitChange
    <3>2. request[h].masters \in Nat /\ request[h].masters >= 2
      BY <1>3, <2>1, <3>1 DEF Checked, CountsLeaveOne, CommitChange
    <3>3. ActiveMasters # {u}
      <4>1. Cardinality({u}) = 1
        BY FS_Singleton
      <4> QED BY <3>1, <3>2, <4>1
    <3>4. PICK v \in ActiveMasters : v # u
      BY <2>2, <3>3
    <3>5. v \in Users /\ account'[v] = account[v]
      BY <2>1, <3>4 DEF ActiveMasters, ActiveMastersOf
    <3>6. v \in ActiveMasters'
      BY <3>4, <3>5 DEF ActiveMasters, ActiveMastersOf
    <3> QED BY <3>6
  <2>4. CASE ~(IsActiveMaster(account[u]) /\ ~IsActiveMaster(account'[u]))
    <3>1. ActiveMasters \subseteq ActiveMasters'
      BY <2>1, <2>4 DEF ActiveMasters, ActiveMastersOf, IsActiveMaster
    <3> QED BY <2>2, <3>1
  <2> QED BY <2>3, <2>4
<1>4. ASSUME NEW h \in Handlers, Begins(h) PROVE UNCHANGED <<account, blind>>
  BY <1>4, BeginsOnlyRead
<1>5. ASSUME NEW c \in cookies, Lapse(c) PROVE UNCHANGED <<account, blind>>
  BY <1>5 DEF Lapse
<1>6. StaffStep => UNCHANGED <<account, blind>>
  BY DEF StaffStep
<1> QED BY <1>1, <1>2, <1>3, <1>4, <1>5, <1>6, StepKinds DEF Commits

(* What versions say of one user.                                          *)
VersionsOf(u) ==
  /\ account[u].refresh # NoToken => account[u].refresh.password = account[u].password
  /\ \A a \in access : a.user = u =>
        VersionIsKnown(u, a.version, a.login) /\ a.login # 0
  /\ \A h \in Handlers :
        request[h].step \in OwnSteps /\ request[h].user = u =>
            /\ VersionIsKnown(u, request[h].seen.version, request[h].seen.refresh.login)
            /\ request[h].seen.version = account[u].version =>
                   request[h].seen.password = account[u].password

(* The session 0 is no session.                                            *)
LEMMA NoSession ==
  ASSUME TypeOK, TokensOK, NEW u \in Users, account[u].refresh.login = 0
  PROVE  account[u].refresh = NoToken
PROOF
<1> SUFFICES ASSUME account[u].refresh # NoToken PROVE FALSE
  OBVIOUS
<1>1. account[u].refresh.login \in 1..issued /\ issued \in Nat
  BY HeldTokens DEF TypeOK
<1> QED BY <1>1

(* Reading a row tells its version, session and password as they are.      *)
LEMMA ReadingKeepsVersions ==
  ASSUME TypeOK, VersionsIdentifySessions, NEW h \in Handlers, Begins(h)
  PROVE  VersionsIdentifySessions'
PROOF
<1>1. /\ account' = account /\ access' = access /\ raced' = raced
      /\ \A g \in Handlers : g # h => request'[g] = request[g]
      /\ request'[h].step \in OwnSteps =>
             request'[h].user \in Users /\ request'[h].seen = account[request'[h].user]
  BY BeginsOnlyRead
<1> SUFFICES ASSUME NEW u \in Users \ raced' PROVE VersionsOf(u)'
  BY DEF VersionsIdentifySessions, VersionsOf, OwnSteps
<1>2. VersionsOf(u)
  BY <1>1 DEF VersionsIdentifySessions, VersionsOf, OwnSteps
<1>3. account[u].version \in Nat
  BY DEF TypeOK, Row
<1>4. ASSUME NEW v, NEW n PROVE VersionIsKnown(u, v, n)' <=> VersionIsKnown(u, v, n)
  BY <1>1 DEF VersionIsKnown
<1>5. VersionIsKnown(u, account[u].version, account[u].refresh.login)
  BY <1>3 DEF VersionIsKnown
<1> QED BY <1>1, <1>2, <1>4, <1>5 DEF VersionsOf

(* A commit changes what is known of its own user only.                    *)
LEMMA OthersKeepVersions ==
  ASSUME TypeOK, NEW h \in Handlers, NEW u \in Users, u # request[h].user, VersionsOf(u),
         account'[u] = account[u],
         \A a \in access' : a \in access \/ a.user = request[h].user,
         request'[h] = NoRequest,
         \A g \in Handlers : g # h => request'[g] = request[g]
  PROVE  VersionsOf(u)'
PROOF
  BY DEF VersionsOf, VersionIsKnown, NoRequest, OwnSteps

(* A new version is known to no one but by what is handed out with it.     *)
LEMMA NewVersion ==
  ASSUME TypeOK, NEW h \in Handlers, NEW u \in Users, u = request[h].user, VersionsOf(u),
         request[h].step \in OwnSteps,
         account[u].version = request[h].seen.version,
         account'[u].version = request[h].seen.version + 1,
         account'[u].refresh # NoToken => account'[u].refresh.password = account'[u].password,
         \A a \in access' : a \in access
             \/ /\ a.version = account'[u].version
                /\ a.login = account'[u].refresh.login /\ a.login # 0,
         request'[h] = NoRequest,
         \A g \in Handlers : g # h => request'[g] = request[g]
  PROVE  VersionsOf(u)'
PROOF
<1>1. account[u].version \in Nat /\ account'[u].version = account[u].version + 1
  BY DEF TypeOK, Row
<1>2. ASSUME NEW v \in Nat, v <= account[u].version
      PROVE  v <= account'[u].version /\ v # account'[u].version
  BY <1>1, <1>2
<1>3. ASSUME NEW a \in access', a.user = u
      PROVE  /\ a.version <= account'[u].version
             /\ a.version = account'[u].version => account'[u].refresh.login = a.login
             /\ a.login # 0
  <2>1. CASE a \in access
    BY <1>2, <1>3, <2>1 DEF VersionsOf, VersionIsKnown, TypeOK, Access
  <2>2. CASE a.version = account'[u].version /\ a.login = account'[u].refresh.login
             /\ a.login # 0
    BY <1>1, <2>2
  <2> QED BY <2>1, <2>2
<1>4. ASSUME NEW g \in Handlers, request'[g].step \in OwnSteps, request'[g].user = u
      PROVE  /\ request'[g].seen.version <= account'[u].version
             /\ request'[g].seen.version # account'[u].version
  <2>1. g # h /\ request'[g] = request[g]
    BY <1>4 DEF NoRequest, OwnSteps
  <2>2. request[g].seen.version \in Nat
    <3>1. request[g] \in OwnRequest
      BY <1>4, <2>1, RequestKinds
    <3> QED BY <3>1 DEF OwnRequest, Row
  <2>3. request[g].seen.version <= account[u].version
    BY <1>4, <2>1 DEF VersionsOf, VersionIsKnown
  <2> QED BY <1>2, <2>1, <2>2, <2>3
<1> QED BY <1>3, <1>4 DEF VersionsOf, VersionIsKnown

(* The version, the session and the password of a user stay as they are.   *)
LEMMA SameVersion ==
  ASSUME TypeOK, NEW h \in Handlers, NEW u \in Users, VersionsOf(u),
         account'[u].version = account[u].version,
         account'[u].refresh.login = account[u].refresh.login,
         account'[u].refresh # NoToken => account'[u].refresh.password = account'[u].password,
         account'[u].password = account[u].password,
         \A a \in access' : a \in access
             \/ /\ a.version = account'[u].version
                /\ a.login = account'[u].refresh.login /\ a.login # 0,
         request'[h] = NoRequest,
         \A g \in Handlers : g # h => request'[g] = request[g]
  PROVE  VersionsOf(u)'
PROOF
<1>1. account[u].version \in Nat
  BY DEF TypeOK, Row
<1>2. ASSUME NEW a \in access', a.user = u
      PROVE  /\ a.version <= account'[u].version
             /\ a.version = account'[u].version => account'[u].refresh.login = a.login
             /\ a.login # 0
  <2>1. CASE a \in access
    BY <1>2, <2>1 DEF VersionsOf, VersionIsKnown
  <2>2. CASE a.version = account'[u].version /\ a.login = account'[u].refresh.login
             /\ a.login # 0
    BY <1>1, <2>2
  <2> QED BY <2>1, <2>2
<1>3. ASSUME NEW g \in Handlers, request'[g].step \in OwnSteps, request'[g].user = u
      PROVE  /\ request'[g].seen.version <= account'[u].version
             /\ request'[g].seen.version = account'[u].version =>
                    account'[u].refresh.login = request'[g].seen.refresh.login
             /\ request'[g].seen.version = account'[u].version =>
                    request'[g].seen.password = account'[u].password
  <2>1. g # h /\ request'[g] = request[g]
    BY <1>3 DEF NoRequest, OwnSteps
  <2> QED BY <1>3, <2>1 DEF VersionsOf, VersionIsKnown
<1> QED BY <1>2, <1>3 DEF VersionsOf, VersionIsKnown

(* A commit keeps the versions in order, or it is noted as a race.         *)
LEMMA CommitsKeepVersions ==
  ASSUME SessionsInvariant, NEW h \in Handlers, Commits(h)
  PROVE  VersionsIdentifySessions'
PROOF
<1> DEFINE u == request[h].user
<1> SUFFICES ASSUME NEW v \in Users \ raced' PROVE VersionsOf(v)'
  BY DEF VersionsIdentifySessions, VersionsOf, OwnSteps
<1>1. /\ TypeOK /\ SeenTokensAreOld /\ LockHolderIsCurrent /\ TokensOK
  BY DEF SessionsInvariant, TokensOK
<1>2. /\ request'[h] = NoRequest
      /\ \A g \in Handlers : g # h => request'[g] = request[g]
  BY <1>1, CommitsEnd
<1>3. raced \subseteq raced'
  BY DEF Commits, CommitLogin, CommitRefresh, CommitLogout, CommitPassword, CommitChange, NoteRace
<1>4. VersionsOf(v)
  BY <1>3 DEF SessionsInvariant, VersionsIdentifySessions, VersionsOf, OwnSteps
<1>5. CASE CommitLogin(h)
  <2> DEFINE token == [id |-> issued + 1, login |-> issued + 1, parent |-> 0,
                       password |-> request[h].seen.password]
  <2>1. /\ u \in Users /\ token \in Token
        /\ \A w \in Users : w # u => account'[w] = account[w]
        /\ account'[u].version = request[h].seen.version + 1
        /\ account'[u].refresh = token
        /\ account'[u].password = account[u].password
    BY <1>1, <1>5, LoginWrites
  <2>2. access' = access \cup {[user |-> u, version |-> request[h].seen.version + 1,
                                login |-> token.login]}
    BY <1>5 DEF CommitLogin, HandOut
  <2>3. token.login # 0 /\ token.password = request[h].seen.password
    BY <1>1 DEF TypeOK
  <2> HIDE DEF token
  <2>4. CASE v # u
    BY <1>1, <1>2, <1>4, <2>1, <2>2, <2>4, OthersKeepVersions
  <2>5. CASE v = u
    <3>1. request[h].seen.version = account[u].version
      BY <1>5, <2>5 DEF CommitLogin, NoteRace
    <3>2. request[h].seen.password = account[u].password
      BY <1>4, <1>5, <2>5, <3>1 DEF VersionsOf, OwnSteps, CommitLogin
    <3>3. account'[u].refresh.password = account'[u].password
      BY <2>1, <2>3, <3>2
    <3>4. \A a \in access' : a \in access
              \/ /\ a.version = account'[u].version
                 /\ a.login = account'[u].refresh.login /\ a.login # 0
      BY <2>1, <2>2, <2>3
    <3>5. request[h].step \in OwnSteps
      BY <1>5 DEF CommitLogin, OwnSteps
    <3> QED BY <1>1, <1>2, <1>4, <2>1, <2>5, <3>1, <3>3, <3>4, <3>5, NewVersion
  <2> QED BY <2>4, <2>5
<1>6. CASE CommitRefresh(h)
  <2> DEFINE token == [id |-> issued + 1, login |-> account[u].refresh.login,
                       parent |-> account[u].refresh.id,
                       password |-> account[u].refresh.password]
  <2>1. /\ u \in Users /\ token \in Token
        /\ request[h].seen = account[u] /\ account[u].refresh # NoToken
        /\ [request[h].seen.refresh EXCEPT !.id = issued + 1,
                                           !.parent = request[h].seen.refresh.id] = token
        /\ \A w \in Users : w # u => account'[w] = account[w]
        /\ account'[u].version = account[u].version
        /\ account'[u].refresh = token
        /\ account'[u].password = account[u].password
    BY <1>1, <1>6, RefreshWrites
  <2>2. /\ token.login = account[u].refresh.login
        /\ token.password = account[u].refresh.password
    OBVIOUS
  <2> HIDE DEF token
  <2>3. access' = access \cup {[user |-> u, version |-> account[u].version,
                                login |-> token.login]}
    BY <1>6, <2>1 DEF CommitRefresh, HandOut
  <2>4. CASE v # u
    BY <1>1, <1>2, <1>4, <2>1, <2>3, <2>4, OthersKeepVersions
  <2>5. CASE v = u
    <3>1. account'[u].refresh.password = account'[u].password
      BY <1>4, <2>1, <2>2, <2>5 DEF VersionsOf
    <3>2. account'[u].refresh.login # 0
      BY <1>1, <2>1, <2>2, NoSession
    <3>3. \A a \in access' : a \in access
              \/ /\ a.version = account'[u].version
                 /\ a.login = account'[u].refresh.login /\ a.login # 0
      BY <2>1, <2>2, <2>3, <3>2
    <3> QED BY <1>1, <1>2, <1>4, <2>1, <2>2, <2>5, <3>1, <3>3, SameVersion
  <2> QED BY <2>4, <2>5
<1>7. CASE CommitLogout(h) \/ CommitPassword(h)
  <2>1. /\ u \in Users
        /\ \A w \in Users : w # u => account'[w] = account[w]
        /\ account'[u].version = request[h].seen.version + 1
        /\ account'[u].refresh = IF request[h].seen.refresh # NoToken THEN NoToken
                                                                      ELSE account[u].refresh
    BY <1>1, <1>7, RevocationWrites
  <2>2. access' = access
    BY <1>7 DEF CommitLogout, CommitPassword
  <2>3. CASE v # u
    BY <1>1, <1>2, <1>4, <2>1, <2>2, <2>3, OthersKeepVersions
  <2>4. CASE v = u
    <3>1. request[h].seen.version = account[u].version
      BY <1>7, <2>4 DEF CommitLogout, CommitPassword, NoteRace
    <3>2. request[h].step \in OwnSteps
      BY <1>7 DEF CommitLogout, CommitPassword, OwnSteps
    <3>3. request[h].seen.refresh.login = account[u].refresh.login
      BY <1>4, <2>4, <3>1, <3>2 DEF VersionsOf, VersionIsKnown
    <3>4. account'[u].refresh = NoToken
      BY <1>1, <2>1, <3>3, NoSession, TokenFields
    <3> QED BY <1>1, <1>2, <1>4, <2>1, <2>2, <2>4, <3>1, <3>2, <3>4, NewVersion
  <2> QED BY <2>3, <2>4
<1>8. CASE CommitChange(h)
  <2>1. /\ u \in Users
        /\ \A w \in Users : w # u => account'[w] = account[w]
        /\ account'[u].version = account[u].version
        /\ account'[u].refresh = account[u].refresh
        /\ account'[u].password = account[u].password
    BY <1>1, <1>8, ChangeWrites
  <2>2. access' = access
    BY <1>8 DEF CommitChange
  <2>3. account'[v].refresh # NoToken => account'[v].refresh.password = account'[v].password
    BY <1>4, <2>1 DEF VersionsOf
  <2> QED BY <1>1, <1>2, <1>4, <2>1, <2>2, <2>3, SameVersion
<1> QED BY <1>5, <1>6, <1>7, <1>8 DEF Commits

(* No step lets two sessions of a user pass for one another.               *)
LEMMA VersionsHold ==
  ASSUME SessionsInvariant, Next \/ StaffStep
  PROVE  VersionsIdentifySessions'
PROOF
<1>1. TypeOK /\ VersionsIdentifySessions
  BY DEF SessionsInvariant
<1>2. ASSUME UNCHANGED <<account, request, access, raced>> PROVE VersionsIdentifySessions'
  BY <1>1, <1>2 DEF VersionsIdentifySessions, VersionIsKnown
<1>3. ASSUME NEW c \in cookies, Lapse(c) PROVE UNCHANGED <<account, request, access, raced>>
  BY <1>3 DEF Lapse
<1>4. StaffStep => UNCHANGED <<account, request, access, raced>>
  BY DEF StaffStep
<1> QED BY <1>1, <1>2, <1>3, <1>4, StepKinds, ReadingKeepsVersions, CommitsKeepVersions

-----------------------------------------------------------------------------
(* A step of the account API is a step of the sessions or leaves them alone.*)
LEMMA ApiSteps ==
  ASSUME TypeOK, AccountsNext
  PROVE  Next \/ StaffStep
PROOF
<1>1. ASSUME StaffRequest,
             UNCHANGED <<account, request, issued, cookies, lapsed, access, raced, blind>>
      PROVE  StaffStep
  <2>1. begun' = begun \/ begun' = begun + 1
    BY <1>1 DEF StaffRequest, NumbersNext, BeginSingle, CommitSingle, BeginUpload, LockMonth,
                CommitUpload, Start
  <2> QED BY <1>1, <2>1 DEF StaffStep, TypeOK
<1> QED BY <1>1 DEF AccountsNext

(* The inductive invariant holds of every initial state.                   *)
THEOREM SessionsStartRight == AccountsInit => SessionsInvariant
PROOF
<1> SUFFICES ASSUME AccountsInit PROVE SessionsInvariant
  OBVIOUS
<1>1. /\ account \in [Users -> Row]
      /\ \A u \in Users : account[u].refresh = NoToken
      /\ ActiveMasters # {}
  BY InitialRowsAssumption DEF AccountsInit, Init, ActiveMasters
<1>2. /\ request = [h \in Handlers |-> NoRequest] /\ issued = 0 /\ cookies = {} /\ lapsed = {}
      /\ access = {} /\ begun = 0 /\ raced = {} /\ blind = FALSE
  BY DEF AccountsInit, Init
<1>3. TypeOK
  BY <1>1, <1>2 DEF TypeOK
<1>4. \A h \in Handlers : request[h].step = "idle"
  BY <1>2 DEF NoRequest
<1>5. TokensAreNumbered /\ TokensDiffer /\ HeldWasHandedOut /\ ExchangedOnce /\ MastersRemain
  BY <1>1, <1>2 DEF TokensAreNumbered, TokensDiffer, HeldWasHandedOut, ExchangedOnce, MastersRemain
<1>6. LockHolderIsCurrent /\ SeenTokensAreOld /\ CountsLeaveOne
  BY <1>4 DEF LockHolderIsCurrent, HoldsRow, SeenTokensAreOld, CountsLeaveOne
<1>7. VersionsIdentifySessions
  BY <1>1, <1>2, <1>4 DEF VersionsIdentifySessions
<1> QED BY <1>3, <1>5, <1>6, <1>7 DEF SessionsInvariant

(* Every step preserves it, whatever requests run beside each other.       *)
THEOREM SessionsStayRight ==
  SessionsInvariant /\ [AccountsNext]_accountsVars => SessionsInvariant'
PROOF
<1> SUFFICES ASSUME SessionsInvariant, [AccountsNext]_accountsVars PROVE SessionsInvariant'
  OBVIOUS
<1>1. TypeOK /\ SeenTokensAreOld /\ LockHolderIsCurrent /\ TokensOK
  BY DEF SessionsInvariant, TokensOK
<1>2. Next \/ StaffStep
  <2>1. CASE AccountsNext
    BY <1>1, <2>1, ApiSteps
  <2>2. CASE UNCHANGED accountsVars
    BY <1>1, <2>2 DEF accountsVars, StaffStep, TypeOK
  <2> QED BY <2>1, <2>2
<1>3. TypeOK'
  BY <1>1, <1>2, TypesHold
<1>4. TokensOK' /\ issued <= issued'
  BY <1>1, <1>2, <1>3, TokensHold
<1>5. SeenTokensAreOld'
  BY <1>1, <1>2, <1>3, <1>4, SeenTokensHold DEF TypeOK
<1>6. LockHolderIsCurrent'
  BY <1>1, <1>2, LocksHold
<1>7. VersionsIdentifySessions'
  BY <1>2, VersionsHold
<1>8. CountsLeaveOne' /\ MastersRemain'
  BY <1>2, CountsHold, MastersHold DEF SessionsInvariant
<1> QED BY <1>3, <1>4, <1>5, <1>6, <1>7, <1>8 DEF SessionsInvariant, TokensOK

(* It holds in every state the account API can reach.                      *)
THEOREM SessionsKeepInvariant == AccountsSpec => []SessionsInvariant
PROOF
  BY SessionsStartRight, SessionsStayRight, PTL DEF AccountsSpec

(* The same refresh token, presented twice at the same time, is exchanged  *)
(* for one new token.                                                      *)
THEOREM TokensAreExchangedOnce == AccountsSpec => []ExchangedOnce
PROOF
<1>1. SessionsInvariant => ExchangedOnce
  BY DEF SessionsInvariant
<1> QED BY <1>1, SessionsKeepInvariant, PTL

(* Unless two requests wrote the version of a user from stale reads, what  *)
(* is accepted belongs to the session and the password in force.           *)
THEOREM AccessFollowsLogin == AccountsSpec => []SessionsFollowLogins
PROOF
<1>1. SessionsInvariant => SessionsFollowLogins
  <2> SUFFICES ASSUME SessionsInvariant, NEW a \in access, Accepted(a), a.user \notin raced
               PROVE  /\ account[a.user].refresh.login = a.login
                      /\ account[a.user].refresh.password = account[a.user].password
    BY DEF SessionsFollowLogins
  <2>1. TypeOK /\ TokensOK /\ VersionsIdentifySessions
    BY DEF SessionsInvariant, TokensOK
  <2>2. a.user \in Users \ raced /\ a.version = account[a.user].version
    BY <2>1 DEF TypeOK, Access, Accepted
  <2>3. a.login # 0 /\ account[a.user].refresh.login = a.login
    BY <2>1, <2>2 DEF VersionsIdentifySessions, VersionIsKnown
  <2>4. account[a.user].refresh # NoToken
    BY <2>3, TokenFields
  <2> QED BY <2>1, <2>2, <2>3, <2>4 DEF VersionsIdentifySessions
<1> QED BY <1>1, SessionsKeepInvariant, PTL

(* A master is left unless two requests both counted before either wrote.  *)
THEOREM AMasterRemains == AccountsSpec => []MastersRemain
PROOF
<1>1. SessionsInvariant => MastersRemain
  BY DEF SessionsInvariant
<1> QED BY <1>1, SessionsKeepInvariant, PTL

(* The kinds of steps, for the properties of steps.                        *)
LEMMA WhoWritesRows ==
  ASSUME SessionsInvariant, [AccountsNext]_accountsVars
  PROVE  \/ UNCHANGED <<account, cookies>>
         \/ \E h \in Handlers : Commits(h)
PROOF
<1>1. TypeOK
  BY DEF SessionsInvariant
<1>2. CASE UNCHANGED accountsVars
  BY <1>2 DEF accountsVars
<1>3. StaffStep => UNCHANGED <<account, cookies>>
  BY DEF StaffStep
<1>4. \A c \in cookies : Lapse(c) => UNCHANGED <<account, cookies>>
  BY DEF Lapse
<1>5. ASSUME NEW h \in Handlers, Begins(h) PROVE UNCHANGED <<account, cookies>>
  BY <1>1, <1>5, BeginsOnlyRead
<1> QED BY <1>1, <1>2, <1>3, <1>4, <1>5, ApiSteps, StepKinds

(* No token is exchanged for a user who is inactive when the exchange      *)
(* commits: an administrator who deactivates the user meanwhile has to wait*)
(* for the row.                                                            *)
THEOREM InactiveUsersGetNoToken == AccountsSpec => OnlyActiveRefreshes
PROOF
<1> DEFINE Fine == \A u \in Users : LET old == account[u].refresh
                                        new == account'[u].refresh
                                    IN old # new /\ new.parent # 0 => account[u].status = "ACTIVE"
<1>1. SessionsInvariant /\ [AccountsNext]_accountsVars => [Fine]_vars
  <2> SUFFICES ASSUME SessionsInvariant, [AccountsNext]_accountsVars,
                      NEW u \in Users, account[u].refresh # account'[u].refresh,
                      account'[u].refresh.parent # 0
               PROVE  account[u].status = "ACTIVE"
    OBVIOUS
  <2>1. /\ TypeOK /\ SeenTokensAreOld /\ LockHolderIsCurrent
    BY DEF SessionsInvariant
  <2>2. PICK h \in Handlers : Commits(h)
    BY WhoWritesRows
  <2>3. CASE CommitLogin(h)
    <3> DEFINE token == [id |-> issued + 1, login |-> issued + 1, parent |-> 0,
                         password |-> request[h].seen.password]
    <3>1. /\ account'[request[h].user].refresh = token
          /\ \A v \in Users : v # request[h].user => account'[v] = account[v]
      BY <2>1, <2>3, LoginWrites
    <3>2. token.parent = 0
      OBVIOUS
    <3> QED BY <3>1, <3>2
  <2>4. CASE CommitRefresh(h)
    <3>1. /\ \A v \in Users : v # request[h].user => account'[v] = account[v]
          /\ account[request[h].user].status = "ACTIVE"
      BY <2>1, <2>4, RefreshWrites
    <3> QED BY <3>1
  <2>5. CASE CommitLogout(h) \/ CommitPassword(h)
    <3>1. \A v \in Users : account'[v].refresh \in {account[v].refresh, NoToken}
      BY <2>1, <2>5, RevocationWrites
    <3> QED BY <3>1 DEF NoToken
  <2>6. CASE CommitChange(h)
    <3>1. account'[u].refresh = account[u].refresh
      BY <2>1, <2>6, ChangeWrites
    <3> QED BY <3>1
  <2> QED BY <2>2, <2>3, <2>4, <2>5, <2>6 DEF Commits
<1> QED BY <1>1, SessionsKeepInvariant, PTL DEF AccountsSpec, OnlyActiveRefreshes

-----------------------------------------------------------------------------
Held == [u \in Users |-> account[u].refresh.login]

Opened == {c.token.login : c \in cookies}

(* A commit opens a session, closes one, or leaves all of them.            *)
LEMMA CommitsKeepPromise ==
  ASSUME SessionsInvariant, NEW h \in Handlers, Commits(h)
  PROVE  Promise!Next \/ UNCHANGED <<Held, Opened>>
PROOF
<1> DEFINE u == request[h].user
<1>1. /\ TypeOK /\ SeenTokensAreOld /\ LockHolderIsCurrent /\ TokensOK
  BY DEF SessionsInvariant, TokensOK
<1>2. Held \in [Users -> Nat] /\ \A v \in Users : Held[v] = account[v].refresh.login
  BY <1>1 DEF Held, TypeOK, Row, Token
<1>3. \A v \in Users : Held'[v] = account'[v].refresh.login
  BY DEF Held
<1>4. CASE CommitLogin(h)
  <2> DEFINE token == [id |-> issued + 1, login |-> issued + 1, parent |-> 0,
                       password |-> request[h].seen.password]
             new == [user |-> u, token |-> token]
  <2>1. /\ u \in Users /\ account'[u].refresh = token
        /\ \A v \in Users : v # u => account'[v] = account[v]
    BY <1>1, <1>4, LoginWrites
  <2>2. cookies' = cookies \cup {new}
    BY <1>4 DEF CommitLogin, HandOut
  <2>3. token.login = issued + 1 /\ new.token.login = issued + 1
    OBVIOUS
  <2> HIDE DEF token, new
  <2>4. issued + 1 \in Nat \ (Opened \cup {0})
    BY <1>1 DEF Opened, TokensOK, TokensAreNumbered, TypeOK
  <2>5. Held'[u] = issued + 1
    BY <1>3, <2>1, <2>3
  <2>6. Held' = [Held EXCEPT ![u] = issued + 1]
    BY <1>2, <1>3, <2>1, <2>3 DEF Held
  <2>7. Opened' = Opened \cup {issued + 1}
    BY <2>2, <2>3 DEF Opened
  <2> QED BY <2>1, <2>4, <2>5, <2>6, <2>7 DEF Promise!Next, Promise!Open, Held, Opened
<1>5. CASE CommitRefresh(h)
  <2> DEFINE token == [id |-> issued + 1, login |-> account[u].refresh.login,
                       parent |-> account[u].refresh.id,
                       password |-> account[u].refresh.password]
             new == [user |-> u, token |-> token]
             old == [user |-> u, token |-> account[u].refresh]
  <2>1. /\ u \in Users /\ account[u].refresh # NoToken
        /\ \A v \in Users : v # u => account'[v] = account[v]
        /\ [request[h].seen.refresh EXCEPT !.id = issued + 1,
                                           !.parent = request[h].seen.refresh.id] = token
        /\ account'[u].refresh = token
    BY <1>1, <1>5, RefreshWrites
  <2>2. /\ token.login = account[u].refresh.login
        /\ new.token.login = account[u].refresh.login
        /\ old.token.login = account[u].refresh.login
    OBVIOUS
  <2>3. old \in cookies
    BY <1>1, <2>1 DEF TokensOK, HeldWasHandedOut, CookieOf
  <2> HIDE DEF token, old
  <2>4. cookies' = cookies \cup {new}
    BY <1>5, <2>1 DEF CommitRefresh, HandOut
  <2> HIDE DEF new
  <2>5. Opened' = Opened
    BY <2>2, <2>3, <2>4 DEF Opened
  <2>6. Held' = Held
    BY <1>2, <1>3, <2>1, <2>2 DEF Held
  <2> QED BY <2>5, <2>6
<1>6. CASE CommitLogout(h) \/ CommitPassword(h) \/ CommitChange(h)
  <2>1. /\ u \in Users
        /\ account'[u].refresh \in {account[u].refresh, NoToken}
        /\ \A v \in Users : v # u => account'[v] = account[v]
    BY <1>1, <1>6, RevocationWrites, ChangeWrites
  <2>2. Opened' = Opened
    BY <1>6 DEF CommitLogout, CommitPassword, CommitChange, Opened
  <2>3. CASE account'[u].refresh = account[u].refresh
    <3>1. Held' = Held
      BY <1>2, <1>3, <2>1, <2>3 DEF Held
    <3> QED BY <2>2, <3>1
  <2>4. CASE account'[u].refresh = NoToken
    <3>1. Held' = [Held EXCEPT ![u] = 0]
      BY <1>2, <1>3, <2>1, <2>4, TokenFields DEF Held
    <3> QED BY <2>1, <2>2, <3>1 DEF Promise!Next, Promise!Close, Held, Opened
  <2> QED BY <2>1, <2>3, <2>4
<1> QED BY <1>4, <1>5, <1>6 DEF Commits

(* The refresh sessions implement LoginSession: a user holds one at most,  *)
(* opened by a login, and a session that was closed or replaced never comes*)
(* back.                                                                   *)
THEOREM SessionsKeepPromise == AccountsSpec => KeepsSessions
PROOF
<1>1. AccountsInit => Promise!Init
  <2> SUFFICES ASSUME AccountsInit PROVE Promise!Init
    OBVIOUS
  <2>1. \A u \in Users : account[u].refresh.login = 0
    BY InitialRowsAssumption, TokenFields DEF AccountsInit, Init
  <2>2. cookies = {}
    BY DEF AccountsInit, Init
  <2> QED BY <2>1, <2>2 DEF Promise!Init
<1>2. SessionsInvariant /\ [AccountsNext]_accountsVars => [Promise!Next]_<<Held, Opened>>
  <2> SUFFICES ASSUME SessionsInvariant, [AccountsNext]_accountsVars
               PROVE  Promise!Next \/ UNCHANGED <<Held, Opened>>
    OBVIOUS
  <2>1. CASE UNCHANGED <<account, cookies>>
    BY <2>1 DEF Held, Opened
  <2> QED BY <2>1, WhoWritesRows, CommitsKeepPromise
<1> QED BY <1>1, <1>2, SessionsKeepInvariant, PTL
        DEF AccountsSpec, KeepsSessions, Promise!Spec, Held, Opened

-----------------------------------------------------------------------------
(* The numbers of a month: the highest one exists.                         *)

(* A finite set of numbers, and zero, has a highest.                       *)
LEMMA HighestExists ==
  ASSUME NEW S \in SUBSET Nat, IsFiniteSet(S)
  PROVE  \E n \in {0} \cup S : \A k \in {0} \cup S : k <= n
PROOF
<1> DEFINE Has(T) == \E n \in {0} \cup T : \A k \in {0} \cup T : k <= n
           X == {T \in SUBSET S : Has(T)}
<1>1. {} \in X
  OBVIOUS
<1>2. ASSUME NEW T \in SUBSET S, NEW x \in S \ T, T \in X PROVE T \cup {x} \in X
  <2>1. PICK n \in {0} \cup T : \A k \in {0} \cup T : k <= n
    BY <1>2
  <2>2. n \in Nat /\ x \in Nat
    OBVIOUS
  <2>3. CASE x <= n
    BY <2>1, <2>2, <2>3
  <2>4. CASE n <= x
    <3>1. \A k \in {0} \cup (T \cup {x}) : k <= x
      BY <2>1, <2>2, <2>4
    <3> QED BY <3>1
  <2> QED BY <2>2, <2>3, <2>4
<1> HIDE DEF X
<1>3. S \in X
  BY <1>1, <1>2, SetInduction
<1> QED BY <1>3 DEF X

(* What a creation reads is the highest number given in the month.         *)
LEMMA LastIsHighest ==
  ASSUME NumbersFit, NEW m
  PROVE  /\ Last(m) \in Nat
         /\ \A e \in employees : e.month = m => e.sequence <= Last(m)
PROOF
<1>1. Given(m) \subseteq 1..MaxSequence
  BY DEF NumbersFit, Given
<1>2. IsFiniteSet(Given(m)) /\ Given(m) \in SUBSET Nat
  <2>1. 0 \in Int /\ 1 \in Int /\ MaxSequence \in Int /\ 1..MaxSequence \subseteq Nat
    BY LimitsAssumption
  <2>2. IsFiniteSet(1..MaxSequence)
    BY <2>1, FS_Interval
  <2> QED BY <1>1, <2>1, <2>2, FS_Subset
<1>3. \E n \in {0} \cup Given(m) : \A k \in {0} \cup Given(m) : k <= n
  BY <1>2, HighestExists
<1>4. Last(m) \in {0} \cup Given(m) /\ \A k \in {0} \cup Given(m) : k <= Last(m)
  BY <1>3 DEF Last
<1>5. \A e \in employees : e.month = m => e.sequence \in Given(m)
  BY DEF Given
<1> QED BY <1>2, <1>4, <1>5

(* The people of one month get different places, within their number.      *)
Before(rows, i) ==
  {j \in 1..Len(rows) :
     /\ rows[j].month = rows[i].month
     /\ \/ rows[j].place < rows[i].place
        \/ rows[j].place = rows[i].place /\ j <= i}

(* The place of a row among those of its month, counted from one.          *)
LEMMA RankOfRow ==
  ASSUME NEW rows \in Seq(Person), NEW i \in 1..Len(rows)
  PROVE  /\ Rank(rows, i) = Cardinality(Before(rows, i))
         /\ IsFiniteSet(Before(rows, i)) /\ i \in Before(rows, i)
         /\ Rank(rows, i) \in Nat \ {0}
         /\ Joining(rows, rows[i].month) \in Nat
         /\ Rank(rows, i) <= Joining(rows, rows[i].month)
PROOF
<1> DEFINE all == {j \in 1..Len(rows) : rows[j].month = rows[i].month}
<1>1. Len(rows) \in Nat /\ \A j \in 1..Len(rows) : rows[j].place \in Nat
  <2>1. Len(rows) \in Nat /\ \A j \in 1..Len(rows) : rows[j] \in Person
    OBVIOUS
  <2> QED BY <2>1 DEF Person
<1>2. IsFiniteSet(all) /\ Cardinality(all) \in Nat
  <2>1. 1 \in Int /\ Len(rows) \in Int /\ all \subseteq 1..Len(rows)
    BY <1>1
  <2>2. IsFiniteSet(1..Len(rows))
    BY <2>1, FS_Interval
  <2> HIDE DEF all
  <2>3. IsFiniteSet(all)
    BY <2>1, <2>2, FS_Subset
  <2> QED BY <2>3, FS_CardinalityType
<1>3. Before(rows, i) \subseteq all /\ i \in Before(rows, i)
  BY <1>1 DEF Before
<1>4. /\ IsFiniteSet(Before(rows, i)) /\ Cardinality(Before(rows, i)) \in Nat
      /\ Cardinality(Before(rows, i)) <= Cardinality(all)
  BY <1>2, <1>3, FS_Subset, FS_CardinalityType
<1>5. Cardinality(Before(rows, i)) # 0
  BY <1>3, <1>4, FS_EmptySet
<1> QED BY <1>2, <1>3, <1>4, <1>5 DEF Rank, Before, Joining

(* A row further down has another place.                                   *)
LEMMA RanksGrow ==
  ASSUME NEW rows \in Seq(Person), NEW i \in 1..Len(rows), NEW j \in 1..Len(rows),
         rows[i].month = rows[j].month,
         rows[i].place < rows[j].place \/ (rows[i].place = rows[j].place /\ i < j)
  PROVE  Rank(rows, i) # Rank(rows, j)
PROOF
<1>1. Len(rows) \in Nat /\ \A k \in 1..Len(rows) : rows[k].place \in Nat
  <2>1. Len(rows) \in Nat /\ \A k \in 1..Len(rows) : rows[k] \in Person
    OBVIOUS
  <2> QED BY <2>1 DEF Person
<1>2. Before(rows, i) \subseteq Before(rows, j)
  <2> SUFFICES ASSUME NEW k \in Before(rows, i) PROVE k \in Before(rows, j)
    OBVIOUS
  <2>1. /\ k \in 1..Len(rows) /\ rows[k].month = rows[i].month
        /\ rows[k].place < rows[i].place \/ (rows[k].place = rows[i].place /\ k <= i)
    BY DEF Before
  <2>2. /\ rows[k].place \in Nat /\ rows[i].place \in Nat /\ rows[j].place \in Nat
        /\ i \in Nat /\ j \in Nat /\ k \in Nat
    BY <1>1, <2>1
  <2>3. rows[k].place < rows[j].place \/ (rows[k].place = rows[j].place /\ k <= j)
    BY <2>1, <2>2
  <2> QED BY <2>1, <2>3 DEF Before
<1>3. j \notin Before(rows, i) /\ j \in Before(rows, j)
  <2>1. rows[i].place \in Nat /\ rows[j].place \in Nat /\ i \in Nat /\ j \in Nat
    BY <1>1
  <2> QED BY <2>1 DEF Before
<1>4. Cardinality(Before(rows, i)) # Cardinality(Before(rows, j))
  BY <1>2, <1>3, RankOfRow, FS_Subset
<1> QED BY <1>4, RankOfRow

(* Two rows of a month never have the same place.                          *)
LEMMA RanksDiffer ==
  ASSUME NEW rows \in Seq(Person), NEW i \in 1..Len(rows), NEW j \in 1..Len(rows),
         i # j, rows[i].month = rows[j].month
  PROVE  Rank(rows, i) # Rank(rows, j)
PROOF
<1>1. /\ rows[i].place \in Nat /\ rows[j].place \in Nat /\ i \in Nat /\ j \in Nat
  <2>1. Len(rows) \in Nat /\ rows[i] \in Person /\ rows[j] \in Person
    OBVIOUS
  <2> QED BY <2>1 DEF Person
<1>2. \/ rows[i].place < rows[j].place \/ (rows[i].place = rows[j].place /\ i < j)
      \/ rows[j].place < rows[i].place \/ (rows[j].place = rows[i].place /\ j < i)
  BY <1>1
<1> QED BY <1>2, RanksGrow

(* The accounts of an upload that has locked all its months.               *)
LEMMA UploadedAccounts ==
  ASSUME NEW h \in Handlers, JobFits(job[h]), CommitUpload(h)
  PROVE  /\ \A e \in NewAccounts(h) : /\ e.sequence \in 1..MaxSequence
                                      /\ HoldsMonth(h, e.month)
         /\ \A d, e \in NewAccounts(h) :
              d.month = e.month /\ d.sequence = e.sequence => d = e
PROOF
<1> DEFINE rows == job[h].rows
           base == job[h].base
           Account(i) == [month |-> rows[i].month, sequence |-> base[rows[i].month] + Rank(rows, i),
                          email |-> rows[i].email, upload |-> job[h].upload]
<1>1. /\ Uploading(h) /\ DOMAIN base = MonthsOf(rows) /\ rows \in Seq(Person)
      /\ \A m \in DOMAIN base : base[m] \in Nat /\ base[m] + Joining(rows, m) <= MaxSequence
  BY DEF CommitUpload, Uploading, JobFits
<1>2. NewAccounts(h) = {Account(i) : i \in 1..Len(rows)}
  BY DEF NewAccounts
<1>3. ASSUME NEW i \in 1..Len(rows)
      PROVE  /\ rows[i].month \in DOMAIN base /\ base[rows[i].month] \in Nat
             /\ Rank(rows, i) \in Nat
             /\ base[rows[i].month] + Rank(rows, i) \in 1..MaxSequence
  <2>1. rows[i].month \in DOMAIN base
    BY <1>1 DEF MonthsOf
  <2>2. /\ base[rows[i].month] \in Nat
        /\ base[rows[i].month] + Joining(rows, rows[i].month) <= MaxSequence
    BY <1>1, <2>1
  <2>3. /\ Rank(rows, i) \in Nat \ {0} /\ Joining(rows, rows[i].month) \in Nat
        /\ Rank(rows, i) <= Joining(rows, rows[i].month)
    BY <1>1, RankOfRow
  <2> HIDE DEF rows, base
  <2> QED BY <2>1, <2>2, <2>3, LimitsAssumption
<1>4. ASSUME NEW i \in 1..Len(rows)
      PROVE  /\ Account(i).sequence = base[rows[i].month] + Rank(rows, i)
             /\ Account(i).month = rows[i].month
  OBVIOUS
<1>5. \A e \in NewAccounts(h) : e.sequence \in 1..MaxSequence /\ e.month \in DOMAIN base
  <2> HIDE DEF Account, rows, base
  <2> QED BY <1>2, <1>3, <1>4
<1>6. ASSUME NEW i \in 1..Len(rows), NEW j \in 1..Len(rows),
             Account(i).month = Account(j).month, Account(i).sequence = Account(j).sequence
      PROVE  i = j
  <2>1. rows[i].month = rows[j].month
    BY <1>4, <1>6
  <2>2. base[rows[i].month] + Rank(rows, i) = base[rows[i].month] + Rank(rows, j)
    BY <1>4, <1>6, <2>1
  <2> HIDE DEF Account, rows, base
  <2>3. Rank(rows, i) = Rank(rows, j)
    BY <1>3, <2>2
  <2> QED BY <1>1, <2>1, <2>3, RanksDiffer
<1>7. \A d, e \in NewAccounts(h) : d.month = e.month /\ d.sequence = e.sequence => d = e
  <2> HIDE DEF Account, rows, base
  <2> QED BY <1>2, <1>6
<1> QED BY <1>1, <1>5, <1>7 DEF HoldsMonth

(* The parts of a job that a step of another request leaves alone.         *)
LEMMA JobsOfOthers ==
  ASSUME job = [g \in Handlers |-> job[g]], NEW h \in Handlers, NEW j,
         job' = [job EXCEPT ![h] = j]
  PROVE  /\ job' = [g \in Handlers |-> job'[g]]
         /\ job'[h] = j /\ \A g \in Handlers \ {h} : job'[g] = job[g]
PROOF
  OBVIOUS

(* A step that puts nobody into a locked month and locks no month keeps    *)
(* what relates the jobs to the accounts.                                  *)
LEMMA QuietStep ==
  ASSUME NumbersInvariant, NEW h \in Handlers, NEW j,
         job' = [job EXCEPT ![h] = j], JobFits(j),
         j.step = "upload" => DOMAIN j.base = {},
         \A e \in employees' \ employees :
            e.upload = 0 \/ \A g \in Handlers \ {h} : ~HoldsMonth(g, e.month)
  PROVE  /\ job' = [g \in Handlers |-> job'[g]]
         /\ \A g \in Handlers : JobFits(job'[g])
         /\ MonthsExclude' /\ UploadsDoNotCollide'
PROOF
<1>1. /\ job' = [g \in Handlers |-> job'[g]]
      /\ job'[h] = j /\ \A g \in Handlers \ {h} : job'[g] = job[g]
  BY JobsOfOthers DEF NumbersInvariant
<1>2. \A g \in Handlers : JobFits(job'[g])
  BY <1>1 DEF NumbersInvariant
<1>3. MonthsExclude'
  BY <1>1 DEF NumbersInvariant, MonthsExclude, Uploading
<1>4. UploadsDoNotCollide'
  <2> SUFFICES ASSUME NEW g \in Handlers, NEW e \in employees',
                      HoldsMonth(g, e.month)', e.sequence > job'[g].base[e.month]
               PROVE  e.upload = 0
    BY DEF UploadsDoNotCollide
  <2>1. g # h /\ job'[g] = job[g] /\ HoldsMonth(g, e.month)
    BY <1>1 DEF HoldsMonth, Uploading
  <2>2. CASE e \in employees
    BY <2>1, <2>2 DEF NumbersInvariant, UploadsDoNotCollide
  <2>3. CASE e \notin employees
    BY <2>1, <2>3
  <2> QED BY <2>2, <2>3
<1> QED BY <1>1, <1>2, <1>3, <1>4

(* A request that starts or ends and creates no account.                   *)
LEMMA NothingCreated ==
  ASSUME NumbersInvariant, NEW h \in Handlers, NEW j,
         job' = [job EXCEPT ![h] = j], JobFits(j),
         j.step = "upload" => DOMAIN j.base = {}, employees' = employees
  PROVE  NumbersInvariant'
PROOF
<1>1. /\ job' = [g \in Handlers |-> job'[g]] /\ \A g \in Handlers : JobFits(job'[g])
      /\ MonthsExclude' /\ UploadsDoNotCollide'
  BY QuietStep
<1>2. NumbersFit' /\ NumbersAreUnique'
  BY DEF NumbersInvariant, NumbersFit, NumbersAreUnique
<1>3. \A g \in Handlers : JobFits(job[g])'
  BY <1>1 DEF JobFits
<1> QED BY <1>1, <1>2, <1>3 DEF NumbersInvariant

(* A handler with nothing to do has promised no number.                    *)
LEMMA IdleFits == JobFits(NoJob) /\ NoJob.step = "idle"
PROOF
  BY DEF JobFits, NoJob

(* A single creation computes a number within the limit.                   *)
LEMMA BeginSingleKeepsNumbers ==
  ASSUME NumbersInvariant, NEW h \in Handlers, NEW m, NEW email, BeginSingle(h, m, email)
  PROVE  NumbersInvariant'
PROOF
<1> DEFINE j == [step |-> "single", month |-> m, sequence |-> Last(m) + 1, email |-> email]
<1>1. job' = [job EXCEPT ![h] = j] /\ employees' = employees /\ Last(m) < MaxSequence
  BY DEF BeginSingle, Start
<1>2. Last(m) \in Nat
  BY LastIsHighest DEF NumbersInvariant
<1>3. Last(m) + 1 \in 1..MaxSequence
  BY <1>1, <1>2, LimitsAssumption
<1>4. j.step = "single" /\ j.sequence = Last(m) + 1
  OBVIOUS
<1> HIDE DEF j
<1>5. JobFits(j) /\ j.step # "upload"
  BY <1>3, <1>4 DEF JobFits
<1> QED BY <1>1, <1>5, NothingCreated

(* The unique index keeps a single creation from a number in use.          *)
LEMMA CommitSingleKeepsNumbers ==
  ASSUME NumbersInvariant, NEW h \in Handlers, CommitSingle(h)
  PROVE  NumbersInvariant'
PROOF
<1> DEFINE e == [month |-> job[h].month, sequence |-> job[h].sequence,
                 email |-> job[h].email, upload |-> 0]
<1>1. /\ job[h].step = "single" /\ job' = [job EXCEPT ![h] = NoJob]
      /\ employees' = IF Taken(e) THEN employees ELSE employees \cup {e}
  BY DEF CommitSingle, End
<1>2. e.sequence \in 1..MaxSequence /\ e.upload = 0
  BY <1>1 DEF NumbersInvariant, JobFits
<1> HIDE DEF e
<1>3. CASE Taken(e)
  BY <1>1, <1>3, IdleFits, NothingCreated
<1>4. CASE ~Taken(e)
  <2>1. employees' = employees \cup {e}
    BY <1>1, <1>4
  <2>2. \A d \in employees : ~(d.month = e.month /\ d.sequence = e.sequence)
    BY <1>4 DEF Taken
  <2>3. NumbersFit' /\ NumbersAreUnique'
    BY <1>2, <2>1, <2>2 DEF NumbersInvariant, NumbersFit, NumbersAreUnique
  <2>4. /\ job' = [g \in Handlers |-> job'[g]] /\ \A g \in Handlers : JobFits(job'[g])
        /\ MonthsExclude' /\ UploadsDoNotCollide'
    BY <1>1, <1>2, <2>1, IdleFits, QuietStep
  <2>5. \A g \in Handlers : JobFits(job[g])'
    BY <2>4 DEF JobFits
  <2> QED BY <2>3, <2>4, <2>5 DEF NumbersInvariant
<1> QED BY <1>3, <1>4

(* An upload begins with rows it has checked and no month locked.          *)
LEMMA BeginUploadKeepsNumbers ==
  ASSUME NumbersInvariant, NEW h \in Handlers, NEW file \in Files, BeginUpload(h, file)
  PROVE  NumbersInvariant'
PROOF
<1> DEFINE rows == RowsOf(file)
           none == [m \in {} |-> 0]
           j == [step |-> "upload", rows |-> rows, base |-> none, upload |-> begun + 1]
<1>1. job' = [job EXCEPT ![h] = j] /\ employees' = employees /\ Parses(file)
  BY DEF BeginUpload, Start
<1>2. rows \in Seq(Person)
  <2>1. rows \in Seq(Person \cup {Invalid}) /\ \A i \in 1..Len(rows) : rows[i] # Invalid
    BY <1>1, RowsAssumption DEF Parses
  <2> HIDE DEF rows
  <2>2. rows = [i \in 1..Len(rows) |-> rows[i]] /\ Len(rows) \in Nat
    BY <2>1
  <2>3. \A i \in 1..Len(rows) : rows[i] \in Person
    BY <2>1
  <2> QED BY <2>2, <2>3
<1>3. DOMAIN none = {}
  OBVIOUS
<1>4. /\ j.step = "upload" /\ j.rows = rows /\ j.base = none /\ j.upload = begun + 1
      /\ j = [step |-> "upload", rows |-> j.rows, base |-> j.base, upload |-> j.upload]
  OBVIOUS
<1> HIDE DEF j, rows, none
<1>5. JobFits(j) /\ DOMAIN j.base = {}
  BY <1>2, <1>3, <1>4 DEF JobFits
<1> QED BY <1>1, <1>5, NothingCreated

(* The lock on a month is had by one upload, which leaves room for its     *)
(* rows.                                                                   *)
LEMMA LockMonthKeepsNumbers ==
  ASSUME NumbersInvariant, NEW h \in Handlers, NEW m, LockMonth(h, m)
  PROVE  NumbersInvariant'
PROOF
<1> DEFINE room == Last(m) + Joining(job[h].rows, m) <= MaxSequence
           base == [n \in DOMAIN job[h].base \cup {m} |->
                       IF n = m THEN Last(m) ELSE job[h].base[n]]
           j == [job[h] EXCEPT !.base = base]
<1>1. /\ Uploading(h) /\ NextMonth(h, m) /\ MonthFree(h, m)
      /\ employees' = employees
  BY DEF LockMonth
<1>2. /\ Last(m) \in Nat
      /\ \A e \in employees : e.month = m => e.sequence <= Last(m)
  BY LastIsHighest DEF NumbersInvariant
<1>3. /\ job[h] = [step |-> "upload", rows |-> job[h].rows, base |-> job[h].base,
                   upload |-> job[h].upload]
      /\ job[h].rows \in Seq(Person)
      /\ \A n \in DOMAIN job[h].base : /\ job[h].base[n] \in Nat
                                       /\ job[h].base[n] + Joining(job[h].rows, n) <= MaxSequence
  BY <1>1 DEF Uploading, NumbersInvariant, JobFits
<1>4. Joining(job[h].rows, m) \in Nat
  <2>1. PICK i \in 1..Len(job[h].rows) : job[h].rows[i].month = m
    BY <1>1 DEF NextMonth, MonthsOf
  <2> QED BY <1>3, <2>1, RankOfRow
<1>5. CASE job' = [job EXCEPT ![h] = NoJob]
  BY <1>1, <1>5, IdleFits, NothingCreated
<1>6. CASE job' # [job EXCEPT ![h] = NoJob]
  <2>1. /\ Last(m) + Joining(job[h].rows, m) <= MaxSequence
        /\ job' = [job EXCEPT ![h] = j]
    <3>1. ~(Last(m) + Joining(job[h].rows, m) > MaxSequence)
      BY <1>6 DEF LockMonth, End
    <3>2. job' = [job EXCEPT ![h].base =
                    [n \in DOMAIN @ \cup {m} |-> IF n = m THEN Last(m) ELSE @[n]]]
      BY <3>1 DEF LockMonth
    <3>3. Last(m) + Joining(job[h].rows, m) <= MaxSequence
      BY <1>2, <1>4, <3>1, LimitsAssumption
    <3>4. job' = [job EXCEPT ![h] = j]
      BY <3>2
    <3> QED BY <3>3, <3>4
  <2>2. /\ DOMAIN base = DOMAIN job[h].base \cup {m} /\ base[m] = Last(m)
        /\ \A n \in DOMAIN job[h].base : n # m => base[n] = job[h].base[n]
    OBVIOUS
  <2>3. j = [step |-> "upload", rows |-> job[h].rows, base |-> base, upload |-> job[h].upload]
    <3> HIDE DEF base
    <3> QED BY <1>3
  <2>4. /\ j.step = "upload" /\ j.rows = job[h].rows /\ j.base = base
        /\ j.upload = job[h].upload
    BY <2>3
  <2>5. j = [step |-> "upload", rows |-> j.rows, base |-> j.base, upload |-> j.upload]
    BY <2>3, <2>4
  <2> HIDE DEF j, base
  <2>6. \A n \in DOMAIN j.base : j.base[n] \in Nat /\ j.base[n] + Joining(j.rows, n) <= MaxSequence
    <3> SUFFICES ASSUME NEW n \in DOMAIN j.base
                 PROVE  j.base[n] \in Nat /\ j.base[n] + Joining(j.rows, n) <= MaxSequence
      OBVIOUS
    <3>1. CASE n = m
      BY <1>2, <2>1, <2>2, <2>4, <3>1
    <3>2. CASE n # m
      BY <1>3, <2>2, <2>4, <3>2
    <3> QED BY <3>1, <3>2
  <2>7. JobFits(j)
    BY <1>3, <2>4, <2>5, <2>6 DEF JobFits
  <2>8. /\ job' = [g \in Handlers |-> job'[g]]
        /\ job'[h] = j /\ \A g \in Handlers \ {h} : job'[g] = job[g]
    BY <2>1, JobsOfOthers DEF NumbersInvariant
  <2>9. \A g \in Handlers \ {h} : Uploading(g) => m \notin DOMAIN job[g].base
    BY <1>1 DEF MonthFree, HoldsMonth
  <2>10. \A g \in Handlers \ {h} :
           Uploading(g) => DOMAIN job[g].base \cap DOMAIN j.base = {}
    BY <1>1, <2>2, <2>4, <2>9 DEF NumbersInvariant, MonthsExclude
  <2>11. MonthsExclude'
    BY <2>8, <2>10 DEF NumbersInvariant, MonthsExclude, Uploading
  <2>12. UploadsDoNotCollide'
    <3> SUFFICES ASSUME NEW g \in Handlers, NEW e \in employees,
                        HoldsMonth(g, e.month)', e.sequence > job'[g].base[e.month]
                 PROVE  e.upload = 0
      BY <1>1 DEF UploadsDoNotCollide
    <3>1. CASE g # h
      BY <2>8, <3>1 DEF NumbersInvariant, UploadsDoNotCollide, HoldsMonth, Uploading
    <3>2. CASE g = h /\ e.month = m
      <4>1. e.sequence > Last(m) /\ e.sequence <= Last(m)
        BY <1>2, <2>2, <2>4, <2>8, <3>2
      <4>2. e.sequence \in Nat
        BY LimitsAssumption DEF NumbersInvariant, NumbersFit
      <4> QED BY <1>2, <4>1, <4>2
    <3>3. CASE g = h /\ e.month # m
      <4>1. e.month \in DOMAIN job[h].base /\ e.sequence > job[h].base[e.month]
        BY <2>2, <2>4, <2>8, <3>3 DEF HoldsMonth
      <4> QED BY <1>1, <4>1 DEF NumbersInvariant, UploadsDoNotCollide, HoldsMonth
    <3> QED BY <3>1, <3>2, <3>3
  <2>13. \A g \in Handlers : JobFits(job[g])'
    <3>1. \A g \in Handlers : JobFits(job'[g])
      BY <2>7, <2>8 DEF NumbersInvariant
    <3> QED BY <3>1 DEF JobFits
  <2>14. NumbersFit' /\ NumbersAreUnique'
    BY <1>1 DEF NumbersInvariant, NumbersFit, NumbersAreUnique
  <2> QED BY <2>8, <2>11, <2>12, <2>13, <2>14 DEF NumbersInvariant
<1> QED BY <1>5, <1>6

(* The numbers an upload gives are its own and fit.                        *)
LEMMA CommitUploadKeepsNumbers ==
  ASSUME NumbersInvariant, NEW h \in Handlers, CommitUpload(h)
  PROVE  NumbersInvariant'
PROOF
<1> DEFINE new == NewAccounts(h)
<1>1. /\ Uploading(h) /\ job' = [job EXCEPT ![h] = NoJob]
      /\ employees' = IF \E e \in new : Taken(e) THEN employees ELSE employees \cup new
  BY DEF CommitUpload, End
<1>2. /\ \A e \in new : e.sequence \in 1..MaxSequence /\ HoldsMonth(h, e.month)
      /\ \A d, e \in new : d.month = e.month /\ d.sequence = e.sequence => d = e
  BY UploadedAccounts DEF NumbersInvariant
<1> HIDE DEF new
<1>3. CASE \E e \in new : Taken(e)
  BY <1>1, <1>3, IdleFits, NothingCreated
<1>4. CASE ~\E e \in new : Taken(e)
  <2>1. employees' = employees \cup new
    BY <1>1, <1>4
  <2>2. \A d \in employees, e \in new : ~(d.month = e.month /\ d.sequence = e.sequence)
    BY <1>4 DEF Taken
  <2>3. NumbersFit' /\ NumbersAreUnique'
    BY <1>2, <2>1, <2>2 DEF NumbersInvariant, NumbersFit, NumbersAreUnique
  <2>4. \A e \in employees' \ employees : \A g \in Handlers \ {h} : ~HoldsMonth(g, e.month)
    BY <1>2, <2>1 DEF NumbersInvariant, MonthsExclude, HoldsMonth
  <2>5. /\ job' = [g \in Handlers |-> job'[g]] /\ \A g \in Handlers : JobFits(job'[g])
        /\ MonthsExclude' /\ UploadsDoNotCollide'
    BY <1>1, <2>4, IdleFits, QuietStep
  <2>6. \A g \in Handlers : JobFits(job[g])'
    BY <2>5 DEF JobFits
  <2> QED BY <2>3, <2>5, <2>6 DEF NumbersInvariant
<1> QED BY <1>3, <1>4

(* Whatever uploads and single creations run beside each other, an upload  *)
(* that holds the lock of a month has read the highest number any other    *)
(* upload gave in it.                                                      *)
THEOREM NumbersKeepInvariant == AccountsSpec => []NumbersInvariant
PROOF
<1>1. AccountsInit => NumbersInvariant
  <2> SUFFICES ASSUME AccountsInit PROVE NumbersInvariant
    OBVIOUS
  <2>1. employees = {} /\ job = [h \in Handlers |-> NoJob]
    BY DEF AccountsInit, NumbersInit
  <2>2. \A h \in Handlers : job[h] = NoJob
    BY <2>1
  <2>3. job = [h \in Handlers |-> job[h]] /\ \A h \in Handlers : JobFits(job[h])
    BY <2>1, <2>2, IdleFits
  <2>4. MonthsExclude
    BY <2>2, IdleFits DEF MonthsExclude, Uploading
  <2> QED BY <2>1, <2>3, <2>4
          DEF NumbersInvariant, NumbersFit, NumbersAreUnique, UploadsDoNotCollide
<1>2. NumbersInvariant /\ [AccountsNext]_accountsVars => NumbersInvariant'
  <2> SUFFICES ASSUME NumbersInvariant, [AccountsNext]_accountsVars PROVE NumbersInvariant'
    OBVIOUS
  <2>1. CASE UNCHANGED <<employees, job>>
    BY <2>1 DEF NumbersInvariant, JobFits, MonthsExclude, NumbersFit, NumbersAreUnique,
                UploadsDoNotCollide, HoldsMonth, Uploading
  <2>2. CASE NumbersNext
    <3>1. PICK h \in Handlers :
             \/ \E m \in Months, email \in Emails \cup {NoEmail} : BeginSingle(h, m, email)
             \/ CommitSingle(h)
             \/ \E file \in Files : BeginUpload(h, file)
             \/ \E m \in Months : LockMonth(h, m)
             \/ CommitUpload(h)
      BY <2>2 DEF NumbersNext
    <3> QED BY <3>1, BeginSingleKeepsNumbers, CommitSingleKeepsNumbers, BeginUploadKeepsNumbers,
               LockMonthKeepsNumbers, CommitUploadKeepsNumbers
  <2> QED BY <2>1, <2>2 DEF AccountsNext, StaffRequest, accountsVars
<1> QED BY <1>1, <1>2, PTL DEF AccountsSpec

(* Uploads never make each other fail.                                     *)
THEOREM UploadsAreApart == AccountsSpec => []UploadsDoNotCollide
PROOF
<1>1. NumbersInvariant => UploadsDoNotCollide
  BY DEF NumbersInvariant
<1> QED BY <1>1, NumbersKeepInvariant, PTL

(* No two accounts share an employee number, and none has a sequence with  *)
(* more digits than the number has room for.                               *)
THEOREM EmployeeNumbersAreRight == AccountsSpec => [](NumbersAreUnique /\ NumbersFit)
PROOF
<1>1. NumbersInvariant => NumbersAreUnique /\ NumbersFit
  BY DEF NumbersInvariant
<1> QED BY <1>1, NumbersKeepInvariant, PTL
=============================================================================
