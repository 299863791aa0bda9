------------------------- MODULE SessionsInvariant --------------------------
(***************************************************************************)
(* The inductive invariant of the sessions.                                *)
(***************************************************************************)
EXTENDS Sessions

CookieOf(u) == [user |-> u, token |-> account[u].refresh]

\* Tokens are numbered in the order they are made, a login by its first one.
TokensAreNumbered ==
    \A c \in cookies : /\ c.token.id \in 1..issued
                       /\ c.token.login \in 1..issued
                       /\ c.token.parent \in 0..issued

TokensDiffer == \A c, d \in cookies : c.token.id = d.token.id => c = d

\* The session a user holds was handed to that user, and its token is the
\* parent of no other yet.
HeldWasHandedOut ==
    \A u \in Users : account[u].refresh # NoToken =>
        /\ CookieOf(u) \in cookies
        /\ \A c \in cookies : c.token.parent # account[u].refresh.id

\* A request that keeps the row locked has seen the row as it is, and is the
\* only one to keep it.
LockHolderIsCurrent ==
    \A h \in Handlers, u \in Users : HoldsRow(h, u) =>
        /\ request[h].seen = account[u]
        /\ account[u].refresh # NoToken
        /\ \A g \in Handlers \ {h} : ~HoldsRow(g, u)
        /\ request[h].step = "refresh" => account[u].status = "ACTIVE"

\* What is known of the version v that someone once read of user u.
VersionIsKnown(u, v, login) ==
    v <= account[u].version /\ (v = account[u].version => account[u].refresh.login = login)

\* While no version was written from a stale read, whoever knows the current
\* version of a user knows the current session and password.
VersionsIdentifySessions ==
    \A u \in Users \ raced :
        /\ account[u].refresh # NoToken => account[u].refresh.password = account[u].password
        /\ \A a \in access : a.user = u =>
              VersionIsKnown(u, a.version, a.login) /\ a.login # 0
        /\ \A h \in Handlers :
              request[h].step \in {"login", "refresh", "logout", "password"}
                  /\ request[h].user = u =>
                  /\ VersionIsKnown(u, request[h].seen.version, request[h].seen.refresh.login)
                  /\ request[h].seen.version = account[u].version =>
                         request[h].seen.password = account[u].password

\* What a request has seen is no newer than the last token.
SeenTokensAreOld ==
    \A h \in Handlers : request[h].step \in {"login", "refresh", "logout", "password"} =>
        request[h].seen.refresh.id <= issued

\* A request that counted the masters goes on only if there were two.
CountsLeaveOne ==
    \A h \in Handlers : request[h].step = "checked" /\ request[h].masters # 0 =>
        request[h].masters >= 2

SessionsInvariant ==
    /\ TypeOK
    /\ TokensAreNumbered
    /\ TokensDiffer
    /\ HeldWasHandedOut
    /\ LockHolderIsCurrent
    /\ VersionsIdentifySessions
    /\ SeenTokensAreOld
    /\ CountsLeaveOne
    /\ ExchangedOnce
    /\ MastersRemain
=============================================================================
