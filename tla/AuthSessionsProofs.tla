------------------------- MODULE AuthSessionsProofs -------------------------
(* Theorems of AuthSessions, for every set of users, requests and sessions. *)
EXTENDS AuthSessions, FiniteSetTheorems, TLAPS

(***************************************************************************)
(* The inductive invariant.  A handler past its first read names a user    *)
(* and, where it has one, a session that exists and belongs to that user;   *)
(* a refresh about to store has ended the session it came from.  Rows are   *)
(* written with their owner, and only ended rows have successors.           *)
(***************************************************************************)
Ended == {"revoked", "gone"}

Linked(h) ==
  /\ h.pc \in {"find", "reject", "limited"} => h.email \in Spellings /\ h.sid = NoSession
  /\ h.pc \in {"block", "lookup", "rotate", "store", "answer", "strike"} => h.user \in Users
  /\ h.pc \in {"lookup", "rotate", "answer", "strike"} =>
        h.sid \in Sessions /\ row[h.sid] # "none" /\ owner[h.sid] = h.user
  /\ h.pc = "store" /\ h.sid # NoSession => row[h.sid] \in Ended /\ owner[h.sid] = h.user

HandlersLinked == \A r \in Requests : Linked(req[r])

RowsLinked ==
  \A s \in Sessions :
    /\ row[s] = "none" => owner[s] = NoUser /\ parent[s] = NoSession
    /\ row[s] # "none" => owner[s] \in Users
    /\ parent[s] # NoSession => row[parent[s]] \in Ended
    /\ s \in held => row[s] # "none"

IInv == TypeOK /\ HandlersLinked /\ RowsLinked

(***************************************************************************)
(* Type correctness.                                                       *)
(***************************************************************************)

\* Handlers: the values the steps give to the locals are handlers.
LEMMA HandlerValues ==
  ASSUME NEW h \in Handler
  PROVE  /\ Idle \in Handler
         /\ \A label \in Pc : [h EXCEPT !.pc = label] \in Handler
         /\ \A label \in Pc, s \in Sessions :
              [h EXCEPT !.pc = label, !.sid = s] \in Handler
         /\ \A label \in Pc, u \in Users \cup {NoUser} :
              [h EXCEPT !.user = u, !.pc = label] \in Handler
         /\ \A label \in Pc, u \in Users \cup {NoUser}, s \in Sessions :
              [h EXCEPT !.user = u, !.sid = s, !.pc = label] \in Handler
         /\ \A label \in Pc, e \in Spellings, good \in BOOLEAN :
              [h EXCEPT !.email = e, !.good = good, !.pc = label] \in Handler
  BY DEF Handler, Idle, Pc

\* No step gives the handlers' table any other shape.
LEMMA HandlersTyped ==
  ASSUME TypeOK, [Next]_vars
  PROVE  req' \in [Requests -> Handler]
<1> USE DEF TypeOK, At, Goto, Finish
<1>1. Idle \in Handler
  BY DEF Handler, Idle, Pc
<1>2. ASSUME NEW r \in Requests, NEW h \in Handler, req' = [req EXCEPT ![r] = h]
      PROVE  req' \in [Requests -> Handler]
  BY <1>2
<1>3. ASSUME NEW r \in Requests, NEW e \in Spellings, NEW good \in BOOLEAN,
             StartLogin(r, e, good)
      PROVE  req' \in [Requests -> Handler]
  BY <1>1, <1>3, HandlerValues DEF StartLogin, Pc
<1>4. ASSUME NEW r \in Requests, NEW s \in Sessions, StartRefresh(r, s)
      PROVE  req' \in [Requests -> Handler]
  BY <1>1, <1>4, HandlerValues DEF StartRefresh, Pc
<1>5. ASSUME NEW r \in Requests, NEW s \in Sessions, Me(r, s)
      PROVE  req' \in [Requests -> Handler]
  BY <1>1, <1>5, HandlerValues DEF Me, Pc
<1>6. ASSUME NEW r \in Requests, NEW u \in Users, NEW s \in Sessions,
             StartRevokeSession(r, u, s)
      PROVE  req' \in [Requests -> Handler]
  BY <1>1, <1>6, HandlerValues DEF StartRevokeSession, Pc
<1>7. ASSUME NEW r \in Requests, FindUserByEmail(r)
      PROVE  req' \in [Requests -> Handler]
  <2>1. req[r] \in Handler
    OBVIOUS
  <2>2. CASE req' = [req EXCEPT ![r].pc = "reject"]
    BY <2>1, <2>2, HandlerValues DEF Pc
  <2>3. ASSUME NEW u \in Users, NEW label \in {"store", "block"},
               req' = [req EXCEPT ![r].user = u, ![r].pc = label]
        PROVE  req' \in [Requests -> Handler]
    BY <2>1, <2>3, HandlerValues DEF Pc
  <2> QED
    BY <1>7, <2>2, <2>3 DEF FindUserByEmail, UsersWithEmail
<1>8. ASSUME NEW r \in Requests, StoreRefreshToken(r)
      PROVE  req' \in [Requests -> Handler]
  <2>1. req[r] \in Handler
    OBVIOUS
  <2>2. ASSUME NEW s \in Sessions, req' = [req EXCEPT ![r].pc = "answer", ![r].sid = s]
        PROVE  req' \in [Requests -> Handler]
    BY <2>1, <2>2, HandlerValues DEF Pc
  <2> QED
    BY <1>1, <1>8, <2>2 DEF StoreRefreshToken
<1>9. ASSUME NEW r \in Requests, FindActiveRefreshToken(r) \/ RevokeRotated(r)
      PROVE  req' \in [Requests -> Handler]
  <2>1. req[r] \in Handler
    OBVIOUS
  <2>2. ASSUME NEW label \in {"rotate", "store"}, req' = [req EXCEPT ![r].pc = label]
        PROVE  req' \in [Requests -> Handler]
    BY <2>1, <2>2, HandlerValues DEF Pc
  <2> QED
    BY <1>1, <1>9, <2>2 DEF FindActiveRefreshToken, RevokeRotated
<1>10. ASSUME NEW r \in Requests,
              \/ WriteRateLimited(r) \/ WriteFailedEvent(r) \/ WriteBlockedEvent(r)
              \/ AnswerTokens(r) \/ RevokeBySessionId(r) \/ Abort(r)
       PROVE  req' \in [Requests -> Handler]
  BY <1>1, <1>10 DEF WriteRateLimited, WriteFailedEvent, WriteBlockedEvent, AnswerTokens,
     RevokeBySessionId, Abort
<1>11. CASE Environment \/ UNCHANGED vars
  BY <1>11 DEF Environment, Logout, SetUserActive, DeleteUser, ChangeOrganization,
     SessionExpires, EventLeavesWindow, vars
<1> QED
  BY <1>3, <1>4, <1>5, <1>6, <1>7, <1>8, <1>9, <1>10, <1>11
     DEF Next, RequestStep, RequestStart

\* One step keeps every type; that a delivered token is one of a session needs
\* the links of the handler that delivers it.
LEMMA TypeStep ==
  ASSUME TypeOK, HandlersLinked, [Next]_vars
  PROVE  TypeOK'
<1> USE DEF sessionVars, eventVars, adminVars
<1>1. user' \in [Users -> {"active", "inactive", "deleted"}] /\ org' \in OrgRecord
  <2>1. CASE UNCHANGED <<user, org>>
    BY <2>1 DEF TypeOK
  <2>2. ASSUME NEW u \in Users, SetUserActive(u) \/ DeleteUser(u)
        PROVE  user' \in [Users -> {"active", "inactive", "deleted"}] /\ org' \in OrgRecord
    BY <2>2 DEF SetUserActive, DeleteUser, TypeOK
  <2>3. CASE ChangeOrganization
    BY <2>3, OrgAssumption DEF ChangeOrganization, TypeOK
  <2> QED
    BY <2>1, <2>2, <2>3 DEF Next, RequestStep, RequestStart, Environment, StartLogin,
       StartRefresh, Me, StartRevokeSession, WriteRateLimited, FindUserByEmail,
       WriteFailedEvent, WriteBlockedEvent, StoreRefreshToken, AnswerTokens,
       FindActiveRefreshToken, RevokeRotated, RevokeBySessionId, Abort, Logout,
       SessionExpires, EventLeavesWindow, vars
<1>2. failed' \in [Spellings -> Nat] /\ blocked' \in [Spellings -> Nat]
  <2>1. CASE UNCHANGED <<failed, blocked>>
    BY <2>1 DEF TypeOK
  <2>2. ASSUME NEW r \in Requests, WriteRateLimited(r) \/ WriteFailedEvent(r)
        PROVE  failed' \in [Spellings -> Nat] /\ blocked' \in [Spellings -> Nat]
    BY <2>2 DEF WriteRateLimited, WriteFailedEvent, TypeOK
  <2>3. ASSUME NEW r \in Requests, WriteBlockedEvent(r)
        PROVE  failed' \in [Spellings -> Nat] /\ blocked' \in [Spellings -> Nat]
    BY <2>3 DEF WriteBlockedEvent, TypeOK
  <2>4. ASSUME NEW e \in Spellings, EventLeavesWindow(e)
        PROVE  failed' \in [Spellings -> Nat] /\ blocked' \in [Spellings -> Nat]
    BY <2>4 DEF EventLeavesWindow, TypeOK
  <2> QED
    BY <2>1, <2>2, <2>3, <2>4 DEF Next, RequestStep, RequestStart, Environment, StartLogin,
       StartRefresh, Me, StartRevokeSession, FindUserByEmail, StoreRefreshToken,
       AnswerTokens, FindActiveRefreshToken, RevokeRotated, RevokeBySessionId, Abort,
       Logout, SetUserActive, DeleteUser, ChangeOrganization, SessionExpires, vars
<1>3. /\ row' \in [Sessions -> {"none", "live", "revoked", "gone"}]
      /\ owner' \in [Sessions -> Users \cup {NoUser}]
      /\ parent' \in [Sessions -> Sessions \cup {NoSession}]
      /\ expired' \subseteq Sessions
  <2> DEFINE Goal == /\ row' \in [Sessions -> {"none", "live", "revoked", "gone"}]
                     /\ owner' \in [Sessions -> Users \cup {NoUser}]
                     /\ parent' \in [Sessions -> Sessions \cup {NoSession}]
                     /\ expired' \subseteq Sessions
  <2>1. CASE UNCHANGED <<row, owner, parent, expired>>
    BY <2>1 DEF TypeOK
  <2>2. ASSUME NEW r \in Requests, StoreRefreshToken(r)
        PROVE  Goal
    <3>1. req[r].user \in Users \cup {NoUser} /\ req[r].sid \in Sessions \cup {NoSession}
      BY DEF TypeOK, Handler
    <3> QED
      BY <2>2, <3>1 DEF StoreRefreshToken, TypeOK
  <2>3. ASSUME NEW r \in Requests, RevokeRotated(r) \/ RevokeBySessionId(r)
        PROVE  Goal
    BY <2>3 DEF RevokeRotated, RevokeBySessionId, TypeOK
  <2>4. ASSUME NEW u \in Users, Logout(u) \/ DeleteUser(u)
        PROVE  Goal
    BY <2>4 DEF Logout, DeleteUser, TypeOK
  <2>5. ASSUME NEW s \in Sessions, SessionExpires(s)
        PROVE  Goal
    BY <2>5 DEF SessionExpires, TypeOK
  <2> QED
    BY <2>1, <2>2, <2>3, <2>4, <2>5 DEF Next, RequestStep, RequestStart, Environment,
       StartLogin, StartRefresh, Me, StartRevokeSession, WriteRateLimited,
       FindUserByEmail, WriteFailedEvent, WriteBlockedEvent, AnswerTokens,
       FindActiveRefreshToken, Abort, SetUserActive, ChangeOrganization,
       EventLeavesWindow, vars
<1>4. held' \subseteq Sessions
  <2>1. CASE held' = held
    BY <2>1 DEF TypeOK
  <2>2. ASSUME NEW r \in Requests, AnswerTokens(r)
        PROVE  held' \subseteq Sessions
    <3>1. req[r].sid \in Sessions
      BY <2>2 DEF AnswerTokens, At, HandlersLinked, Linked
    <3> QED
      BY <2>2, <3>1 DEF AnswerTokens, TypeOK
  <2> QED
    BY <2>1, <2>2 DEF Next, RequestStep, RequestStart, Environment, StartLogin,
       StartRefresh, Me, StartRevokeSession, WriteRateLimited, FindUserByEmail,
       WriteFailedEvent, WriteBlockedEvent, StoreRefreshToken, FindActiveRefreshToken,
       RevokeRotated, RevokeBySessionId, Abort, Logout, SetUserActive, DeleteUser,
       ChangeOrganization, SessionExpires, EventLeavesWindow, vars
<1> QED
  BY <1>1, <1>2, <1>3, <1>4, HandlersTyped DEF TypeOK

\* Rows advance: a row keeps its owner and its parent once written, is never
\* unwritten, and an ended row stays ended.
LEMMA RowsAdvance ==
  ASSUME TypeOK, RowsLinked, [Next]_vars, NEW s \in Sessions
  PROVE  /\ row[s] # "none" => /\ row'[s] # "none"
                               /\ owner'[s] = owner[s]
                               /\ parent'[s] = parent[s]
         /\ row[s] \in Ended => row'[s] \in Ended
<1> USE DEF sessionVars, Ended
<1>1. CASE UNCHANGED <<row, owner, parent>>
  BY <1>1
<1>2. ASSUME NEW r \in Requests, StoreRefreshToken(r)
      PROVE  /\ row[s] # "none" => /\ row'[s] # "none"
                                   /\ owner'[s] = owner[s]
                                   /\ parent'[s] = parent[s]
             /\ row[s] \in Ended => row'[s] \in Ended
  BY <1>2 DEF StoreRefreshToken, TypeOK
<1>3. ASSUME NEW r \in Requests, RevokeRotated(r) \/ RevokeBySessionId(r)
      PROVE  /\ UNCHANGED <<owner, parent>>
             /\ row[s] # "none" => row'[s] # "none"
             /\ row[s] \in Ended => row'[s] \in Ended
  BY <1>3 DEF RevokeRotated, RevokeBySessionId, TypeOK
<1>4. ASSUME NEW u \in Users, Logout(u) \/ DeleteUser(u)
      PROVE  /\ UNCHANGED <<owner, parent>>
             /\ row[s] # "none" => row'[s] # "none"
             /\ row[s] \in Ended => row'[s] \in Ended
  BY <1>4 DEF Logout, DeleteUser, TypeOK
<1> QED
  BY <1>1, <1>2, <1>3, <1>4 DEF Next, RequestStep, RequestStart, Environment, StartLogin,
     StartRefresh, Me, StartRevokeSession, WriteRateLimited, FindUserByEmail,
     WriteFailedEvent, WriteBlockedEvent, AnswerTokens, FindActiveRefreshToken, Abort,
     SetUserActive, ChangeOrganization, SessionExpires, EventLeavesWindow, vars

\* The links of a handler survive every step of the others.
LEMMA LinksStable ==
  ASSUME TypeOK, RowsLinked, [Next]_vars, NEW h \in Handler, Linked(h)
  PROVE  Linked(h)'
<1>1. h.pc \in {"lookup", "rotate", "answer", "strike"} =>
        row'[h.sid] # "none" /\ owner'[h.sid] = h.user
  BY RowsAdvance DEF Linked
<1>2. h.pc = "store" /\ h.sid # NoSession =>
        row'[h.sid] \in Ended /\ owner'[h.sid] = h.user
  <2>1. h.sid \in Sessions \cup {NoSession}
    BY DEF Handler
  <2> QED
    BY <2>1, RowsAdvance DEF Linked, Ended
<1> QED
  BY <1>1, <1>2 DEF Linked

\* One step keeps the links of every handler.
LEMMA HandlersStep ==
  ASSUME IInv, [Next]_vars
  PROVE  HandlersLinked'
<1> USE NullAssumption DEF At, Goto, Finish, sessionVars, eventVars, adminVars
<1>1. req \in [Requests -> Handler] /\ TypeOK /\ RowsLinked /\ HandlersLinked
  BY DEF IInv, TypeOK
<1>3. ASSUME NEW r \in Requests, NEW h, req' = [req EXCEPT ![r] = h], Linked(h)'
      PROVE  HandlersLinked'
  <2> SUFFICES ASSUME NEW q \in Requests PROVE Linked(req[q])'
    BY DEF HandlersLinked
  <2>1. CASE q = r
    <3>1. req'[q] = h
      BY <1>1, <1>3, <2>1
    <3> QED
      BY <1>3, <3>1 DEF Linked
  <2>2. CASE q # r
    <3>1. req'[q] = req[q] /\ req[q] \in Handler /\ Linked(req[q])
      BY <1>1, <1>3, <2>2 DEF HandlersLinked
    <3>2. \A h2 \in Handler : Linked(h2) => Linked(h2)'
      BY <1>1, LinksStable
    <3> QED
      BY <3>1, <3>2 DEF Linked
  <2> QED
    BY <2>1, <2>2
<1>4. Linked(Idle)'
  BY DEF Linked, Idle
<1>5. ASSUME NEW r \in Requests, NEW e \in Spellings, NEW good \in BOOLEAN,
             StartLogin(r, e, good)
      PROVE  HandlersLinked'
  <2>1. PICK label \in {"find", "limited"} :
          req' = [req EXCEPT ![r] = [Idle EXCEPT !.email = e, !.good = good, !.pc = label]]
    BY <1>5 DEF StartLogin
  <2>2. Linked([Idle EXCEPT !.email = e, !.good = good, !.pc = label])'
    BY DEF Linked, Idle
  <2> QED
    BY <1>3, <2>1, <2>2
<1>6. ASSUME NEW r \in Requests, NEW s \in Sessions, StartRefresh(r, s) \/ Me(r, s)
      PROVE  HandlersLinked'
  <2>1. row[s] # "none" /\ owner[s] \in Users
    BY <1>1, <1>6 DEF StartRefresh, Me, RowsLinked
  <2>2. PICK u \in Users : u = owner[s]
    BY <2>1
  <2>3. row' = row /\ owner' = owner
    BY <1>6 DEF StartRefresh, Me
  <2>4. CASE StartRefresh(r, s)
    <3>1. PICK label \in {"lookup", "block"} :
            req' = [req EXCEPT ![r] = [Idle EXCEPT !.user = u, !.sid = s, !.pc = label]]
      BY <2>2, <2>4 DEF StartRefresh
    <3>2. Linked([Idle EXCEPT !.user = u, !.sid = s, !.pc = label])'
      BY <2>1, <2>2, <2>3 DEF Linked, Idle
    <3> QED
      BY <1>3, <3>1, <3>2
  <2>5. CASE Me(r, s)
    <3>1. Linked([Idle EXCEPT !.user = u, !.pc = "block"])'
      BY <2>1, <2>2, <2>3 DEF Linked, Idle
    <3> QED
      BY <1>3, <2>2, <2>5, <3>1 DEF Me
  <2> QED
    BY <1>6, <2>4, <2>5
<1>7. ASSUME NEW r \in Requests, NEW u \in Users, NEW s \in Sessions,
             StartRevokeSession(r, u, s)
      PROVE  HandlersLinked'
  <2> DEFINE h == [Idle EXCEPT !.user = u, !.sid = s, !.pc = "strike"]
  <2>1. Linked(h)'
    BY <1>7 DEF StartRevokeSession, Linked, Idle
  <2> QED
    BY <1>3, <1>7, <2>1 DEF StartRevokeSession
<1>8. ASSUME NEW r \in Requests, FindUserByEmail(r)
      PROVE  HandlersLinked'
  <2>1. PICK h \in Handler : h = req[r] /\ Linked(h) /\ h.pc = "find"
    BY <1>1, <1>8 DEF FindUserByEmail, HandlersLinked
  <2>2. CASE req' = [req EXCEPT ![r].pc = "reject"]
    <3>1. Linked([h EXCEPT !.pc = "reject"])'
      BY <2>1 DEF Linked, Handler
    <3>2. req' = [req EXCEPT ![r] = [h EXCEPT !.pc = "reject"]]
      BY <2>1, <2>2
    <3> QED
      BY <1>3, <3>1, <3>2
  <2>3. ASSUME NEW u \in Users, NEW label \in {"store", "block"},
               req' = [req EXCEPT ![r].user = u, ![r].pc = label]
        PROVE  HandlersLinked'
    <3>1. Linked([h EXCEPT !.user = u, !.pc = label])'
      BY <2>1 DEF Linked, Handler
    <3>2. req' = [req EXCEPT ![r] = [h EXCEPT !.user = u, !.pc = label]]
      BY <1>1, <2>1, <2>3 DEF Handler
    <3> QED
      BY <1>3, <3>1, <3>2
  <2> QED
    BY <1>8, <2>2, <2>3 DEF FindUserByEmail, UsersWithEmail
<1>9. ASSUME NEW r \in Requests, StoreRefreshToken(r)
      PROVE  HandlersLinked'
  <2>1. PICK h \in Handler : h = req[r] /\ Linked(h) /\ h.pc = "store"
    BY <1>1, <1>9 DEF StoreRefreshToken, HandlersLinked
  <2>2. ASSUME NEW s \in Sessions, row[s] = "none", row' = [row EXCEPT ![s] = "live"],
               owner' = [owner EXCEPT ![s] = req[r].user],
               req' = [req EXCEPT ![r].pc = "answer", ![r].sid = s]
        PROVE  HandlersLinked'
    <3>1. Linked([h EXCEPT !.pc = "answer", !.sid = s])'
      BY <1>1, <2>1, <2>2 DEF Linked, Handler, TypeOK
    <3>2. req' = [req EXCEPT ![r] = [h EXCEPT !.pc = "answer", !.sid = s]]
      BY <1>1, <2>1, <2>2 DEF Handler
    <3> QED
      BY <1>3, <3>1, <3>2
  <2> QED
    BY <1>3, <1>4, <1>9, <2>2 DEF StoreRefreshToken
<1>10. ASSUME NEW r \in Requests, FindActiveRefreshToken(r) \/ RevokeRotated(r)
       PROVE  HandlersLinked'
  <2>1. PICK h \in Handler : h = req[r] /\ Linked(h)
    BY <1>1 DEF HandlersLinked
  <2>2. ASSUME FindActiveRefreshToken(r), req' = [req EXCEPT ![r].pc = "rotate"]
        PROVE  HandlersLinked'
    <3>1. Linked([h EXCEPT !.pc = "rotate"])'
      BY <2>1, <2>2 DEF FindActiveRefreshToken, Linked, Handler
    <3>2. req' = [req EXCEPT ![r] = [h EXCEPT !.pc = "rotate"]]
      BY <2>1, <2>2
    <3> QED
      BY <1>3, <3>1, <3>2
  <2>3. ASSUME RevokeRotated(r), req' = [req EXCEPT ![r].pc = "store"],
               row' = [row EXCEPT ![req[r].sid] = "revoked"]
        PROVE  HandlersLinked'
    <3>1. Linked([h EXCEPT !.pc = "store"])'
      BY <1>1, <2>1, <2>3 DEF RevokeRotated, Linked, Handler, TypeOK, Ended
    <3>2. req' = [req EXCEPT ![r] = [h EXCEPT !.pc = "store"]]
      BY <2>1, <2>3
    <3> QED
      BY <1>3, <3>1, <3>2
  <2> QED
    BY <1>3, <1>4, <1>10, <2>2, <2>3 DEF FindActiveRefreshToken, RevokeRotated
<1>11. ASSUME NEW r \in Requests, req' = [req EXCEPT ![r] = Idle]
       PROVE  HandlersLinked'
  BY <1>3, <1>4, <1>11
<1>12. CASE UNCHANGED req
  <2>1. \A h \in Handler : Linked(h) => Linked(h)'
    BY <1>1, LinksStable
  <2> QED
    BY <1>1, <1>12, <2>1 DEF HandlersLinked, Linked
<1> QED
  BY <1>5, <1>6, <1>7, <1>8, <1>9, <1>10, <1>11, <1>12
     DEF Next, RequestStep, RequestStart, Environment, WriteRateLimited, WriteFailedEvent,
     WriteBlockedEvent, AnswerTokens, RevokeBySessionId, Abort, Logout, SetUserActive,
     DeleteUser, ChangeOrganization, SessionExpires, EventLeavesWindow, vars

\* One step keeps the links of the rows.
LEMMA RowsStep ==
  ASSUME IInv, [Next]_vars
  PROVE  RowsLinked'
<1> USE NullAssumption DEF At, sessionVars, Ended
<1>1. TypeOK /\ RowsLinked /\ HandlersLinked
  BY DEF IInv
<1>2. CASE UNCHANGED <<row, owner, parent, held>>
  BY <1>1, <1>2 DEF RowsLinked
<1>3. ASSUME NEW r \in Requests, StoreRefreshToken(r)
      PROVE  RowsLinked'
  <2>1. /\ req[r] \in Handler /\ req[r].user \in Users
        /\ req[r].sid \in Sessions \cup {NoSession}
        /\ req[r].sid # NoSession => row[req[r].sid] \in Ended
    BY <1>1, <1>3 DEF StoreRefreshToken, TypeOK, Handler, HandlersLinked, Linked
  <2>2. ASSUME NEW s \in Sessions, row[s] = "none", row' = [row EXCEPT ![s] = "live"],
               owner' = [owner EXCEPT ![s] = req[r].user],
               parent' = [parent EXCEPT ![s] = req[r].sid], held' = held
        PROVE  RowsLinked'
    BY <1>1, <2>1, <2>2 DEF RowsLinked, TypeOK
  <2> QED
    BY <1>2, <1>3, <2>2 DEF StoreRefreshToken
<1>4. ASSUME NEW r \in Requests, RevokeRotated(r) \/ RevokeBySessionId(r)
      PROVE  RowsLinked'
  <2>1. req[r].sid \in Sessions /\ row[req[r].sid] # "none"
    BY <1>1, <1>4 DEF RevokeRotated, RevokeBySessionId, HandlersLinked, Linked
  <2> QED
    BY <1>1, <1>4, <2>1 DEF RevokeRotated, RevokeBySessionId, RowsLinked, TypeOK
<1>5. ASSUME NEW u \in Users, Logout(u) \/ DeleteUser(u)
      PROVE  RowsLinked'
  BY <1>1, <1>5 DEF Logout, DeleteUser, RowsLinked, TypeOK
<1>6. ASSUME NEW r \in Requests, AnswerTokens(r)
      PROVE  RowsLinked'
  <2>1. req[r].sid \in Sessions /\ row[req[r].sid] # "none"
    BY <1>1, <1>6 DEF AnswerTokens, HandlersLinked, Linked
  <2> QED
    BY <1>1, <1>6, <2>1 DEF AnswerTokens, RowsLinked
<1> QED
  BY <1>2, <1>3, <1>4, <1>5, <1>6 DEF Next, RequestStep, RequestStart, Environment,
     StartLogin, StartRefresh, Me, StartRevokeSession, WriteRateLimited, FindUserByEmail,
     WriteFailedEvent, WriteBlockedEvent, FindActiveRefreshToken, Abort, SetUserActive,
     ChangeOrganization, SessionExpires, EventLeavesWindow, vars

\* The invariant holds throughout.
THEOREM Inductive == Spec => []IInv
<1>1. Init => IInv
  BY OrgAssumption DEF Init, IInv, TypeOK, Handler, Idle, Pc, HandlersLinked, Linked, RowsLinked
<1>2. IInv /\ [Next]_vars => IInv'
  BY TypeStep, HandlersStep, RowsStep DEF IInv
<1> QED
  BY <1>1, <1>2, PTL DEF Spec

\* Every step of every handler keeps the rows, the event counts and the locals
\* of the handlers within their types.
THEOREM TypeCorrect == Spec => []TypeOK
<1>1. IInv => TypeOK
  BY DEF IInv
<1> QED
  BY <1>1, Inductive, PTL

\* refreshTokens revokes before it stores: a session that was minted by a
\* rotation has an ended parent, whatever ran in between.
THEOREM ParentsEnd == Spec => []RotatedParentIsDead
<1>1. IInv => RotatedParentIsDead
  BY DEF IInv, RowsLinked, RotatedParentIsDead, Ended
<1> QED
  BY <1>1, Inductive, PTL

(***************************************************************************)
(* The limiter's budget.  Handlers between the count and the record of the *)
(* outcome have a guess that is not counted yet; each of them saw the      *)
(* limit unreached.                                                        *)
(***************************************************************************)
Budget ==
  \A e \in Spellings :
    failed[e] + Cardinality(Guessing(e)) < MaxFailedLogins + Cardinality(Requests)

LEMMA GuessingFinite ==
  ASSUME NEW e \in Spellings
  PROVE  /\ IsFiniteSet(Guessing(e)) /\ Cardinality(Guessing(e)) \in Nat
         /\ Cardinality(Guessing(e)) <= Cardinality(Requests)
         /\ Cardinality(Requests) \in Nat
<1>1. Guessing(e) \in SUBSET Requests
  BY DEF Guessing
<1> QED
  BY <1>1, RequestsAssumption, FS_Subset, FS_CardinalityType

LEMMA BudgetStep ==
  ASSUME IInv, Budget, [Next]_vars
  PROVE  Budget'
<1> USE LimitAssumption DEF At, Goto, Finish, sessionVars, eventVars, adminVars
<1> SUFFICES ASSUME NEW e \in Spellings
             PROVE  (failed[e] + Cardinality(Guessing(e))
                       < MaxFailedLogins + Cardinality(Requests))'
  BY DEF Budget
<1> DEFINE G == Guessing(e)
           Goal == failed'[e] + Cardinality(G') < MaxFailedLogins + Cardinality(Requests)
<1>1. /\ TypeOK /\ TypeOK' /\ HandlersLinked
      /\ failed[e] \in Nat /\ failed'[e] \in Nat /\ blocked[e] \in Nat
      /\ failed[e] + Cardinality(G) < MaxFailedLogins + Cardinality(Requests)
  BY TypeStep DEF IInv, TypeOK, Budget
<1>2. IsFiniteSet(G) /\ Cardinality(G) \in Nat /\ Cardinality(Requests) \in Nat
  BY GuessingFinite
<1>3. G' \in SUBSET Requests
  BY DEF Guessing
<1>4. IsFiniteSet(G') /\ Cardinality(G') \in Nat /\ Cardinality(G') <= Cardinality(Requests)
  BY <1>3, RequestsAssumption, FS_Subset, FS_CardinalityType
<1>5. ASSUME G' \subseteq G, failed'[e] <= failed[e]
      PROVE  Goal
  <2>1. Cardinality(G') <= Cardinality(G)
    BY <1>2, <1>5, FS_Subset
  <2> QED
    BY <1>1, <1>2, <1>4, <1>5, <2>1
<1>6. ASSUME NEW r \in Requests, NEW t \in Spellings, NEW good \in BOOLEAN,
             StartLogin(r, t, good)
      PROVE  Goal
  <2>1. CASE Canonical[t] = e /\ RecentFailedLogins(e) < MaxFailedLogins
    <3>1. failed'[e] < MaxFailedLogins
      BY <1>1, <1>6, <2>1 DEF RecentFailedLogins, LimiterKey, StartLogin
    <3> QED
      BY <1>1, <1>2, <1>4, <3>1
  <2>2. CASE ~(Canonical[t] = e /\ RecentFailedLogins(e) < MaxFailedLogins)
    <3>1. G' \subseteq G /\ failed' = failed
      BY <1>1, <1>6, <2>2 DEF StartLogin, LimiterKey, Guessing, Idle, TypeOK
    <3> QED
      BY <1>1, <1>5, <3>1
  <2> QED
    BY <2>1, <2>2
<1>7. ASSUME NEW r \in Requests, WriteFailedEvent(r)
      PROVE  Goal
  <2>1. CASE Canonical[req[r].email] = e
    <3>1. r \in G /\ failed'[e] = failed[e] + 1
      BY <1>1, <1>7, <2>1 DEF WriteFailedEvent, Guessing, TypeOK
    <3>2. G' = G \ {r}
      BY <1>1, <1>7 DEF WriteFailedEvent, Guessing, Idle, TypeOK
    <3>3. Cardinality(G \ {r}) = Cardinality(G) - 1
      BY <1>2, <3>1, FS_RemoveElement
    <3>4. Cardinality(G') = Cardinality(G) - 1
      BY <3>2, <3>3
    <3> QED
      BY <1>1, <1>2, <1>4, <3>1, <3>4
  <2>2. CASE Canonical[req[r].email] # e
    <3>1. G' \subseteq G /\ failed'[e] = failed[e]
      BY <1>1, <1>7, <2>2 DEF WriteFailedEvent, Guessing, Idle, TypeOK
    <3> QED
      BY <1>1, <1>5, <3>1
  <2> QED
    BY <2>1, <2>2
<1>8. ASSUME NEW r \in Requests, NEW s \in Sessions,
             \/ StartRefresh(r, s) \/ Me(r, s)
             \/ \E u \in Users : StartRevokeSession(r, u, s)
      PROVE  Goal
  <2>1. failed' = failed
    BY <1>8 DEF StartRefresh, Me, StartRevokeSession
  <2>2. req'[r].pc \notin {"find", "reject"} /\ \A q \in Requests \ {r} : req'[q] = req[q]
    <3>1. CASE StartRefresh(r, s)
      BY <1>1, <3>1 DEF StartRefresh, Idle, TypeOK
    <3>2. CASE Me(r, s)
      BY <1>1, <3>2 DEF Me, Idle, TypeOK
    <3>3. ASSUME NEW u \in Users, StartRevokeSession(r, u, s)
          PROVE  req'[r].pc \notin {"find", "reject"} /\ \A q \in Requests \ {r} : req'[q] = req[q]
      BY <1>1, <3>3 DEF StartRevokeSession, Idle, TypeOK
    <3> QED
      BY <1>8, <3>1, <3>2, <3>3
  <2>3. G' \subseteq G
    BY <1>1, <2>2 DEF Guessing, TypeOK
  <2> QED
    BY <1>1, <1>5, <2>1, <2>3
<1>9. ASSUME NEW r \in Requests, FindUserByEmail(r)
      PROVE  Goal
  <2>1. ASSUME NEW q \in G'
        PROVE  q \in G
    <3>1. req[r] \in Handler /\ req[r].pc = "find" /\ req \in [Requests -> Handler]
      BY <1>1, <1>9 DEF FindUserByEmail, TypeOK
    <3>2. CASE req' = [req EXCEPT ![r].pc = "reject"]
      BY <3>1, <3>2 DEF Guessing, Handler
    <3>3. ASSUME NEW u \in Users, NEW label \in {"store", "block"},
                 req' = [req EXCEPT ![r].user = u, ![r].pc = label]
          PROVE  q \in G
      BY <3>1, <3>3 DEF Guessing, Handler
    <3> QED
      BY <1>9, <3>2, <3>3 DEF FindUserByEmail, UsersWithEmail
  <2> QED
    BY <1>1, <1>5, <1>9, <2>1 DEF FindUserByEmail
<1>10. ASSUME NEW r \in Requests,
              \/ StoreRefreshToken(r) \/ FindActiveRefreshToken(r) \/ RevokeRotated(r)
       PROVE  Goal
  <2>1. G' \subseteq G /\ failed' = failed
    BY <1>1, <1>10 DEF StoreRefreshToken, FindActiveRefreshToken, RevokeRotated, Guessing,
       Idle, TypeOK, Handler
  <2> QED
    BY <1>1, <1>5, <2>1
<1>11. ASSUME NEW r \in Requests, req' = [req EXCEPT ![r] = Idle], failed' = failed
       PROVE  Goal
  <2>1. G' \subseteq G
    BY <1>1, <1>11 DEF Guessing, Idle, TypeOK
  <2> QED
    BY <1>1, <1>5, <1>11, <2>1
<1>12. ASSUME UNCHANGED req, failed'[e] <= failed[e]
       PROVE  Goal
  BY <1>5, <1>12 DEF Guessing
<1>13. ASSUME NEW t \in Spellings, EventLeavesWindow(t)
       PROVE  Goal
  <2>1. failed'[e] <= failed[e] /\ UNCHANGED req
    BY <1>1, <1>13 DEF EventLeavesWindow, TypeOK
  <2> QED
    BY <1>12, <2>1
<1>14. failed[e] <= failed[e]
  BY <1>1
<1>15. CASE \E r \in Requests : RequestStep(r) \/ RequestStart(r)
  BY <1>6, <1>7, <1>8, <1>9, <1>10, <1>11, <1>15 DEF RequestStep, RequestStart,
     WriteRateLimited, WriteBlockedEvent, AnswerTokens, RevokeBySessionId, Abort
<1>16. CASE Environment
  BY <1>12, <1>13, <1>14, <1>16 DEF Environment, Logout, SetUserActive, DeleteUser,
     ChangeOrganization, SessionExpires
<1>17. CASE UNCHANGED vars
  BY <1>12, <1>14, <1>17 DEF vars
<1> QED
  BY <1>15, <1>16, <1>17 DEF Next

\* Concurrent logins pass the rate limiter together, and never by more than the
\* number of handlers: with one handler, the limit is exact.
THEOREM LimiterBudget == Spec => []GuessBudget
<1>1. Init => Budget
  <2>1. ASSUME Init, NEW e \in Spellings
        PROVE  Guessing(e) = {}
    BY <2>1 DEF Init, Guessing, Idle
  <2> QED
    BY <2>1, FS_EmptySet, LimitAssumption, RequestsAssumption, FS_CardinalityType DEF Init, Budget
<1>2. IInv /\ Budget /\ [Next]_vars => Budget'
  BY BudgetStep
<1>3. IInv /\ Budget => GuessBudget
  BY GuessingFinite, LimitAssumption DEF IInv, TypeOK, Budget, GuessBudget
<1> QED
  BY <1>1, <1>2, <1>3, Inductive, PTL DEF Spec

(***************************************************************************)
(* Rotation.  As long as a session is live it has no successor; once it has *)
(* ended no refresh gets past the lookup, so the successors and the         *)
(* refreshes still on their way never outnumber the handlers.               *)
(***************************************************************************)
FanOut ==
  \A s \in Sessions :
    /\ IsFiniteSet(Children(s))
    /\ Cardinality(Children(s)) + Cardinality(PastLookup(s)) <= Cardinality(Requests)

LEMMA FanOutStep ==
  ASSUME IInv, FanOut, [Next]_vars
  PROVE  FanOut'
<1> USE NullAssumption DEF At, Goto, Finish, sessionVars, eventVars, adminVars
<1> SUFFICES ASSUME NEW s \in Sessions
             PROVE  (/\ IsFiniteSet(Children(s))
                     /\ Cardinality(Children(s)) + Cardinality(PastLookup(s))
                          <= Cardinality(Requests))'
  BY DEF FanOut
<1> DEFINE C == Children(s)
           P == PastLookup(s)
           Goal == /\ IsFiniteSet(C')
                   /\ Cardinality(C') + Cardinality(P') <= Cardinality(Requests)
<1>1. /\ TypeOK /\ TypeOK' /\ HandlersLinked /\ RowsLinked
      /\ IsFiniteSet(C) /\ Cardinality(C) \in Nat
      /\ Cardinality(C) + Cardinality(P) <= Cardinality(Requests)
  BY TypeStep, FS_CardinalityType DEF IInv, FanOut
<1>2. P \in SUBSET Requests /\ P' \in SUBSET Requests
  BY DEF PastLookup
<1>3. /\ Cardinality(Requests) \in Nat
      /\ IsFiniteSet(P) /\ Cardinality(P) \in Nat
      /\ IsFiniteSet(P') /\ Cardinality(P') \in Nat /\ Cardinality(P') <= Cardinality(Requests)
  BY <1>2, RequestsAssumption, FS_Subset, FS_CardinalityType
<1>4. ASSUME C' = {}
      PROVE  Goal
  BY <1>3, <1>4, FS_EmptySet
<1>5. ASSUME parent' = parent, P' \subseteq P
      PROVE  Goal
  <2>1. Cardinality(P') <= Cardinality(P)
    BY <1>3, <1>5, FS_Subset
  <2>2. C' = C
    BY <1>5 DEF Children
  <2> QED
    BY <1>1, <1>3, <2>1, <2>2
<1>6. ASSUME NEW r \in Requests, StoreRefreshToken(r)
      PROVE  Goal
  <2>1. CASE user[req[r].user] = "deleted" /\ req' = [req EXCEPT ![r] = Idle] /\ parent' = parent
    <3>1. P' \subseteq P
      BY <1>1, <2>1 DEF PastLookup, Idle, TypeOK
    <3> QED
      BY <1>5, <2>1, <3>1
  <2>2. ASSUME NEW c \in Sessions, row[c] = "none",
               parent' = [parent EXCEPT ![c] = req[r].sid],
               req' = [req EXCEPT ![r].pc = "answer", ![r].sid = c]
        PROVE  Goal
    <3>1. parent[c] = NoSession /\ c \notin C
      BY <1>1, <2>2 DEF RowsLinked, Children
    <3>2. req[r].pc = "store" /\ req'[r].pc = "answer"
      <4>1. req[r] \in Handler /\ req \in [Requests -> Handler]
        BY <1>1 DEF TypeOK
      <4> QED
        BY <1>6, <2>2, <4>1 DEF StoreRefreshToken, Handler
    <3>3. \A q \in Requests \ {r} : req'[q] = req[q]
      BY <1>1, <2>2 DEF TypeOK
    <3>4. P' = P \ {r}
      BY <3>2, <3>3 DEF PastLookup
    <3>5. CASE req[r].sid = s
      <4>1. r \in P
        BY <3>2, <3>5 DEF PastLookup
      <4>2. C' = C \cup {c}
        BY <1>1, <2>2, <3>1, <3>5 DEF Children, TypeOK
      <4>3. IsFiniteSet(C') /\ Cardinality(C') = Cardinality(C) + 1
        BY <1>1, <3>1, <4>2, FS_AddElement
      <4>4. Cardinality(P') = Cardinality(P) - 1
        BY <1>3, <3>4, <4>1, FS_RemoveElement
      <4> QED
        BY <1>1, <1>3, <4>3, <4>4
    <3>6. CASE req[r].sid # s
      <4>1. C' = C
        BY <1>1, <2>2, <3>1, <3>6 DEF Children, TypeOK
      <4>2. Cardinality(P') <= Cardinality(P)
        BY <1>3, <3>4, FS_Subset
      <4> QED
        BY <1>1, <1>3, <4>1, <4>2
    <3> QED
      BY <3>5, <3>6
  <2> QED
    BY <1>6, <2>1, <2>2 DEF StoreRefreshToken
<1>7. ASSUME NEW r \in Requests, FindActiveRefreshToken(r)
      PROVE  Goal
  <2>1. parent' = parent
    BY <1>7 DEF FindActiveRefreshToken
  <2>2. CASE req[r].sid = s /\ row[s] = "live"
    <3>1. C = {}
      BY <1>1, <2>2 DEF Children, RowsLinked, Ended
    <3> QED
      BY <1>4, <2>1, <3>1 DEF Children
  <2>3. CASE ~(req[r].sid = s /\ row[s] = "live")
    <3>1. P' \subseteq P
      BY <1>1, <1>7, <2>3 DEF FindActiveRefreshToken, PastLookup, Idle, TypeOK, Handler
    <3> QED
      BY <1>5, <2>1, <3>1
  <2> QED
    BY <2>2, <2>3
<1>8. ASSUME NEW r \in Requests, RevokeRotated(r)
      PROVE  Goal
  <2>1. P' \subseteq P /\ parent' = parent
    BY <1>1, <1>8 DEF RevokeRotated, PastLookup, Idle, TypeOK, Handler
  <2> QED
    BY <1>5, <2>1
<1>9. ASSUME NEW r \in Requests, FindUserByEmail(r)
      PROVE  Goal
  <2>1. parent' = parent /\ req[r].sid = NoSession /\ req'[r].sid = req[r].sid
    <3>1. req[r] \in Handler /\ req \in [Requests -> Handler] /\ req[r].sid = NoSession
      BY <1>1, <1>9 DEF FindUserByEmail, HandlersLinked, Linked, TypeOK
    <3>2. CASE req' = [req EXCEPT ![r].pc = "reject"]
      BY <1>9, <3>1, <3>2 DEF FindUserByEmail, Handler
    <3>3. ASSUME NEW u \in Users, NEW label \in {"store", "block"},
                 req' = [req EXCEPT ![r].user = u, ![r].pc = label]
          PROVE  req'[r].sid = req[r].sid
      BY <3>1, <3>3 DEF Handler
    <3> QED
      BY <1>9, <3>1, <3>2, <3>3 DEF FindUserByEmail, UsersWithEmail
  <2>2. \A q \in Requests \ {r} : req'[q] = req[q]
    BY <1>1, <1>9 DEF FindUserByEmail, TypeOK
  <2>3. P' \subseteq P
    BY <2>1, <2>2 DEF PastLookup
  <2> QED
    BY <1>5, <2>1, <2>3
<1>10. ASSUME NEW r \in Requests, RequestStart(r)
       PROVE  Goal
  <2>1. parent' = parent
    BY <1>10 DEF RequestStart, StartLogin, StartRefresh, Me, StartRevokeSession
  <2>2. req'[r].pc \notin {"rotate", "store"} /\ \A q \in Requests \ {r} : req'[q] = req[q]
    <3>1. ASSUME NEW e \in Spellings, NEW good \in BOOLEAN, StartLogin(r, e, good)
          PROVE  req'[r].pc \notin {"rotate", "store"} /\ \A q \in Requests \ {r} : req'[q] = req[q]
      BY <1>1, <3>1 DEF StartLogin, Idle, TypeOK
    <3>2. ASSUME NEW t \in Sessions, StartRefresh(r, t)
          PROVE  req'[r].pc \notin {"rotate", "store"} /\ \A q \in Requests \ {r} : req'[q] = req[q]
      BY <1>1, <3>2 DEF StartRefresh, Idle, TypeOK
    <3>3. ASSUME NEW t \in Sessions, Me(r, t)
          PROVE  req'[r].pc \notin {"rotate", "store"} /\ \A q \in Requests \ {r} : req'[q] = req[q]
      BY <1>1, <3>3 DEF Me, Idle, TypeOK
    <3>4. ASSUME NEW u \in Users, NEW t \in Sessions, StartRevokeSession(r, u, t)
          PROVE  req'[r].pc \notin {"rotate", "store"} /\ \A q \in Requests \ {r} : req'[q] = req[q]
      BY <1>1, <3>4 DEF StartRevokeSession, Idle, TypeOK
    <3> QED
      BY <1>10, <3>1, <3>2, <3>3, <3>4 DEF RequestStart
  <2>3. P' \subseteq P
    BY <2>2 DEF PastLookup
  <2> QED
    BY <1>5, <2>1, <2>3
<1>11. ASSUME NEW r \in Requests, req' = [req EXCEPT ![r] = Idle], parent' = parent
       PROVE  Goal
  <2>1. P' \subseteq P
    BY <1>1, <1>11 DEF PastLookup, Idle, TypeOK
  <2> QED
    BY <1>5, <1>11, <2>1
<1>12. ASSUME UNCHANGED <<req, parent>>
       PROVE  Goal
  BY <1>5, <1>12 DEF PastLookup
<1>13. CASE \E r \in Requests : RequestStep(r) \/ RequestStart(r)
  BY <1>6, <1>7, <1>8, <1>9, <1>10, <1>11, <1>13 DEF RequestStep, WriteRateLimited,
     WriteFailedEvent, WriteBlockedEvent, AnswerTokens, RevokeBySessionId, Abort
<1>14. CASE Environment \/ UNCHANGED vars
  BY <1>12, <1>14 DEF Environment, Logout, SetUserActive, DeleteUser, ChangeOrganization,
     SessionExpires, EventLeavesWindow, vars
<1> QED
  BY <1>13, <1>14 DEF Next

\* A refresh token is exchanged for no more sessions than there are handlers in
\* flight together, and for exactly one when refreshes are not concurrent.
THEOREM RotationBounded == Spec => []RotationFanOut
<1>1. Init => FanOut
  <2>1. ASSUME Init, NEW s \in Sessions
        PROVE  /\ IsFiniteSet(Children(s)) /\ Cardinality(Children(s)) = 0
               /\ Cardinality(PastLookup(s)) = 0
    <3>1. Children(s) = {} /\ PastLookup(s) = {}
      BY <2>1, NullAssumption DEF Init, Children, PastLookup, Idle
    <3> QED
      BY <3>1, FS_EmptySet
  <2>2. Cardinality(Requests) \in Nat
    BY RequestsAssumption, FS_CardinalityType
  <2> QED
    BY <2>1, <2>2 DEF FanOut
<1>2. IInv /\ FanOut /\ [Next]_vars => FanOut'
  BY FanOutStep
<1>3. FanOut => RotationFanOut
  BY DEF FanOut, RotationFanOut
<1> QED
  BY <1>1, <1>2, <1>3, Inductive, PTL DEF Spec

(***************************************************************************)
(* Access.  ensureAuthenticationAllowed is the only way past the first read *)
(* of a login or of a refresh.                                              *)
(***************************************************************************)
LEMMA AllowedIsNotBarred ==
  ASSUME NEW u \in Users
  PROVE  AuthenticationAllowed(u) <=> ~Barred(u)
BY DEF AuthenticationAllowed, OrganizationOpen, Barred

\* A step that starts while the user is barred admits no further handler of that user.
LEMMA BarredStep ==
  ASSUME IInv, [Next]_vars, NEW u \in Users, Barred(u)
  PROVE  Admitted(u)' \subseteq Admitted(u)
<1> USE DEF At, Goto, Finish, sessionVars, eventVars, adminVars
<1>1. TypeOK /\ req \in [Requests -> Handler] /\ ~AuthenticationAllowed(u)
  BY AllowedIsNotBarred DEF IInv, TypeOK
<1>2. SUFFICES ASSUME NEW q \in Requests, q \in Admitted(u)'
               PROVE  q \in Admitted(u)
  BY DEF Admitted
<1>3. req'[q].pc \in {"lookup", "rotate", "store"} /\ req'[q].user = u
  BY <1>2 DEF Admitted
<1>4. CASE req'[q] = req[q]
  BY <1>3, <1>4 DEF Admitted
<1>5. ASSUME NEW r \in Requests, NEW h, req' = [req EXCEPT ![r] = h],
             h.pc \in Pc \ {"lookup", "rotate", "store"}
      PROVE  req'[q] = req[q]
  BY <1>1, <1>3, <1>5
<1>6. ASSUME NEW r \in Requests, FindUserByEmail(r)
      PROVE  q \in Admitted(u)
  <2>1. CASE q # r
    BY <1>1, <1>4, <1>6, <2>1 DEF FindUserByEmail
  <2>2. CASE q = r
    <3>1. req[r] \in Handler
      BY <1>1
    <3>2. CASE req' = [req EXCEPT ![r].pc = "reject"]
      BY <1>1, <1>3, <2>2, <3>1, <3>2 DEF Handler
    <3>3. ASSUME NEW v \in Users,
                 req' = [req EXCEPT ![r].user = v,
                           ![r].pc = IF AuthenticationAllowed(v) THEN "store" ELSE "block"]
          PROVE  FALSE
      <4>1. req'[r].user = v /\ req'[r].pc = IF AuthenticationAllowed(v) THEN "store" ELSE "block"
        BY <1>1, <3>1, <3>3 DEF Handler
      <4>2. v = u
        BY <1>3, <2>2, <4>1
      <4> QED
        BY <1>1, <1>3, <2>2, <4>1, <4>2
    <3> QED
      BY <1>6, <3>2, <3>3 DEF FindUserByEmail, UsersWithEmail
  <2> QED
    BY <2>1, <2>2
<1>7. ASSUME NEW r \in Requests, NEW s \in Sessions, StartRefresh(r, s)
      PROVE  req'[q] = req[q]
  <2>1. CASE q # r
    BY <1>1, <1>7, <2>1 DEF StartRefresh
  <2>2. CASE q = r
    <3>1. /\ req'[r].user = owner[s]
          /\ req'[r].pc = IF AuthenticationAllowed(owner[s]) THEN "lookup" ELSE "block"
      BY <1>1, <1>7 DEF StartRefresh, Idle
    <3>2. owner[s] = u
      BY <1>3, <2>2, <3>1
    <3> QED
      BY <1>1, <1>3, <2>2, <3>1, <3>2
  <2> QED
    BY <2>1, <2>2
<1>8. ASSUME NEW r \in Requests,
             FindActiveRefreshToken(r) \/ RevokeRotated(r) \/ StoreRefreshToken(r)
      PROVE  q \in Admitted(u)
  <2>1. CASE q # r
    BY <1>1, <1>4, <1>8, <2>1 DEF FindActiveRefreshToken, RevokeRotated, StoreRefreshToken
  <2>2. CASE q = r
    <3>1. req[r] \in Handler
      BY <1>1
    <3>2. CASE req' = [req EXCEPT ![r] = Idle]
      BY <1>1, <1>3, <2>2, <3>2 DEF Idle
    <3>3. ASSUME NEW s \in Sessions, req' = [req EXCEPT ![r].pc = "answer", ![r].sid = s]
          PROVE  FALSE
      BY <1>1, <1>3, <2>2, <3>1, <3>3 DEF Handler
    <3>4. ASSUME NEW label \in {"rotate", "store"}, req' = [req EXCEPT ![r].pc = label],
                 req[r].pc \in {"lookup", "rotate"}
          PROVE  q \in Admitted(u)
      BY <1>1, <1>3, <2>2, <3>1, <3>4 DEF Handler, Admitted
    <3> QED
      BY <1>8, <3>2, <3>3, <3>4 DEF FindActiveRefreshToken, RevokeRotated, StoreRefreshToken
  <2> QED
    BY <2>1, <2>2
<1>9. ASSUME NEW r \in Requests, req' = [req EXCEPT ![r] = Idle]
      PROVE  req'[q] = req[q]
  BY <1>5, <1>9 DEF Idle, Pc
<1>10. ASSUME NEW r \in Requests, NEW e \in Spellings, NEW good \in BOOLEAN,
              StartLogin(r, e, good)
       PROVE  req'[q] = req[q]
  <2>1. q # r
    BY <1>1, <1>3, <1>10 DEF StartLogin, Idle
  <2> QED
    BY <1>1, <1>10, <2>1 DEF StartLogin
<1>11. ASSUME NEW r \in Requests, NEW s \in Sessions,
              Me(r, s) \/ \E v \in Users : StartRevokeSession(r, v, s)
       PROVE  req'[q] = req[q]
  <2>1. q # r
    BY <1>1, <1>3, <1>11 DEF Me, StartRevokeSession, Idle
  <2> QED
    BY <1>1, <1>11, <2>1 DEF Me, StartRevokeSession
<1>12. CASE UNCHANGED req
  BY <1>4, <1>12
<1>13. CASE \E r \in Requests : RequestStep(r) \/ RequestStart(r)
  BY <1>4, <1>6, <1>7, <1>8, <1>9, <1>10, <1>11, <1>13 DEF RequestStep, RequestStart,
     WriteRateLimited, WriteFailedEvent, WriteBlockedEvent, AnswerTokens, RevokeBySessionId,
     Abort
<1>14. CASE Environment \/ UNCHANGED vars
  BY <1>12, <1>14 DEF Environment, Logout, SetUserActive, DeleteUser, ChangeOrganization,
     SessionExpires, EventLeavesWindow, vars
<1> QED
  BY <1>13, <1>14 DEF Next

\* A step opens sessions of a user only by storing one for a request it lets go.
LEMMA OpenedByAdmitted ==
  ASSUME IInv, [Next]_vars, NEW u \in Users
  PROVE  \/ Opened(u)' \subseteq Opened(u)
         \/ \E r \in Admitted(u), s \in Sessions :
              Opened(u)' \ Opened(u) \subseteq {s} /\ r \notin Admitted(u)'
<1> USE DEF sessionVars
<1>1. TypeOK
  BY DEF IInv
<1>2. CASE owner' = owner
  BY <1>2 DEF Opened
<1>3. ASSUME NEW r \in Requests, NEW s \in Sessions, At(r, "store"),
             owner' = [owner EXCEPT ![s] = req[r].user],
             req' = [req EXCEPT ![r].pc = "answer", ![r].sid = s]
      PROVE  \/ Opened(u)' \subseteq Opened(u)
             \/ Opened(u)' \ Opened(u) \subseteq {s} /\ r \in Admitted(u) /\ r \notin Admitted(u)'
  <2>1. req[r] \in Handler /\ req'[r].pc = "answer"
    BY <1>1, <1>3 DEF TypeOK, Handler
  <2>2. r \notin Admitted(u)'
    BY <2>1 DEF Admitted
  <2>3. Opened(u)' \ Opened(u) \subseteq {s}
    BY <1>1, <1>3 DEF Opened, TypeOK
  <2>4. CASE req[r].user = u
    BY <1>3, <2>2, <2>3, <2>4 DEF Admitted, At
  <2>5. CASE req[r].user # u
    BY <1>1, <1>3, <2>5 DEF Opened, TypeOK
  <2> QED
    BY <2>4, <2>5
<1>4. ASSUME NEW r \in Requests, StoreRefreshToken(r)
      PROVE  \/ Opened(u)' \subseteq Opened(u)
             \/ \E q \in Admitted(u), s \in Sessions :
                  Opened(u)' \ Opened(u) \subseteq {s} /\ q \notin Admitted(u)'
  BY <1>2, <1>3, <1>4 DEF StoreRefreshToken
<1> QED
  BY <1>2, <1>4 DEF Next, RequestStep, RequestStart, Environment, StartLogin, StartRefresh,
     Me, StartRevokeSession, WriteRateLimited, FindUserByEmail, WriteFailedEvent,
     WriteBlockedEvent, AnswerTokens, FindActiveRefreshToken, RevokeRotated,
     RevokeBySessionId, Abort, Logout, SetUserActive, DeleteUser, ChangeOrganization,
     SessionExpires, EventLeavesWindow, vars

\* While a user is inactive, unscoped, or of an organization that may not be used, the
\* sessions opened for them and the requests still past the check are together no more
\* than the requests that were past it: the bar can be overtaken, never widened.
THEOREM BarHolds == Spec => BarLetsNoMoreIn
<1>1. ASSUME IInv, [Next]_vars, NEW u \in Users, Barred(u)
      PROVE  Cardinality(Opened(u)' \ Opened(u)) + Cardinality(Admitted(u)')
               <= Cardinality(Admitted(u))
  <2> DEFINE New == Opened(u)' \ Opened(u)
             In == Admitted(u)
             Later == Admitted(u)'
  <2>1. IsFiniteSet(In) /\ Cardinality(In) \in Nat
    BY RequestsAssumption, FS_Subset, FS_CardinalityType DEF Admitted
  <2>2. Later \subseteq In
    BY <1>1, BarredStep
  <2>3. CASE New = {}
    BY <2>1, <2>2, <2>3, FS_EmptySet, FS_Subset, FS_CardinalityType
  <2>4. ASSUME NEW r \in In, NEW s \in Sessions, New \subseteq {s}, r \notin Later
        PROVE  Cardinality(New) + Cardinality(Later) <= Cardinality(In)
    <3>1. Cardinality(New) <= 1 /\ Cardinality(New) \in Nat
      <4>1. IsFiniteSet({s}) /\ Cardinality({s}) = 1
        BY FS_Singleton
      <4>2. Cardinality(New) <= Cardinality({s}) /\ IsFiniteSet(New)
        BY <2>4, <4>1, FS_Subset
      <4> QED
        BY <4>1, <4>2, FS_CardinalityType
    <3>2. IsFiniteSet(In \ {r}) /\ Cardinality(In \ {r}) = Cardinality(In) - 1
      BY <2>1, FS_RemoveElement
    <3>3. Later \subseteq In \ {r}
      BY <2>2, <2>4
    <3>4. Cardinality(Later) <= Cardinality(In \ {r}) /\ Cardinality(Later) \in Nat
      BY <3>2, <3>3, FS_Subset, FS_CardinalityType
    <3> QED
      BY <2>1, <3>1, <3>2, <3>4
  <2> QED
    BY <1>1, <2>3, <2>4, OpenedByAdmitted
<1>2. IInv /\ [Next]_vars =>
        [\A u \in Users : Barred(u) =>
           Cardinality(Opened(u)' \ Opened(u)) + Cardinality(Admitted(u)')
             <= Cardinality(Admitted(u))]_vars
  BY <1>1
<1> QED
  BY <1>2, Inductive, PTL DEF Spec, BarLetsNoMoreIn

(***************************************************************************)
(* Refinement.  A store is the ledger's Open or Renew, a revocation or a    *)
(* deletion is its End, every other step is a stutter.                      *)
(***************************************************************************)
LEMMA LedgerStep ==
  ASSUME IInv, [Next]_vars
  PROVE  [Ledger!LedgerNext]_(Ledger!ledgerVars)
<1> USE NullAssumption DEF At, Goto, Finish, sessionVars, eventVars, adminVars
<1>1. TypeOK /\ TypeOK' /\ HandlersLinked /\ RowsLinked
  BY TypeStep DEF IInv
<1> DEFINE grant == [s \in Sessions |-> GrantOf(s)]
<1>2. CASE UNCHANGED <<row, owner, parent>>
  BY <1>2 DEF GrantOf, Ledger!ledgerVars
<1>3. ASSUME NEW r \in Requests, StoreRefreshToken(r)
      PROVE  Ledger!LedgerNext \/ UNCHANGED <<row, owner, parent>>
  <2>1. /\ req[r] \in Handler /\ req[r].user \in Users
        /\ req[r].sid \in Sessions \cup {NoSession}
        /\ req[r].sid # NoSession => row[req[r].sid] \in Ended /\ owner[req[r].sid] = req[r].user
    BY <1>1, <1>3 DEF StoreRefreshToken, TypeOK, Handler, HandlersLinked, Linked
  <2>2. ASSUME NEW s \in Sessions, row[s] = "none", row' = [row EXCEPT ![s] = "live"],
               owner' = [owner EXCEPT ![s] = req[r].user],
               parent' = [parent EXCEPT ![s] = req[r].sid]
        PROVE  Ledger!LedgerNext
    <3>1. grant[s] = "none" /\ grant' = [grant EXCEPT ![s] = "live"]
      BY <1>1, <2>2 DEF GrantOf, TypeOK
    <3>2. CASE req[r].sid = NoSession
      <4>1. parent' = parent
        BY <1>1, <2>2, <3>2 DEF RowsLinked, TypeOK
      <4>2. Ledger!Open(req[r].user, s)
        BY <2>2, <3>1, <4>1 DEF Ledger!Open
      <4> QED
        BY <2>1, <4>2 DEF Ledger!LedgerNext
    <3>3. CASE req[r].sid # NoSession
      <4>1. req[r].sid \in Sessions /\ grant[req[r].sid] = "ended"
        BY <2>1, <3>3 DEF GrantOf, Ended
      <4>2. Ledger!Renew(req[r].sid, s)
        BY <2>1, <2>2, <3>1, <3>3, <4>1 DEF Ledger!Renew
      <4> QED
        BY <4>1, <4>2 DEF Ledger!LedgerNext
    <3> QED
      BY <3>2, <3>3
  <2> QED
    BY <1>3, <2>2 DEF StoreRefreshToken
<1>4. ASSUME NEW S \in SUBSET Sessions,
             \A s \in S : row[s] = "live" /\ row'[s] \in Ended,
             \A s \in Sessions \ S : GrantOf(s)' = GrantOf(s),
             UNCHANGED <<owner, parent>>
      PROVE  Ledger!LedgerNext
  <2>1. Ledger!End(S)
    BY <1>4 DEF Ledger!End, GrantOf, Ended
  <2> QED
    BY <2>1 DEF Ledger!LedgerNext
<1>5. ASSUME NEW r \in Requests, RevokeRotated(r) \/ RevokeBySessionId(r)
      PROVE  Ledger!LedgerNext \/ UNCHANGED <<row, owner, parent>>
  <2>1. req[r].sid \in Sessions /\ row[req[r].sid] # "none" /\ UNCHANGED <<owner, parent>>
    BY <1>1, <1>5 DEF RevokeRotated, RevokeBySessionId, HandlersLinked, Linked
  <2>2. row' = row \/ (row[req[r].sid] # "gone" /\ row' = [row EXCEPT ![req[r].sid] = "revoked"])
    BY <1>5 DEF RevokeRotated, RevokeBySessionId
  <2> DEFINE S == {s \in Sessions : s = req[r].sid /\ row[s] = "live"}
  <2>3. CASE row[req[r].sid] # "gone" /\ row' = [row EXCEPT ![req[r].sid] = "revoked"]
    <3>1. \A s \in S : row[s] = "live" /\ row'[s] \in Ended
      BY <1>1, <2>1, <2>3 DEF TypeOK, Ended
    <3>2. \A s \in Sessions \ S : GrantOf(s)' = GrantOf(s)
      BY <1>1, <2>1, <2>3 DEF TypeOK, GrantOf
    <3> QED
      BY <1>4, <2>1, <3>1, <3>2
  <2> QED
    BY <2>1, <2>2, <2>3
<1>6. ASSUME NEW u \in Users, Logout(u) \/ DeleteUser(u)
      PROVE  Ledger!LedgerNext
  <2> DEFINE S == {s \in Sessions : owner[s] = u /\ row[s] = "live"}
  <2>1. \A s \in S : row[s] = "live" /\ row'[s] \in Ended
    BY <1>1, <1>6 DEF Logout, DeleteUser, TypeOK, Ended
  <2>2. \A s \in Sessions \ S : GrantOf(s)' = GrantOf(s)
    BY <1>1, <1>6 DEF Logout, DeleteUser, TypeOK, GrantOf
  <2>3. UNCHANGED <<owner, parent>>
    BY <1>6 DEF Logout, DeleteUser
  <2> QED
    BY <1>4, <2>1, <2>2, <2>3
<1>7. Ledger!LedgerNext \/ UNCHANGED <<row, owner, parent>>
  BY <1>3, <1>5, <1>6 DEF Next, RequestStep, RequestStart, Environment, StartLogin,
     StartRefresh, Me, StartRevokeSession, WriteRateLimited, FindUserByEmail,
     WriteFailedEvent, WriteBlockedEvent, AnswerTokens, FindActiveRefreshToken, Abort,
     SetUserActive, ChangeOrganization, SessionExpires, EventLeavesWindow, vars
<1> QED
  BY <1>2, <1>7

\* The handlers implement the ledger.
THEOREM Refinement == Spec => ImplementsLedger
<1>1. Init => Ledger!LedgerInit
  BY DEF Init, Ledger!LedgerInit, GrantOf
<1>2. IInv /\ [Next]_vars => [Ledger!LedgerNext]_(Ledger!ledgerVars)
  BY LedgerStep
<1> QED
  BY <1>1, <1>2, Inductive, PTL DEF Spec, ImplementsLedger, Ledger!LedgerSpec

=============================================================================
