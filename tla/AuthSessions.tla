---------------------------- MODULE AuthSessions ----------------------------
(***************************************************************************)
(* Staff authentication: AuthService (login, refresh, me, logout, session  *)
(* revocation) over the RefreshToken and UserLoginEvent tables, with the   *)
(* administration of users and of the organization running beside it.      *)
(*                                                                         *)
(* Every HTTP request is a handler r that runs its awaits one at a time,   *)
(* so the steps of two handlers interleave between any two database calls, *)
(* on one server process or on several.  A handler may die between two     *)
(* steps (Abort).  The database runs each statement atomically.            *)
(*                                                                         *)
(* A definition whose name is not used below is a faulty variant of the    *)
(* one that follows it, for the mutation runs.                             *)
(***************************************************************************)
EXTENDS Naturals, FiniteSets

CONSTANTS
  Users,            \* rows of the users table
  SuperAdmins,      \* users whose roles include SUPER_ADMIN
  Members,          \* users with an organizationId
  Spellings,        \* e-mail addresses as typed or stored, letter case included
  Canonical,        \* Spellings -> Spellings: email.trim().toLowerCase()
  StoredEmail,      \* Users -> Spellings: users.email, unique, case preserved
  Requests,         \* handlers that may run at the same time
  Sessions,         \* pool of randomUUID() values for refresh-token rows
  OrgStates,        \* configurations administration may give the organization
  MaxFailedLogins,  \* MAX_FAILED_LOGIN_ATTEMPTS
  BlockedBound,     \* bound of the model: BLOCKED events kept per address
  NoUser, NoSession, NoEmail

SubscriptionStatus == {"TRIAL", "ACTIVE", "PAST_DUE", "SUSPENDED", "CANCELLED"}

OrgRecord == [isActive : BOOLEAN, subscription : SubscriptionStatus, trialOver : BOOLEAN]

ASSUME RequestsAssumption == IsFiniteSet(Requests)

ASSUME LimitAssumption == MaxFailedLogins \in Nat \ {0} /\ BlockedBound \in Nat

ASSUME EmailAssumption ==
  /\ Canonical \in [Spellings -> Spellings]
  /\ \A e \in Spellings : Canonical[Canonical[e]] = Canonical[e]
  /\ StoredEmail \in [Users -> Spellings]
  /\ \A u, v \in Users : StoredEmail[u] = StoredEmail[v] => u = v

ASSUME NullAssumption ==
  /\ NoUser \notin Users
  /\ NoSession \notin Sessions
  /\ NoEmail \notin Spellings

ASSUME OrgAssumption == OrgStates \subseteq OrgRecord

VARIABLES
  user,      \* users row: active, inactive, or deleted
  org,       \* the organization row of the Members, and the clock against trialEndsAt
  row,       \* RefreshToken row of a session id: none, live, revoked (revokedAt set), gone
  owner,     \* userId of that row
  parent,    \* the session whose rotation minted this one (history)
  expired,   \* sessions whose expiresAt has passed
  held,      \* sessions whose refresh token reached a client
  failed,    \* FAILED login events inside the window, per event address
  blocked,   \* BLOCKED login events inside the window, per event address
  req        \* the handlers: program counter and locals

sessionVars == <<row, owner, parent, expired, held>>
eventVars   == <<failed, blocked>>
adminVars   == <<user, org>>
vars        == <<user, org, row, owner, parent, expired, held, failed, blocked, req>>

(***************************************************************************)
(* Handlers.  pc names the next database call:                             *)
(*   find      read the user, compare the password, check access           *)
(*   reject    write the FAILED event                                      *)
(*   block     write the BLOCKED event                                     *)
(*   limited   write the BLOCKED event of the rate limiter                 *)
(*   lookup    findActiveRefreshTokenById                                  *)
(*   rotate    revokeRefreshToken(..., 'refresh-rotated')                  *)
(*   store     storeRefreshToken                                           *)
(*   answer    write SUCCESS or REFRESH and return the tokens              *)
(*   strike    revokeRefreshToken(..., 'user-revoked')                     *)
(***************************************************************************)
Pc == {"idle", "find", "reject", "block", "limited", "lookup", "rotate", "store",
       "answer", "strike"}

Handler == [pc : Pc, user : Users \cup {NoUser}, email : Spellings \cup {NoEmail},
            sid : Sessions \cup {NoSession}, good : BOOLEAN]

Idle == [pc |-> "idle", user |-> NoUser, email |-> NoEmail, sid |-> NoSession,
         good |-> FALSE]

At(r, label) == req[r].pc = label

Goto(r, label) == req' = [req EXCEPT ![r].pc = label]

Finish(r) == req' = [req EXCEPT ![r] = Idle]

TypeOK ==
  /\ user \in [Users -> {"active", "inactive", "deleted"}]
  /\ org \in OrgRecord
  /\ row \in [Sessions -> {"none", "live", "revoked", "gone"}]
  /\ owner \in [Sessions -> Users \cup {NoUser}]
  /\ parent \in [Sessions -> Sessions \cup {NoSession}]
  /\ expired \subseteq Sessions
  /\ held \subseteq Sessions
  /\ failed \in [Spellings -> Nat]
  /\ blocked \in [Spellings -> Nat]
  /\ req \in [Requests -> Handler]

Init ==
  /\ user = [u \in Users |-> "active"]
  /\ org \in OrgStates
  /\ row = [s \in Sessions |-> "none"]
  /\ owner = [s \in Sessions |-> NoUser]
  /\ parent = [s \in Sessions |-> NoSession]
  /\ expired = {}
  /\ held = {}
  /\ failed = [e \in Spellings |-> 0]
  /\ blocked = [e \in Spellings |-> 0]
  /\ req = [r \in Requests |-> Idle]

-----------------------------------------------------------------------------
(* ensureAuthenticationAllowed: the row is active, it has an organization   *)
(* unless it is a SUPER_ADMIN, and that organization may be used.           *)
OrganizationOpen ==
  /\ org.isActive
  /\ org.subscription \notin {"PAST_DUE", "SUSPENDED", "CANCELLED"}
  /\ ~(org.subscription = "TRIAL" /\ org.trialOver)

AuthenticationAllowedByOrganization(u) ==
  /\ u \in SuperAdmins \cup Members
  /\ u \in Members => OrganizationOpen

AuthenticationAllowed(u) ==
  /\ user[u] = "active"
  /\ u \in SuperAdmins \cup Members
  /\ u \in Members => OrganizationOpen

RecentFailedLogins(e) == failed[e] + blocked[e]

\* The limiter counts under the normalised address.
LimiterKeyAsTyped(e) == e

LimiterKey(e) == Canonical[e]

UsersWithEmail(e) == {u \in Users : user[u] # "deleted" /\ StoredEmail[u] = e}

-----------------------------------------------------------------------------
(* login *)

\* extractRequestMetadata and assertLoginNotRateLimited up to its count: the
\* address is normalised for the limiter only.
StartLogin(r, e, good) ==
  LET key == LimiterKey(e) IN
  /\ At(r, "idle")
  /\ \A k \in {e, key} : blocked[k] < BlockedBound
  /\ req' = [req EXCEPT ![r] =
       [Idle EXCEPT !.email = e, !.good = good,
         !.pc = IF RecentFailedLogins(key) < MaxFailedLogins THEN "find" ELSE "limited"]]
  /\ UNCHANGED <<sessionVars, eventVars, adminVars>>

\* The refused attempt is itself recorded as BLOCKED, under the normalised address.
WriteRateLimited(r) ==
  /\ At(r, "limited")
  /\ blocked' = [blocked EXCEPT ![Canonical[req[r].email]] = @ + 1]
  /\ Finish(r)
  /\ UNCHANGED <<sessionVars, failed, adminVars>>

\* findByEmailWithAuthorization with the address as typed, then the password
\* comparison, then ensureAuthenticationAllowed, all on the row just read.
FindUserByEmail(r) ==
  LET found == UsersWithEmail(req[r].email) IN
  /\ At(r, "find")
  /\ \/ /\ found = {} \/ ~req[r].good
        /\ Goto(r, "reject")
     \/ \E u \in found :
          /\ req[r].good
          /\ req' = [req EXCEPT ![r].user = u,
               ![r].pc = IF AuthenticationAllowed(u) THEN "store" ELSE "block"]
  /\ UNCHANGED <<sessionVars, eventVars, adminVars>>

WriteFailedEvent(r) ==
  /\ At(r, "reject")
  /\ failed' = [failed EXCEPT ![Canonical[req[r].email]] = @ + 1]
  /\ Finish(r)
  /\ UNCHANGED <<sessionVars, blocked, adminVars>>

\* BLOCKED under the address as stored.  The event references the user, so the
\* insert fails when the user has been deleted since it was read.
WriteBlockedEvent(r) ==
  LET u == req[r].user IN
  /\ At(r, "block")
  /\ IF user[u] = "deleted"
     THEN UNCHANGED blocked
     ELSE blocked' = [blocked EXCEPT ![StoredEmail[u]] = @ + 1]
  /\ Finish(r)
  /\ UNCHANGED <<sessionVars, failed, adminVars>>

StoreRefreshTokenInPlace(r) ==
  LET u == req[r].user IN
  /\ At(r, "store")
  /\ \E s \in Sessions :
       /\ row[s] = "none" \/ s = req[r].sid
       /\ row' = [row EXCEPT ![s] = "live"]
       /\ owner' = [owner EXCEPT ![s] = u]
       /\ req' = [req EXCEPT ![r].pc = "answer", ![r].sid = s]
  /\ UNCHANGED <<parent, expired, held, eventVars, adminVars>>

\* generateTokenPair draws the session id, storeRefreshToken inserts its row; the
\* insert fails when the user has been deleted.  sid becomes the new session.
StoreRefreshToken(r) ==
  LET u == req[r].user IN
  /\ At(r, "store")
  /\ \/ /\ user[u] = "deleted"
        /\ Finish(r)
        /\ UNCHANGED sessionVars
     \/ /\ user[u] # "deleted"
        /\ \E s \in Sessions :
             /\ row[s] = "none"
             /\ row' = [row EXCEPT ![s] = "live"]
             /\ owner' = [owner EXCEPT ![s] = u]
             /\ parent' = [parent EXCEPT ![s] = req[r].sid]
             /\ req' = [req EXCEPT ![r].pc = "answer", ![r].sid = s]
        /\ UNCHANGED <<expired, held>>
  /\ UNCHANGED <<eventVars, adminVars>>

\* The SUCCESS or REFRESH event and the audit entry, which nothing here reads,
\* then the token pair goes to the client; the event insert fails for a deleted user.
AnswerTokens(r) ==
  /\ At(r, "answer")
  /\ held' = IF user[req[r].user] = "deleted" THEN held ELSE held \cup {req[r].sid}
  /\ Finish(r)
  /\ UNCHANGED <<row, owner, parent, expired, eventVars, adminVars>>

-----------------------------------------------------------------------------
(* refreshTokens, me *)

\* verifyAsync of a token some client holds, findByIdWithAuthorization and
\* ensureAuthenticationAllowed on the row just read.
StartRefresh(r, s) ==
  LET u == owner[s] IN
  /\ At(r, "idle")
  /\ s \in held
  /\ s \notin expired
  /\ user[u] # "deleted"
  /\ blocked[StoredEmail[u]] < BlockedBound
  /\ req' = [req EXCEPT ![r] =
       [Idle EXCEPT !.user = u, !.sid = s,
         !.pc = IF AuthenticationAllowed(u) THEN "lookup" ELSE "block"]]
  /\ UNCHANGED <<sessionVars, eventVars, adminVars>>

FindRefreshTokenEvenRevoked(r) ==
  LET s == req[r].sid IN
  /\ At(r, "lookup")
  /\ IF row[s] # "gone" /\ s \notin expired THEN Goto(r, "rotate") ELSE Finish(r)
  /\ UNCHANGED <<sessionVars, eventVars, adminVars>>

\* The bcrypt comparison that follows the lookup cannot fail: it reads the first
\* 72 bytes of the token, which the tokens of one user share.
FindActiveRefreshToken(r) ==
  LET s == req[r].sid IN
  /\ At(r, "lookup")
  /\ IF row[s] = "live" /\ s \notin expired THEN Goto(r, "rotate") ELSE Finish(r)
  /\ UNCHANGED <<sessionVars, eventVars, adminVars>>

\* update by id: no condition on revokedAt; it throws when the row is gone.
RevokeRotated(r) ==
  LET s == req[r].sid IN
  /\ At(r, "rotate")
  /\ IF row[s] = "gone"
     THEN Finish(r) /\ UNCHANGED row
     ELSE Goto(r, "store") /\ row' = [row EXCEPT ![s] = "revoked"]
  /\ UNCHANGED <<owner, parent, expired, held, eventVars, adminVars>>

\* me: a holder of an access token asks for its profile; only a refusal writes.
Me(r, s) ==
  LET u == owner[s] IN
  /\ At(r, "idle")
  /\ s \in held
  /\ user[u] # "deleted"
  /\ ~AuthenticationAllowed(u)
  /\ blocked[StoredEmail[u]] < BlockedBound
  /\ req' = [req EXCEPT ![r] = [Idle EXCEPT !.user = u, !.pc = "block"]]
  /\ UNCHANGED <<sessionVars, eventVars, adminVars>>

-----------------------------------------------------------------------------
(* logout, revokeSession *)

\* One updateMany over the user's rows with revokedAt null.
Logout(u) ==
  /\ \E s \in held : owner[s] = u
  /\ row' = [s \in Sessions |->
               IF owner[s] = u /\ row[s] = "live" THEN "revoked" ELSE row[s]]
  /\ UNCHANGED <<owner, parent, expired, held, eventVars, adminVars, req>>

\* revokeSession reads the user and its sessions and looks for one not revoked ...
StartRevokeSession(r, u, s) ==
  /\ At(r, "idle")
  /\ \E h \in held : owner[h] = u
  /\ user[u] # "deleted"
  /\ owner[s] = u
  /\ row[s] = "live"
  /\ req' = [req EXCEPT ![r] = [Idle EXCEPT !.user = u, !.sid = s, !.pc = "strike"]]
  /\ UNCHANGED <<sessionVars, eventVars, adminVars>>

\* ... and updates it by id, whatever happened to it since.
RevokeBySessionId(r) ==
  LET s == req[r].sid IN
  /\ At(r, "strike")
  /\ row' = IF row[s] = "gone" THEN row ELSE [row EXCEPT ![s] = "revoked"]
  /\ Finish(r)
  /\ UNCHANGED <<owner, parent, expired, held, eventVars, adminVars>>

-----------------------------------------------------------------------------
(* Administration, time, failures *)

\* UsersService.update and bulkUpdateStatus: no session is revoked.
SetUserActive(u) ==
  /\ user[u] # "deleted"
  /\ \E status \in {"active", "inactive"} \ {user[u]} :
       user' = [user EXCEPT ![u] = status]
  /\ UNCHANGED <<sessionVars, eventVars, org, req>>

\* UsersService.delete and bulkDelete: the rows of its refresh tokens cascade.
DeleteUser(u) ==
  /\ user[u] # "deleted"
  /\ user' = [user EXCEPT ![u] = "deleted"]
  /\ row' = [s \in Sessions |->
               IF owner[s] = u /\ row[s] # "none" THEN "gone" ELSE row[s]]
  /\ UNCHANGED <<owner, parent, expired, held, eventVars, org, req>>

\* A super administrator, the trial sync or the clock changes the organization.
ChangeOrganization ==
  /\ org' \in OrgStates \ {org}
  /\ UNCHANGED <<sessionVars, eventVars, user, req>>

SessionExpires(s) ==
  /\ row[s] # "none"
  /\ s \notin expired
  /\ expired' = expired \cup {s}
  /\ UNCHANGED <<row, owner, parent, held, eventVars, adminVars, req>>

OnlyFailedLeavesWindow(e) ==
  /\ failed[e] > 0
  /\ failed' = [failed EXCEPT ![e] = @ - 1]
  /\ UNCHANGED <<blocked, sessionVars, adminVars, req>>

\* The oldest event of an address leaves the fifteen-minute window.
EventLeavesWindow(e) ==
  /\ \/ /\ failed[e] > 0
        /\ failed' = [failed EXCEPT ![e] = @ - 1]
        /\ UNCHANGED blocked
     \/ /\ blocked[e] > 0
        /\ blocked' = [blocked EXCEPT ![e] = @ - 1]
        /\ UNCHANGED failed
  /\ UNCHANGED <<sessionVars, adminVars, req>>

\* The process stops or a database call fails: what was written stays.
Abort(r) ==
  /\ ~At(r, "idle")
  /\ Finish(r)
  /\ UNCHANGED <<sessionVars, eventVars, adminVars>>

-----------------------------------------------------------------------------
RequestStep(r) ==
  \/ WriteRateLimited(r)
  \/ FindUserByEmail(r)
  \/ WriteFailedEvent(r)
  \/ WriteBlockedEvent(r)
  \/ StoreRefreshToken(r)
  \/ AnswerTokens(r)
  \/ FindActiveRefreshToken(r)
  \/ RevokeRotated(r)
  \/ RevokeBySessionId(r)
  \/ Abort(r)

RequestStart(r) ==
  \/ \E e \in Spellings, good \in BOOLEAN : StartLogin(r, e, good)
  \/ \E s \in Sessions : StartRefresh(r, s) \/ Me(r, s)
  \/ \E u \in Users, s \in Sessions : StartRevokeSession(r, u, s)

Environment ==
  \/ \E u \in Users : Logout(u) \/ SetUserActive(u) \/ DeleteUser(u)
  \/ ChangeOrganization
  \/ \E s \in Sessions : SessionExpires(s)
  \/ \E e \in Spellings : EventLeavesWindow(e)

Next ==
  \/ \E r \in Requests : RequestStep(r) \/ RequestStart(r)
  \/ Environment

Spec == Init /\ [][Next]_vars

(* The clock moves on, so every event leaves the window in the end.         *)
Fairness == \A e \in Spellings : WF_vars(EventLeavesWindow(e))

FairSpec == Spec /\ Fairness

-----------------------------------------------------------------------------
(* What the table promises: SessionLedger, with revoked and cascaded rows both *)
(* ended.  Expiry is not part of the promise.                                  *)
GrantOf(s) ==
  IF row[s] \in {"revoked", "gone"} THEN "ended" ELSE row[s]

Ledger == INSTANCE SessionLedger WITH
  grant <- [s \in Sessions |-> GrantOf(s)], holder <- owner, source <- parent

\* Login, refresh, logout, revocation and deletion, in any interleaving of their
\* database calls, are the ledger's Open, Renew and End: a session is renewed
\* only after its end, for the same user, and its row is never written twice.
ImplementsLedger == Ledger!LedgerSpec

-----------------------------------------------------------------------------
(* Properties *)

PastLookup(s) == {r \in Requests : req[r].pc \in {"rotate", "store"} /\ req[r].sid = s}

Children(s) == {c \in Sessions : parent[c] = s}

Guessing(e) ==
  {r \in Requests : req[r].pc \in {"find", "reject"} /\ Canonical[req[r].email] = e}

\* A session minted by refreshTokens exists only after the session it replaces
\* was ended, also when the handler died or another revocation came between.
RotatedParentIsDead ==
  \A s \in Sessions : parent[s] # NoSession => row[parent[s]] \in {"revoked", "gone"}

\* A refresh token is exchanged for at most as many successors as there were
\* refresh calls in flight together: with one call at a time, exactly one.
RotationFanOut ==
  \A s \in Sessions :
    Cardinality(Children(s)) + Cardinality(PastLookup(s)) <= Cardinality(Requests)

\* The limiter reads its count before the attempt is recorded, so concurrent
\* attempts pass it together; it never lets through more wrong passwords inside a
\* window than the limit and the handlers that can run at once allow.
GuessBudget ==
  \A e \in Spellings : failed[e] < MaxFailedLogins + Cardinality(Requests)

\* ensureAuthenticationAllowed reads the user and the organization some awaits before
\* storeRefreshToken inserts the session, so a user barred in between still gets one.
\* While a user is inactive, without an organization, or of one that is inactive, unpaid
\* or past its trial, each session opened for them uses up a request let in before: in
\* the time a bar stands, no more sessions open than requests were past the check.
Barred(u) ==
  \/ user[u] # "active"
  \/ u \notin SuperAdmins /\ u \notin Members
  \/ u \in Members /\ \/ ~org.isActive
                      \/ org.subscription \in {"PAST_DUE", "SUSPENDED", "CANCELLED"}
                      \/ org.subscription = "TRIAL" /\ org.trialOver

Admitted(u) ==
  {r \in Requests : req[r].pc \in {"lookup", "rotate", "store"} /\ req[r].user = u}

Opened(u) == {s \in Sessions : owner[s] = u}

BarLetsNoMoreIn ==
  [][\A u \in Users : Barred(u) =>
       Cardinality(Opened(u)' \ Opened(u)) + Cardinality(Admitted(u)')
         <= Cardinality(Admitted(u))]_vars

\* Once nobody tries an address any more, its lockout ends.
Attempted(e) ==
  \E r \in Requests :
    \/ req[r].email # NoEmail /\ Canonical[req[r].email] = e
    \/ req[r].user # NoUser /\ StoredEmail[req[r].user] = e

LockoutEnds ==
  \A e \in Spellings :
    <>[](~Attempted(e)) => <>[](RecentFailedLogins(e) < MaxFailedLogins)

=============================================================================
