---------------------------- MODULE PortalAccess ----------------------------
(* Students, the portal accounts of a student and of the parents, and the   *)
(* one session each account may have: students.service.ts, its repository,  *)
(* and portal-auth.service.ts.  One organization.  A request to the office  *)
(* or to the portal takes one step per call to the database; its second     *)
(* step uses what its first one read.  LoseParent and RefreshUnshown, faulty*)
(* variants of UpdateAccount and CheckRefresh, are used by no definition.   *)
EXTENDS Naturals, FiniteSets, TLC

CONSTANTS
  Students,   \* rows the office may enter (each with a phone number of its own)
  Emails,     \* e-mail addresses of students
  Guardians,  \* e-mail addresses of guardians: siblings share one
  NoEmail,    \* the column is empty
  LowerCase,  \* an address as the accounts keep it: students and guardians keep it as it was typed
  Callers,    \* requests in progress
  Types,      \* the types of account looked at
  MaxRequests,  \* bound: requests begun
  MaxTokens     \* bound: sessions created

ASSUME PortalAssumption ==
  /\ NoEmail \notin Emails \cup Guardians /\ Types \subseteq {"STUDENT", "PARENT"}
  /\ LowerCase \in [Emails \cup Guardians \cup {NoEmail} -> Emails \cup Guardians \cup {NoEmail}]
  /\ MaxRequests \in Nat /\ MaxTokens \in Nat

VARIABLES student, account, portalOpen, call, tokens, begun, drift
portalVars == <<student, account, portalOpen, call, tokens, begun, drift>>

\* student    the students; status "none" before there is a row, "gone" after it is deleted
\* account    the portal accounts; token 0 is no refresh hash
\* portalOpen the organization is active, its subscription runs, its portal module is on
\* call        the request each caller serves
\* tokens     number of refresh tokens issued so far
\* drift      (history) the accounts a refused or crossed request left behind their student

Addresses == Emails \cup Guardians \cup {NoEmail}
Accounts == Students \X {"STUDENT", "PARENT"}
NoStudent == [email |-> NoEmail, guardian |-> NoEmail, status |-> "none"]
NoAccount == [exists |-> FALSE, email |-> NoEmail, active |-> FALSE, token |-> 0]

\* pc: the next call; crossed (history): what the request read has changed since.
Unused == [pc |-> "idle", on |-> {}, type |-> "STUDENT", email |-> NoEmail,
         guardian |-> NoEmail, rows |-> <<>>, wants |-> {}, enabled |-> FALSE,
         exists |-> FALSE, active |-> FALSE, token |-> 0, crossed |-> FALSE]

\* A deleted student's row never comes back.
Enrolled(s) == student[s].status \notin {"none", "gone"}

\* The address an account of each type takes from its student.
AddressOf(row, type) == IF type = "STUDENT" THEN row.email ELSE row.guardian

\* [organizationId, email] of Student, as typed; [organizationId, email, type] of PortalAccount,
\* in lower case.
EmailFree(S, e) == e = NoEmail \/ \A s \in Students : s \notin S => student[s].email # e
AccountEmailFree(a, e) ==
  \A b \in Accounts \ {a} : b[2] = a[2] /\ account[b].exists => account[b].email # e

\* R with the requests C selects marked as crossed.
Cross(R, C(_)) ==
  [r \in Callers |-> IF R[r].pc # "idle" /\ C(r) THEN [R[r] EXCEPT !.crossed = TRUE] ELSE R[r]]

\* A request on students S, of the one who reads or wrote their rows.
About(r, S) == call[r].on \cap S # {}
\* A request in the portal: it read the account and stores a session.
AtDoor(r, a) == call[r].pc \in {"login", "refresh"} /\ a[1] \in call[r].on /\ call[r].type = a[2]

Row(e, g) == [email |-> e, guardian |-> g, status |-> "ACTIVE"]

\* An empty organization, or one with a student who has both accounts.
PortalInit ==
  /\ \/ student = [s \in Students |-> NoStudent] /\ account = [a \in Accounts |-> NoAccount]
     \/ \E s \in Students, e \in Emails, g \in Guardians :
          /\ student = [[u \in Students |-> NoStudent] EXCEPT ![s] = Row(e, g)]
          /\ account = [a \in Accounts |->
                         IF a[1] = s THEN [exists |-> TRUE, active |-> TRUE, token |-> 0,
                                           email |-> LowerCase[AddressOf(Row(e, g), a[2])]]
                         ELSE NoAccount]
  /\ portalOpen = TRUE /\ call = [r \in Callers |-> Unused]
  /\ tokens = 0 /\ begun = 0 /\ drift = {}

Begin(r) == call[r].pc = "idle" /\ begun < MaxRequests /\ begun' = begun + 1

-----------------------------------------------------------------------------
(* The office: students                                                     *)

\* POST /students: refused when the e-mail is taken.
CreateStudent(r, s, e, g) ==
  /\ Begin(r) /\ student[s].status = "none" /\ EmailFree({s}, e)
  /\ student' = [student EXCEPT ![s] = Row(e, g)]
  /\ UNCHANGED <<account, portalOpen, call, tokens, drift>>

\* findExistingIdentifiers: the query compares addresses as typed and answers in lower case.
Existing(E) == {LowerCase[student[u].email] : u \in {v \in Students : student[v].email \in E}}

\* importCsv up to findExistingIdentifiers: the rows no student has the phone of, nor, among the
\* addresses it answered, the e-mail; two spellings of one address in the file are duplicates.
ImportLook(r, S, f) ==
  LET existing == Existing({f[s] : s \in S} \ {NoEmail})
      fresh == {s \in S : ~Enrolled(s) /\ f[s] \notin existing} IN
  /\ Begin(r) /\ fresh # {} /\ \A s \in S : student[s].status # "gone"
  /\ \A s, t \in S : s # t => LowerCase[f[s]] # LowerCase[f[t]] \/ f[s] = NoEmail
  /\ call' = [call EXCEPT ![r] = [Unused EXCEPT !.pc = "import", !.on = fresh,
                                             !.rows = [s \in fresh |-> f[s]]]]
  /\ UNCHANGED <<student, account, portalOpen, tokens, drift>>

\* createMany: one transaction, all rows or none.
ImportWrite(r) ==
  /\ call[r].pc = "import"
  /\ student' = IF \A s \in call[r].on : ~Enrolled(s) /\ EmailFree({}, call[r].rows[s])
                  THEN [s \in Students |-> IF s \in call[r].on THEN Row(call[r].rows[s], NoEmail)
                                           ELSE student[s]]
                  ELSE student
  /\ call' = [call EXCEPT ![r] = Unused]
  /\ UNCHANGED <<account, portalOpen, tokens, begun, drift>>

\* PATCH /students/:id, the row: of the addresses the ones the payload names are written, null
\* empties the column, and the accounts follow in calls of their own.  A payload without a status
\* carries the DTO's default, ACTIVE.
UpdateStudent(r, s, e, g, named, status) ==
  /\ Begin(r) /\ Enrolled(s) /\ EmailFree({s}, e)
  /\ "STUDENT" \in named \/ e = NoEmail
  /\ "PARENT" \in named \/ g = NoEmail
  /\ student' = [student EXCEPT ![s] =
                  [email    |-> IF "STUDENT" \in named THEN e ELSE student[s].email,
                   guardian |-> IF "PARENT" \in named THEN g ELSE student[s].guardian,
                   status   |-> status]]
  /\ call' = [Cross(call, LAMBDA q : /\ About(q, {s}) /\ call[q].pc # "import"
                                     /\ call[q].pc \in {"login", "refresh"} => status # "ACTIVE")
               EXCEPT ![r] = [Unused EXCEPT !.pc = "updateStudent", !.on = {s}, !.email = e,
                                          !.guardian = g]]
  /\ UNCHANGED <<account, portalOpen, tokens, drift>>

\* After an account's address is written, or refused, by request r.
Drifted(a, r, refused) ==
  IF refused \/ call[r].crossed THEN drift \cup {a} ELSE drift \ {a}

\* Faulty variant of UpdateAccount: only the student's account follows.
LoseParent(r) ==
  /\ call[r].pc = "updateStudent"
  /\ \E s \in call[r].on :
       LET a       == <<s, "STUDENT">>
           touches == call[r].email # NoEmail /\ account[a].exists
           refused == touches /\ ~AccountEmailFree(a, LowerCase[call[r].email])
       IN  /\ account' = IF touches /\ ~refused
                           THEN [account EXCEPT ![a].email = LowerCase[call[r].email]] ELSE account
           /\ drift' = IF touches THEN Drifted(a, r, refused) ELSE drift
  /\ call' = [call EXCEPT ![r] = Unused]
  /\ UNCHANGED <<student, portalOpen, tokens, begun>>

\* portalAccount.updateMany, the student's account and then the parents': it does nothing
\* where the payload has no address, or null, or there is no account, and a taken address ends
\* the request with the row written and the accounts not.
UpdateAccount(r) ==
  /\ call[r].pc \in {"updateStudent", "updateParent"}
  /\ \E s \in call[r].on :
       LET first   == call[r].pc = "updateStudent"
           type    == IF first THEN "STUDENT" ELSE "PARENT"
           a       == <<s, type>>
           e       == AddressOf(call[r], type)
           touches == e # NoEmail /\ account[a].exists
           refused == touches /\ ~AccountEmailFree(a, LowerCase[e])
       IN  /\ account' = IF touches /\ ~refused THEN [account EXCEPT ![a].email = LowerCase[e]]
                         ELSE account
           /\ drift' = IF refused /\ first /\ call[r].guardian # NoEmail
                         THEN drift \cup {a, <<s, "PARENT">>}
                       ELSE IF touches THEN Drifted(a, r, refused) ELSE drift
           /\ call' = [call EXCEPT ![r] = IF refused \/ ~first THEN Unused
                                        ELSE [@ EXCEPT !.pc = "updateParent"]]
  /\ UNCHANGED <<student, portalOpen, tokens, begun>>

\* DELETE /students/:id and its bulk form: the accounts go with the students.
DeleteStudents(r, S) ==
  /\ Begin(r) /\ S # {} /\ \A s \in S : Enrolled(s)
  /\ student' = [s \in Students |-> IF s \in S THEN [NoStudent EXCEPT !.status = "gone"]
                                    ELSE student[s]]
  /\ account' = [a \in Accounts |-> IF a[1] \in S THEN NoAccount ELSE account[a]]
  /\ drift' = {a \in drift : a[1] \notin S}
  /\ call' = Cross(call, LAMBDA q : About(q, S))
  /\ UNCHANGED <<portalOpen, tokens>>

\* PATCH /students/bulk-status.
BulkUpdateStatus(r, S, status) ==
  /\ Begin(r) /\ S # {} /\ \A s \in S : Enrolled(s)
  /\ student' = [s \in Students |-> IF s \in S THEN [student[s] EXCEPT !.status = status]
                                    ELSE student[s]]
  /\ call' = IF status = "ACTIVE" THEN call
            ELSE Cross(call, LAMBDA q : About(q, S) /\ call[q].pc \in {"login", "refresh"})
  /\ UNCHANGED <<account, portalOpen, tokens, drift>>

-----------------------------------------------------------------------------
(* The office: portal accounts (upsertPortalAccess)                         *)

\* findOne: the addresses are those of this moment.
AccessLook(r, s, wants, enabled) ==
  /\ Begin(r) /\ Enrolled(s)
  /\ call' = [call EXCEPT ![r] = [Unused EXCEPT !.pc = "findStudent", !.on = {s}, !.wants = wants,
               !.enabled = enabled, !.email = student[s].email, !.guardian = student[s].guardian]]
  /\ UNCHANGED <<student, account, portalOpen, tokens, drift>>

\* upsertPortalAccount, the look for an account: there is nothing to do where none exists
\* and none is wanted, and without an address the request ends here.
AccessFind(r) ==
  /\ call[r].pc \in {"findStudent", "findParent"}
  /\ \E s \in call[r].on :
       LET first  == call[r].pc = "findStudent"
           type   == IF first THEN "STUDENT" ELSE "PARENT"
           exists == account[<<s, type>>].exists
       IN  call' = [call EXCEPT ![r] =
             CASE ~exists /\ type \notin call[r].wants ->
                    IF first THEN [@ EXCEPT !.pc = "findParent"] ELSE Unused
               [] (exists \/ type \in call[r].wants) /\ AddressOf(call[r], type) = NoEmail -> Unused
               [] OTHER -> [@ EXCEPT !.pc = IF first THEN "writeStudent" ELSE "writeParent",
                                     !.exists = exists, !.active = account[<<s, type>>].active]]
  /\ UNCHANGED <<student, account, portalOpen, tokens, begun, drift>>

\* It creates the account or updates the one it found; a taken address, an account made or
\* a student deleted in between refuses it, and the parents' account is then never reached.
AccessWrite(r) ==
  /\ call[r].pc \in {"writeStudent", "writeParent"}
  /\ \E s \in call[r].on :
       LET type    == IF call[r].pc = "writeStudent" THEN "STUDENT" ELSE "PARENT"
           a       == <<s, type>>
           e       == LowerCase[AddressOf(call[r], type)]
           on      == IF type \in call[r].wants THEN call[r].enabled ELSE call[r].active
           refused == \/ ~Enrolled(s) \/ call[r].exists # account[a].exists
                      \/ ~AccountEmailFree(a, e)
       IN  /\ account' = IF refused THEN account
                         ELSE [account EXCEPT ![a] = [exists |-> TRUE, email |-> e,
                                 active |-> on, token |-> account[a].token]]
           /\ drift' = IF refused THEN drift ELSE Drifted(a, r, FALSE)
           /\ call' = [IF on \/ refused THEN call
                      ELSE Cross(call, LAMBDA q : AtDoor(q, a))
                        EXCEPT ![r] = IF refused \/ type = "PARENT" THEN Unused
                                      ELSE [@ EXCEPT !.pc = "findParent", !.exists = FALSE,
                                                     !.active = FALSE, !.email = NoEmail]]
  /\ UNCHANGED <<student, portalOpen, tokens, begun>>

-----------------------------------------------------------------------------
(* The portal: sessions                                                     *)

\* assertPortalAuthenticationAllowed.
Allowed(a) ==
  /\ account[a].exists /\ account[a].active /\ portalOpen
  /\ student[a[1]].status \notin {"INACTIVE", "SUSPENDED"}

\* login, and the super administrator's impersonateStudent and impersonateParent.
CheckLogin(r, a) ==
  /\ Begin(r) /\ Allowed(a)
  /\ call' = [call EXCEPT ![r] = [Unused EXCEPT !.pc = "login", !.on = {a[1]}, !.type = a[2]]]
  /\ UNCHANGED <<student, account, portalOpen, tokens, drift>>

\* Faulty variant of CheckRefresh: the token is not compared with the stored hash.
RefreshUnshown(r, a, t) ==
  /\ Begin(r) /\ Allowed(a) /\ t # 0 /\ account[a].token # 0
  /\ call' = [call EXCEPT ![r] = [Unused EXCEPT !.pc = "refresh", !.on = {a[1]}, !.type = a[2],
                                             !.token = t]]
  /\ UNCHANGED <<student, account, portalOpen, tokens, drift>>

\* refreshTokens: any token ever issued may be shown, the stored one is accepted.
CheckRefresh(r, a, t) ==
  /\ Begin(r) /\ Allowed(a) /\ t # 0 /\ account[a].token = t
  /\ call' = [call EXCEPT ![r] = [Unused EXCEPT !.pc = "refresh", !.on = {a[1]}, !.type = a[2],
                                             !.token = t]]
  /\ UNCHANGED <<student, account, portalOpen, tokens, drift>>

\* createSession: the account's one hash is overwritten, whatever became of it since.
CreateSession(r) ==
  /\ call[r].pc \in {"login", "refresh"} /\ tokens < MaxTokens
  /\ \E s \in call[r].on :
       LET a == <<s, call[r].type>> IN
       IF account[a].exists
         THEN /\ account' = [account EXCEPT ![a].token = tokens + 1] /\ tokens' = tokens + 1
              /\ call' = [Cross(call, LAMBDA q : AtDoor(q, a)) EXCEPT ![r] = Unused]
         ELSE account' = account /\ tokens' = tokens /\ call' = [call EXCEPT ![r] = Unused]
  /\ UNCHANGED <<student, portalOpen, begun, drift>>

\* logout: the hash is cleared.
Logout(r, a) ==
  /\ Begin(r) /\ account[a].exists /\ account[a].token # 0
  /\ account' = [account EXCEPT ![a].token = 0]
  /\ call' = Cross(call, LAMBDA q : AtDoor(q, a))
  /\ UNCHANGED <<student, portalOpen, tokens, drift>>

\* The organization, its subscription or its portal module is switched off or on.
SwitchPortal(r) ==
  /\ Begin(r) /\ portalOpen' = ~portalOpen
  /\ call' = Cross(call, LAMBDA q : call[q].pc \in {"login", "refresh"})
  /\ UNCHANGED <<student, account, tokens, drift>>

PortalNext ==
  \E r \in Callers :
    \/ \E s \in Students, e \in Emails \cup {NoEmail}, g \in Guardians \cup {NoEmail} :
         \/ CreateStudent(r, s, e, g)
         \/ \E named \in SUBSET {"STUDENT", "PARENT"}, status \in {"ACTIVE", "SUSPENDED"} :
              UpdateStudent(r, s, e, g, named, status)
    \/ \E S \in SUBSET Students : \E f \in [S -> Emails \cup {NoEmail}] : ImportLook(r, S, f)
    \/ ImportWrite(r) \/ UpdateAccount(r)
    \/ \E S \in SUBSET Students :
         \/ DeleteStudents(r, S)
         \/ \E status \in {"ACTIVE", "SUSPENDED"} : BulkUpdateStatus(r, S, status)
    \/ \E s \in Students, wants \in SUBSET {"STUDENT", "PARENT"}, enabled \in BOOLEAN :
         AccessLook(r, s, wants, enabled)
    \/ AccessFind(r) \/ AccessWrite(r)
    \/ \E a \in Students \X Types :
         \/ CheckLogin(r, a) \/ Logout(r, a)
         \/ \E t \in 1 .. tokens : CheckRefresh(r, a, t)
    \/ CreateSession(r) \/ SwitchPortal(r)

PortalSpec == PortalInit /\ [][PortalNext]_portalVars

-----------------------------------------------------------------------------
PortalTypeOK ==
  /\ student \in [Students -> [email : Emails \cup {NoEmail}, guardian : Guardians \cup {NoEmail},
                              status : {"none", "ACTIVE", "SUSPENDED", "gone"}]]
  /\ account \in [Accounts -> [exists : BOOLEAN, email : Addresses, active : BOOLEAN,
                               token : 0 .. MaxTokens]]
  /\ portalOpen \in BOOLEAN /\ drift \subseteq Accounts
  /\ tokens \in 0 .. MaxTokens /\ begun \in 0 .. MaxRequests
  /\ \A r \in Callers : call[r].on \subseteq Students

\* StudentsService.update and upsertPortalAccess keep an account's address in three separate
\* writes: outside a request under way, an account has its student's address in lower case (the
\* guardian's for the parents).  It may have another one where the student's was emptied, which
\* the accounts do not follow, where a taken address cut a request short, and where two requests
\* on the same student crossed.
AccountFollowsStudent ==
  \A a \in Accounts :
    account[a].exists =>
      LET e == AddressOf(student[a[1]], a[2]) IN
      \/ account[a].email = LowerCase[e]
      \/ e = NoEmail
      \/ a \in drift
      \/ \E r \in Callers : call[r].pc \in {"updateStudent", "updateParent"} /\ a[1] \in call[r].on

\* PortalAuthService.createSession: a session is stored for an account only by a login, or by
\* a refresh that shows the session it replaces, of an account allowed in; or what the request
\* checked (the session, the account, the student, the organization) changed before it stored.
SessionStoredForCause ==
  [][\A a \in Accounts :
       account'[a].token \notin {account[a].token, 0} =>
         \E r \in Callers :
           /\ AtDoor(r, a)
           /\ \/ call[r].crossed
              \/ /\ Allowed(a)
                 /\ call[r].pc = "login" \/ call[r].token = account[a].token]_portalVars

=============================================================================
