---------------------------- MODULE AccessProofs ----------------------------
(***************************************************************************)
(* Who gets in and who may change whom, for any number of requests, users, *)
(* students and accounts: the directory of staff, the portal accounts of   *)
(* students and parents, and their sessions.                               *)
(***************************************************************************)
EXTENDS StaffDirectory, PortalAccess, TLAPS

-----------------------------------------------------------------------------
(* The directory. *)
USE DirectoryAssumption

MemberRow == [there : BOOLEAN, active : BOOLEAN, roles : SUBSET RoleNames]

DeskRow ==
  [pc : {"free", "create", "update", "deleteMany", "activateMany", "deactivateMany"},
   actor : SUBSET RoleNames, on : SUBSET Members, roles : SUBSET RoleNames,
   keepRoles : BOOLEAN, active : {"keep", "off"}, crossed : BOOLEAN]

\* What a request relies on between its check and its write: it may give the
\* roles it carries, and the users it judged are within its rank unless
\* another request has changed one of them since.
Judged(d) ==
  /\ desk[d].pc \in {"create", "update"} => \E u \in Members : desk[d].on = {u}
  /\ desk[d].pc = "create" \/ (desk[d].pc = "update" /\ ~desk[d].keepRoles) =>
       MayGive(desk[d].actor, desk[d].roles)
  /\ desk[d].pc \notin {"free", "create"} /\ ~desk[d].crossed =>
       \A u \in desk[d].on : member[u].there /\ Manageable(desk[d].actor, u)

DirectoryInv ==
  /\ member \in [Members -> MemberRow]
  /\ desk \in [Desks -> DeskRow]
  /\ served \in 0 .. MaxEdits
  /\ \A u \in Members : ~member[u].there => member[u].roles = {}
  /\ \A d \in Desks : Judged(d)

LEMMA DeskRows ==
  /\ FreeDesk \in DeskRow /\ FreeDesk.pc = "free"
  /\ NoMember \in MemberRow /\ ~NoMember.there /\ NoMember.roles = {}
<1>1. FreeDesk \in DeskRow /\ FreeDesk.pc = "free"
  BY DEF FreeDesk, DeskRow, RoleNames
<1>2. NoMember \in MemberRow /\ ~NoMember.there /\ NoMember.roles = {}
  BY DEF NoMember, MemberRow
<1> QED
  BY <1>1, <1>2

LEMMA DirectoryInitSound == DirectoryInit => DirectoryInv
<1> SUFFICES ASSUME DirectoryInit PROVE DirectoryInv
  OBVIOUS
<1>1. PICK boss \in Members :
        member = [[u \in Members |-> NoMember]
                    EXCEPT ![boss] = [there |-> TRUE, active |-> TRUE, roles |-> {"ADMIN"}]]
  BY DEF DirectoryInit
<1> DEFINE head == [there |-> TRUE, active |-> TRUE, roles |-> {"ADMIN"}]
<1>2. head \in MemberRow /\ head.there
  BY DEF MemberRow, RoleNames
<1> HIDE DEF head
<1>3. member = [[u \in Members |-> NoMember] EXCEPT ![boss] = head]
  BY <1>1 DEF head
<1>4. /\ member \in [Members -> MemberRow]
      /\ \A u \in Members : ~member[u].there => member[u].roles = {}
  BY <1>2, <1>3, DeskRows
<1>5. desk \in [Desks -> DeskRow] /\ \A d \in Desks : desk[d].pc = "free"
  BY DeskRows DEF DirectoryInit
<1>6. \A d \in Desks : Judged(d)
  BY <1>5 DEF Judged
<1> QED
  BY <1>4, <1>5, <1>6 DEF DirectoryInv, DirectoryInit

\* A request is taken to a free desk.
LEMMA RequestTaken ==
  ASSUME DirectoryInv, NEW d \in Desks, NEW x \in DeskRow, Serve(d, x), Judged(d)'
  PROVE  DirectoryInv' /\ member' = member
<1>1. /\ desk' = [desk EXCEPT ![d] = x] /\ member' = member /\ served' \in 0 .. MaxEdits
  BY DEF Serve, DirectoryInv
<1>2. \A o \in Desks : Judged(o)'
  BY <1>1 DEF DirectoryInv, Judged, Manageable
<1> QED
  BY <1>1, <1>2 DEF DirectoryInv

LEMMA CreateChecked ==
  ASSUME DirectoryInv, NEW d \in Desks, NEW actor \in ActorRoles, NEW u \in Members,
         NEW roles \in Loads, CheckCreate(d, actor, u, roles)
  PROVE  DirectoryInv' /\ member' = member
<1> DEFINE x == [FreeDesk EXCEPT !.pc = "create", !.actor = actor, !.on = {u}, !.roles = roles,
                                 !.keepRoles = FALSE]
<1>1. /\ x \in DeskRow /\ x.pc = "create" /\ x.actor = actor /\ x.on = {u} /\ x.roles = roles
  BY DEF FreeDesk, DeskRow
<1> HIDE DEF x
<1>2. Serve(d, x) /\ MayGive(actor, roles)
  BY DEF CheckCreate, x
<1>3. desk'[d] = x
  BY <1>2 DEF Serve, DirectoryInv
<1>4. Judged(d)'
  BY <1>1, <1>2, <1>3 DEF Judged, MayGive
<1> QED
  BY <1>1, <1>2, <1>4, RequestTaken

LEMMA UpdateChecked ==
  ASSUME DirectoryInv, NEW d \in Desks, NEW actor \in ActorRoles, NEW u \in Members,
         NEW keepRoles \in BOOLEAN, NEW roles \in Loads \cup {{}}, NEW active \in {"keep", "off"},
         CheckUpdate(d, actor, u, keepRoles, roles, active)
  PROVE  DirectoryInv' /\ member' = member
<1> DEFINE x == [FreeDesk EXCEPT !.pc = "update", !.actor = actor, !.on = {u}, !.roles = roles,
                                 !.keepRoles = keepRoles, !.active = active]
<1>1. /\ x \in DeskRow /\ x.pc = "update" /\ x.actor = actor /\ x.on = {u} /\ x.roles = roles
      /\ x.keepRoles = keepRoles
  BY DEF FreeDesk, DeskRow
<1> HIDE DEF x
<1>2. /\ Serve(d, x)
      /\ keepRoles \/ MayGive(actor, roles)
      /\ member[u].there /\ Manageable(actor, u)
  BY DEF CheckUpdate, x
<1>3. desk'[d] = x /\ member' = member
  BY <1>2 DEF Serve, DirectoryInv
<1>4. Judged(d)'
  BY <1>1, <1>2, <1>3 DEF Judged, MayGive, Manageable
<1> QED
  BY <1>1, <1>2, <1>4, RequestTaken

LEMMA ManyChecked ==
  ASSUME DirectoryInv, NEW d \in Desks, NEW actor \in ActorRoles, NEW U \in SUBSET Members,
         NEW op \in {"deleteMany", "activateMany", "deactivateMany"}, CheckMany(d, actor, U, op)
  PROVE  DirectoryInv' /\ member' = member
<1> DEFINE x == [FreeDesk EXCEPT !.pc = op, !.actor = actor, !.on = U]
<1>1. /\ x \in DeskRow /\ x.pc = op /\ x.actor = actor /\ x.on = U
  BY DEF FreeDesk, DeskRow, RoleNames
<1> HIDE DEF x
<1>2. Serve(d, x) /\ \A u \in U : member[u].there /\ Manageable(actor, u)
  BY DEF CheckMany, x
<1>3. desk'[d] = x /\ member' = member
  BY <1>2 DEF Serve, DirectoryInv
<1>4. Judged(d)'
  BY <1>1, <1>2, <1>3 DEF Judged, Manageable
<1> QED
  BY <1>1, <1>2, <1>4, RequestTaken

\* A change of a user within the rank of the request that makes it.
Within(u) ==
  \E d \in Desks :
    /\ u \in desk[d].on /\ desk[d].pc # "free"
    /\ \/ Super(desk[d].actor)
       \/ /\ member'[u].roles \ member[u].roles \subseteq Assignable(desk[d].actor)
          /\ member[u].roles \subseteq Assignable(desk[d].actor) \/ desk[d].crossed

\* The request at desk d changes rows it holds, or gives up, and leaves.
Left(d) ==
  /\ served' = served
  /\ member' \in [Members -> MemberRow]
  /\ \A u \in Members : ~member'[u].there => member'[u].roles = {}
  /\ \/ /\ desk' = [desk EXCEPT ![d] = FreeDesk]
        /\ \A u \in Members : member[u].there => member'[u] = member[u]
     \/ /\ desk' = Crossed(d, desk[d].on)
        /\ \A u \in Members \ desk[d].on : member'[u] = member[u]

LEMMA RequestLeft ==
  ASSUME DirectoryInv, NEW d \in Desks, Left(d)
  PROVE  DirectoryInv'
<1>1. ASSUME NEW o \in Desks, o # d
      PROVE  /\ desk'[o] \in DeskRow
             /\ desk'[o].pc = desk[o].pc /\ desk'[o].actor = desk[o].actor
             /\ desk'[o].on = desk[o].on /\ desk'[o].roles = desk[o].roles
             /\ desk'[o].keepRoles = desk[o].keepRoles
             /\ desk[o].crossed => desk'[o].crossed
             /\ desk[o].pc # "free" /\ ~desk'[o].crossed =>
                  \A u \in desk[o].on : member[u].there => member'[u] = member[u]
  <2>1. desk[o] \in DeskRow
    BY DEF DirectoryInv
  <2>2. CASE desk'[o] = desk[o]
    <3>1. desk[o].on \subseteq Members
      BY <2>1 DEF DeskRow
    <3>2. ASSUME desk[o].pc # "free", NEW u \in desk[o].on, member[u].there
          PROVE  member'[u] = member[u] \/ desk[o].crossed
      <4>1. CASE \A v \in Members : member[v].there => member'[v] = member[v]
        BY <3>1, <3>2, <4>1
      <4>2. CASE /\ desk' = Crossed(d, desk[d].on)
                 /\ \A v \in Members \ desk[d].on : member'[v] = member[v]
        <5>1. CASE u \in desk[d].on
          <6>1. desk'[o] = [desk[o] EXCEPT !.crossed = TRUE]
            BY <1>1, <3>2, <4>2, <5>1 DEF Crossed
          <6>2. desk'[o].crossed
            BY <2>1, <6>1 DEF DeskRow
          <6> QED
            BY <2>2, <6>2
        <5>2. CASE u \notin desk[d].on
          BY <3>1, <3>2, <4>2, <5>2
        <5> QED
          BY <5>1, <5>2
      <4> QED
        BY <4>1, <4>2 DEF Left
    <3> QED
      BY <2>1, <2>2, <3>2
  <2>3. CASE desk'[o] = [desk[o] EXCEPT !.crossed = TRUE]
    BY <2>1, <2>3 DEF DeskRow
  <2>4. desk'[o] = desk[o] \/ desk'[o] = [desk[o] EXCEPT !.crossed = TRUE]
    BY <1>1 DEF Left, Crossed, DirectoryInv
  <2> QED
    BY <2>2, <2>3, <2>4
<1>2. desk'[d] = FreeDesk /\ DOMAIN desk' = Desks /\ desk' = [o \in Desks |-> desk'[o]]
  BY DEF Left, Crossed, DirectoryInv
<1>3. desk' \in [Desks -> DeskRow]
  <2>1. \A o \in Desks : desk'[o] \in DeskRow
    BY <1>1, <1>2, DeskRows
  <2> QED
    BY <1>2, <2>1
<1>4. ASSUME NEW o \in Desks PROVE Judged(o)'
  <2>1. CASE o = d
    BY <1>2, <2>1, DeskRows DEF Judged
  <2>2. CASE o # d
    BY <2>2, <1>1 DEF DirectoryInv, Judged, Manageable, MayGive
  <2> QED
    BY <2>1, <2>2
<1> QED
  BY <1>3, <1>4 DEF DirectoryInv, Left

LEMMA CreateWritten ==
  ASSUME DirectoryInv, NEW d \in Desks, WriteCreate(d)
  PROVE  DirectoryInv' /\ \A v \in Members : member'[v] # member[v] => Within(v)
<1> PICK u \in Members : desk[d].on = {u}
  BY DEF WriteCreate, DirectoryInv, Judged
<1> DEFINE row == [there |-> TRUE, active |-> TRUE, roles |-> desk[d].roles]
<1>1. /\ desk' = [desk EXCEPT ![d] = FreeDesk] /\ served' = served
      /\ member' = IF member[u].there THEN member ELSE [member EXCEPT ![u] = row]
      /\ desk[d].pc = "create" /\ MayGive(desk[d].actor, desk[d].roles)
  BY DEF WriteCreate, DirectoryInv, Judged
<1>2. row \in MemberRow /\ row.there /\ row.roles = desk[d].roles
  <2>1. desk[d].roles \in SUBSET RoleNames
    BY DEF DirectoryInv, DeskRow
  <2> QED
    BY <2>1 DEF MemberRow
<1> HIDE DEF row
<1>3. Left(d)
  BY <1>1, <1>2 DEF Left, DirectoryInv
<1>4. ASSUME NEW v \in Members, member'[v] # member[v] PROVE Within(v)
  <2>1. v = u /\ member[u].roles = {} /\ member'[u].roles = desk[d].roles
    BY <1>1, <1>2, <1>4 DEF DirectoryInv
  <2> QED
    BY <2>1, <1>1 DEF Within, MayGive
<1> QED
  BY <1>3, <1>4, RequestLeft

LEMMA UpdateWritten ==
  ASSUME DirectoryInv, NEW d \in Desks, WriteUpdate(d)
  PROVE  DirectoryInv' /\ \A v \in Members : member'[v] # member[v] => Within(v)
<1> PICK u \in Members : desk[d].on = {u}
  BY DEF WriteUpdate, DirectoryInv, Judged
<1>1. /\ desk[d].pc = "update" /\ served' = served
      /\ desk[d].keepRoles \/ MayGive(desk[d].actor, desk[d].roles)
      /\ ~desk[d].crossed => Manageable(desk[d].actor, u)
  BY DEF WriteUpdate, DirectoryInv, Judged
<1>2. CASE ~member[u].there
  <2>1. member' = member /\ desk' = [desk EXCEPT ![d] = FreeDesk]
    BY <1>2 DEF WriteUpdate
  <2>2. Left(d)
    BY <1>1, <2>1 DEF Left, DirectoryInv
  <2> QED
    BY <2>1, <2>2, RequestLeft
<1>3. CASE member[u].there
  <2> DEFINE row == [member[u] EXCEPT !.roles = IF desk[d].keepRoles THEN @ ELSE desk[d].roles,
                                      !.active = @ /\ desk[d].active = "keep"]
  <2>1. member' = [member EXCEPT ![u] = row] /\ desk' = Crossed(d, {u})
    BY <1>3 DEF WriteUpdate, DirectoryInv
  <2>2. /\ row \in MemberRow /\ row.there
        /\ row.roles = IF desk[d].keepRoles THEN member[u].roles ELSE desk[d].roles
    <3>1. member[u] \in MemberRow /\ desk[d].roles \in SUBSET RoleNames
      BY DEF DirectoryInv, DeskRow
    <3> QED
      BY <1>3, <3>1 DEF MemberRow
  <2> HIDE DEF row
  <2>3. Left(d)
    BY <1>1, <2>1, <2>2 DEF Left, DirectoryInv
  <2>4. ASSUME NEW v \in Members, member'[v] # member[v] PROVE Within(v)
    <3>1. v = u /\ member'[u].roles = row.roles
      BY <2>1, <2>4 DEF DirectoryInv
    <3>2. Super(desk[d].actor)
          \/ (/\ member'[u].roles \ member[u].roles \subseteq Assignable(desk[d].actor)
              /\ member[u].roles \subseteq Assignable(desk[d].actor) \/ desk[d].crossed)
      BY <1>1, <2>2, <3>1 DEF MayGive, Manageable
    <3> QED
      BY <1>1, <3>1, <3>2 DEF Within
  <2> QED
    BY <2>3, <2>4, RequestLeft
<1> QED
  BY <1>2, <1>3

LEMMA ManyWritten ==
  ASSUME DirectoryInv, NEW d \in Desks, WriteMany(d)
  PROVE  DirectoryInv' /\ \A v \in Members : member'[v] # member[v] => Within(v)
<1> PICK U \in SUBSET Members : desk[d].on = U
  BY DEF DirectoryInv, DeskRow
<1>1. /\ desk[d].pc \in {"deleteMany", "activateMany", "deactivateMany"} /\ served' = served
      /\ ~desk[d].crossed => \A u \in U : Manageable(desk[d].actor, u)
  BY DEF WriteMany, DirectoryInv, Judged
<1>2. CASE ~\A u \in U : member[u].there
  <2>1. member' = member /\ desk' = [desk EXCEPT ![d] = FreeDesk]
    BY <1>2 DEF WriteMany
  <2>2. Left(d)
    BY <1>1, <2>1 DEF Left, DirectoryInv
  <2> QED
    BY <2>1, <2>2, RequestLeft
<1>3. CASE \A u \in U : member[u].there
  <2>1. desk' = Crossed(d, U)
    BY <1>3 DEF WriteMany
  <2>2. \A u \in Members \ U : member'[u] = member[u]
    BY <1>3 DEF WriteMany
  <2>3. ASSUME NEW u \in U
        PROVE  /\ member'[u] \in MemberRow
               /\ member'[u].there \/ member'[u].roles = {}
               /\ member'[u].roles \subseteq member[u].roles
    <3>1. member[u] \in MemberRow
      BY DEF DirectoryInv
    <3>2. CASE desk[d].pc = "deleteMany"
      BY <1>3, <3>2, DeskRows DEF WriteMany
    <3>3. CASE desk[d].pc # "deleteMany"
      <4>1. member'[u] = [member[u] EXCEPT !.active = desk[d].pc = "activateMany"]
        BY <1>3, <3>3 DEF WriteMany
      <4> QED
        BY <1>3, <3>1, <4>1 DEF MemberRow
    <3> QED
      BY <3>2, <3>3
  <2>4. member' \in [Members -> MemberRow]
    <3>1. member' = [u \in Members |-> member'[u]]
      BY <1>3 DEF WriteMany
    <3>2. \A u \in Members : member'[u] \in MemberRow
      BY <2>2, <2>3 DEF DirectoryInv
    <3> QED
      BY <3>1, <3>2
  <2>5. Left(d)
    BY <1>1, <2>1, <2>2, <2>3, <2>4 DEF Left, DirectoryInv
  <2>6. ASSUME NEW v \in Members, member'[v] # member[v] PROVE Within(v)
    <3>1. v \in U /\ member'[v].roles \subseteq member[v].roles
      BY <2>2, <2>3, <2>6
    <3>2. Super(desk[d].actor) \/ member[v].roles \subseteq Assignable(desk[d].actor)
          \/ desk[d].crossed
      BY <1>1, <3>1 DEF Manageable
    <3> QED
      BY <1>1, <3>1, <3>2 DEF Within
  <2> QED
    BY <2>5, <2>6, RequestLeft
<1> QED
  BY <1>2, <1>3

LEMMA DirectoryStepSound ==
  ASSUME DirectoryInv, [DirectoryNext]_directoryVars
  PROVE  DirectoryInv' /\ \A u \in Members : member'[u] # member[u] => Within(u)
<1>1. CASE UNCHANGED directoryVars
  BY <1>1 DEF directoryVars, DirectoryInv, Judged, Manageable
<1>2. ASSUME NEW d \in Desks,
             \/ \E actor \in ActorRoles, u \in Members, roles \in Loads :
                  CheckCreate(d, actor, u, roles)
             \/ \E actor \in ActorRoles, u \in Members, keepRoles \in BOOLEAN,
                   roles \in Loads \cup {{}}, active \in {"keep", "off"} :
                  CheckUpdate(d, actor, u, keepRoles, roles, active)
             \/ \E actor \in ActorRoles, U \in SUBSET Members,
                   op \in {"deleteMany", "activateMany", "deactivateMany"} :
                  CheckMany(d, actor, U, op)
      PROVE  DirectoryInv' /\ member' = member
  BY <1>2, CreateChecked, UpdateChecked, ManyChecked
<1>3. ASSUME NEW d \in Desks, WriteCreate(d) \/ WriteUpdate(d) \/ WriteMany(d)
      PROVE  DirectoryInv' /\ \A u \in Members : member'[u] # member[u] => Within(u)
  BY <1>3, CreateWritten, UpdateWritten, ManyWritten
<1> QED
  BY <1>1, <1>2, <1>3 DEF DirectoryNext

LEMMA DirectoryAlwaysSound == DirectorySpec => []DirectoryInv
<1>1. DirectoryInv /\ [DirectoryNext]_directoryVars => DirectoryInv'
  BY DirectoryStepSound
<1> QED
  BY <1>1, DirectoryInitSound, PTL DEF DirectorySpec

-----------------------------------------------------------------------------
\* User rows and requests are of their tables' types (schema.prisma, users.service.ts).
THEOREM DirectoryTypeCorrect == DirectorySpec => []DirectoryTypeOK
<1>1. DirectoryInv => DirectoryTypeOK
  BY DEF DirectoryInv, MemberRow, DeskRow, DirectoryTypeOK
<1> QED
  BY <1>1, DirectoryAlwaysSound, PTL

\* Whatever requests overlap, whoever changes or deletes a user could have
\* given every role that user holds, unless another request changed the user
\* after the check, and hands out no role above what they may give
\* (users.service.ts, assertManageableTarget and assertAssignableRoleIds).
THEOREM ChangesWithinRank == DirectorySpec => ChangedWithinRank
<1>1. DirectoryInv /\ [DirectoryNext]_directoryVars =>
        [\A u \in Members :
           member'[u] # member[u] =>
             \E d \in Desks :
               /\ u \in desk[d].on /\ desk[d].pc # "free"
               /\ \/ Super(desk[d].actor)
                  \/ /\ member'[u].roles \ member[u].roles \subseteq Assignable(desk[d].actor)
                     /\ member[u].roles \subseteq Assignable(desk[d].actor) \/ desk[d].crossed
        ]_directoryVars
  BY DirectoryStepSound DEF Within
<1> QED
  BY <1>1, DirectoryAlwaysSound, PTL DEF DirectorySpec, ChangedWithinRank

-----------------------------------------------------------------------------
(* The portal accounts. *)
HIDE DirectoryAssumption
USE PortalAssumption

StudentRow == [email : Emails \cup {NoEmail}, guardian : Guardians \cup {NoEmail},
               status : {"none", "ACTIVE", "SUSPENDED", "gone"}]

AccountRow == [exists : BOOLEAN, email : Addresses, active : BOOLEAN, token : 0 .. MaxTokens]

ImportRows == {<<>>} \cup UNION {[S -> Emails \cup {NoEmail}] : S \in SUBSET Students}

Updating == {"updateStudent", "updateParent"}
Granting == {"findStudent", "findParent", "writeStudent", "writeParent"}
Entering == {"login", "refresh"}

CallRow ==
  [pc : {"idle", "import"} \cup Updating \cup Granting \cup Entering,
   on : SUBSET Students, type : {"STUDENT", "PARENT"}, email : Emails \cup {NoEmail},
   guardian : Guardians \cup {NoEmail}, rows : ImportRows,
   wants : SUBSET {"STUDENT", "PARENT"}, enabled : BOOLEAN, exists : BOOLEAN, active : BOOLEAN,
   token : 0 .. MaxTokens, crossed : BOOLEAN]

\* Each table and each request is of its type.
AccessTyped ==
  /\ student \in [Students -> StudentRow]
  /\ account \in [Accounts -> AccountRow]
  /\ portalOpen \in BOOLEAN /\ drift \in SUBSET Accounts
  /\ tokens \in 0 .. MaxTokens /\ begun \in 0 .. MaxRequests
  /\ call \in [Callers -> CallRow]

\* Accounts belong to students there are.
Rooted == \A a \in Accounts : account[a].exists => Enrolled(a[1])

\* The request writes what it has read: its student's addresses as they stand.
StillTrue(r, s) ==
  /\ Enrolled(s)
  /\ call[r].pc \in Updating =>
       /\ call[r].email # NoEmail => call[r].email = student[s].email
       /\ call[r].guardian # NoEmail => call[r].guardian = student[s].guardian
  /\ call[r].pc \in Granting => call[r].guardian = student[s].guardian
  /\ call[r].pc \in {"findStudent", "writeStudent"} => call[r].email = student[s].email

\* The account it lets in is allowed in, and a refresh holds the stored session.
StillAllowed(r, a) ==
  Allowed(a) /\ (call[r].pc = "login" \/ call[r].token = account[a].token)

\* What a request relies on until it is crossed.
Knows(r) ==
  /\ call[r].pc \notin {"idle", "import"} => \E s \in Students : call[r].on = {s}
  /\ call[r].pc = "import" => call[r].rows \in [call[r].on -> Emails \cup {NoEmail}]
  /\ call[r].pc \in Updating \cup Granting /\ ~call[r].crossed =>
       \A s \in call[r].on : StillTrue(r, s)
  /\ call[r].pc \in Entering /\ ~call[r].crossed =>
       \A s \in call[r].on : StillAllowed(r, <<s, call[r].type>>)

\* An update that has yet to write the address of account a.
Pending(r, a) ==
  /\ a[1] \in call[r].on
  /\ call[r].pc \in Updating
  /\ a[2] = "STUDENT" => call[r].pc = "updateStudent"
  /\ AddressOf(call[r], a[2]) # NoEmail

Follows(a) ==
  account[a].exists =>
    \/ account[a].email = LowerCase[AddressOf(student[a[1]], a[2])]
    \/ AddressOf(student[a[1]], a[2]) = NoEmail
    \/ a \in drift
    \/ \E r \in Callers : Pending(r, a)

AccessInv ==
  /\ AccessTyped
  /\ Rooted
  /\ \A r \in Callers : Knows(r)
  /\ \A a \in Accounts : Follows(a)

LEMMA UnusedTyped == Unused \in CallRow /\ Unused.pc = "idle"
  BY DEF Unused, CallRow, ImportRows

LEMMA AccessRows ==
  /\ Unused \in CallRow /\ Unused.pc = "idle"
  /\ \A S \in SUBSET Students : [S -> Emails \cup {NoEmail}] \subseteq ImportRows
  /\ NoStudent \in StudentRow /\ NoStudent.status = "none"
  /\ NoAccount \in AccountRow /\ NoAccount.exists = FALSE /\ NoAccount.token = 0
  /\ \A a \in Accounts : a[1] \in Students /\ a[2] \in {"STUDENT", "PARENT"} /\ a = <<a[1], a[2]>>
  /\ \A s \in Students, t \in {"STUDENT", "PARENT"} :
       /\ <<s, t>> \in Accounts /\ <<s, t>>[1] = s /\ <<s, t>>[2] = t
<1>1. Unused \in CallRow /\ Unused.pc = "idle"
  BY UnusedTyped
<1>2. NoStudent \in StudentRow /\ NoStudent.status = "none"
  BY DEF NoStudent, StudentRow
<1>3. NoAccount \in AccountRow /\ NoAccount.exists = FALSE /\ NoAccount.token = 0
  BY DEF NoAccount, AccountRow, Addresses
<1>4. \A a \in Accounts : a[1] \in Students /\ a[2] \in {"STUDENT", "PARENT"} /\ a = <<a[1], a[2]>>
  BY DEF Accounts
<1>5. \A s \in Students, t \in {"STUDENT", "PARENT"} :
        /\ <<s, t>> \in Accounts /\ <<s, t>>[1] = s /\ <<s, t>>[2] = t
  BY DEF Accounts
<1>6. \A S \in SUBSET Students : [S -> Emails \cup {NoEmail}] \subseteq ImportRows
  BY DEF ImportRows
<1> QED
  BY <1>1, <1>2, <1>3, <1>4, <1>5, <1>6

LEMMA AccountNamed ==
  ASSUME NEW s \in Students, NEW t \in {"STUDENT", "PARENT"}
  PROVE  \E a \in Accounts : a = <<s, t>> /\ a[1] = s /\ a[2] = t
  BY AccessRows

LEMMA NewRow ==
  ASSUME NEW e \in Emails \cup {NoEmail}, NEW g \in Guardians \cup {NoEmail}
  PROVE  /\ Row(e, g) \in StudentRow /\ Row(e, g).status = "ACTIVE"
         /\ Row(e, g).email = e /\ Row(e, g).guardian = g
  BY DEF Row, StudentRow

LEMMA AccessInitSound == PortalInit => AccessInv
<1> SUFFICES ASSUME PortalInit PROVE AccessInv
  OBVIOUS
<1>1. /\ portalOpen = TRUE /\ call = [r \in Callers |-> Unused] /\ tokens = 0 /\ begun = 0
      /\ drift = {}
  BY DEF PortalInit
<1>2. CASE student = [s \in Students |-> NoStudent] /\ account = [a \in Accounts |-> NoAccount]
  <2>1. AccessTyped
    BY <1>1, <1>2, AccessRows DEF AccessTyped
  <2>2. Rooted /\ \A a \in Accounts : Follows(a)
    BY <1>2, AccessRows DEF Rooted, Follows
  <2>3. \A r \in Callers : Knows(r)
    BY <1>1, AccessRows DEF Knows, Updating, Granting, Entering
  <2> QED
    BY <2>1, <2>2, <2>3 DEF AccessInv
<1>3. ASSUME NEW s \in Students, NEW e \in Emails, NEW g \in Guardians,
             student = [[u \in Students |-> NoStudent] EXCEPT ![s] = Row(e, g)],
             account = [a \in Accounts |->
               IF a[1] = s THEN [exists |-> TRUE, active |-> TRUE, token |-> 0,
                                 email |-> LowerCase[AddressOf(Row(e, g), a[2])]]
               ELSE NoAccount]
      PROVE  AccessInv
  <2>1. /\ student[s] = Row(e, g) /\ Row(e, g) \in StudentRow /\ Row(e, g).status = "ACTIVE"
        /\ \A u \in Students \ {s} : student[u] = NoStudent
        /\ student \in [Students -> StudentRow]
    BY <1>3, NewRow, AccessRows
  <2>2. \A t \in {"STUDENT", "PARENT"} : LowerCase[AddressOf(Row(e, g), t)] \in Addresses
    <3>1. \A t \in {"STUDENT", "PARENT"} : AddressOf(Row(e, g), t) \in Addresses
      BY NewRow DEF AddressOf, Addresses
    <3> QED
      BY <3>1 DEF Addresses
  <2>3. ASSUME NEW a \in Accounts
        PROVE  /\ account[a] \in AccountRow
               /\ account[a].exists =>
                    a[1] = s /\ account[a].email = LowerCase[AddressOf(Row(e, g), a[2])]
    <3>1. CASE a[1] = s
      <4>1. account[a] = [exists |-> TRUE, active |-> TRUE, token |-> 0,
                          email |-> LowerCase[AddressOf(Row(e, g), a[2])]]
        BY <1>3, <3>1
      <4>2. LowerCase[AddressOf(Row(e, g), a[2])] \in Addresses
        BY <2>2, AccessRows
      <4> QED
        BY <3>1, <4>1, <4>2 DEF AccountRow
    <3>2. CASE a[1] # s
      BY <1>3, <3>2, AccessRows
    <3> QED
      BY <3>1, <3>2
  <2>4. AccessTyped
    BY <1>1, <1>3, <2>1, <2>3, AccessRows DEF AccessTyped
  <2>5. Rooted /\ \A a \in Accounts : Follows(a)
    BY <2>1, <2>3 DEF Rooted, Follows, Enrolled
  <2>6. \A r \in Callers : Knows(r)
    BY <1>1, AccessRows DEF Knows, Updating, Granting, Entering
  <2> QED
    BY <2>4, <2>5, <2>6 DEF AccessInv
<1> QED
  BY <1>2, <1>3 DEF PortalInit

-----------------------------------------------------------------------------
\* A request that goes on, marked as crossed or not.
GoesOn(q) ==
  /\ call'[q] \in CallRow
  /\ call'[q].pc = call[q].pc /\ call'[q].on = call[q].on /\ call'[q].type = call[q].type
  /\ call'[q].email = call[q].email /\ call'[q].guardian = call[q].guardian
  /\ call'[q].rows = call[q].rows /\ call'[q].token = call[q].token
  /\ call[q].crossed => call'[q].crossed

\* Nothing has changed of what it relies on.
Untouched(q) ==
  /\ call[q].pc \in Updating \cup Granting => \A s \in call[q].on :
       Enrolled(s) => /\ Enrolled(s)' /\ student'[s].email = student[s].email
                      /\ student'[s].guardian = student[s].guardian
  /\ call[q].pc \in Entering => \A s \in call[q].on :
       LET a == <<s, call[q].type>>
       IN  Allowed(a) => Allowed(a)' /\ account'[a].token = account[a].token

LEMMA OthersGoOn ==
  ASSUME AccessInv, NEW q \in Callers, GoesOn(q), call'[q].crossed \/ Untouched(q)
  PROVE  /\ Knows(q)'
         /\ \A a \in Accounts : Pending(q, a)' = Pending(q, a)
<1>1. Knows(q)'
  BY DEF AccessInv, Knows, GoesOn, Untouched, StillTrue, StillAllowed
<1>2. \A a \in Accounts : Pending(q, a)' = Pending(q, a)
  BY DEF GoesOn, Pending, AddressOf
<1> QED
  BY <1>1, <1>2

LEMMA LeftAlone ==
  ASSUME AccessInv, NEW q \in Callers, call'[q] = call[q]
  PROVE  GoesOn(q)
  BY DEF AccessInv, AccessTyped, GoesOn

LEMMA MarkedGoesOn ==
  ASSUME AccessInv, NEW q \in Callers, call'[q] = [call[q] EXCEPT !.crossed = TRUE]
  PROVE  GoesOn(q) /\ call'[q].crossed
<1> DEFINE x == [call[q] EXCEPT !.crossed = TRUE]
<1>1. /\ x \in CallRow /\ x.crossed
      /\ x.pc = call[q].pc /\ x.on = call[q].on /\ x.type = call[q].type
      /\ x.email = call[q].email /\ x.guardian = call[q].guardian
      /\ x.rows = call[q].rows /\ x.token = call[q].token
  <2>1. call[q] \in CallRow
    BY DEF AccessInv, AccessTyped
  <2> QED
    BY <2>1 DEF CallRow
<1> HIDE DEF x
<1>2. call'[q] = x
  BY DEF x
<1> QED
  BY <1>1, <1>2 DEF GoesOn

OthersKept(r) ==
  \A q \in Callers \ {r} : GoesOn(q) /\ (call'[q].crossed \/ Untouched(q))

\* Nothing changes about whether account a follows its student.
Still(r, a) ==
  /\ account'[a].exists =>
       /\ account[a].exists /\ account'[a].email = account[a].email
       /\ AddressOf(student'[a[1]], a[2]) = AddressOf(student[a[1]], a[2])
       /\ a \in drift => a \in drift'
  /\ Pending(r, a) => Pending(r, a)'

LEMMA AccessKept ==
  ASSUME AccessInv, NEW r \in Callers, AccessTyped', Rooted', Knows(r)', OthersKept(r),
         \A a \in Accounts : Still(r, a) \/ Follows(a)'
  PROVE  AccessInv'
<1>1. \A q \in Callers \ {r} : Knows(q)' /\ \A a \in Accounts : Pending(q, a)' = Pending(q, a)
  BY OthersGoOn DEF OthersKept
<1>2. ASSUME NEW a \in Accounts, Still(r, a) PROVE Follows(a)'
  <2>1. Follows(a)
    BY DEF AccessInv
  <2>2. ASSUME NEW q \in Callers, Pending(q, a) PROVE Pending(q, a)'
    BY <1>1, <1>2, <2>2 DEF Still
  <2> QED
    BY <1>2, <2>1, <2>2 DEF Still, Follows
<1> QED
  BY <1>1, <1>2 DEF AccessInv

TokensKept == \A a \in Accounts : account'[a].token \in {account[a].token, 0}

\* A request reads, and goes on as x: the rows stay as they are.
LEMMA RowsRead ==
  ASSUME AccessInv, NEW r \in Callers, NEW x \in CallRow, call' = [call EXCEPT ![r] = x],
         call[r].pc \notin Updating, begun' \in 0 .. MaxRequests,
         UNCHANGED <<student, account, portalOpen, tokens, drift>>, Knows(r)'
  PROVE  AccessInv' /\ TokensKept
<1>1. AccessTyped' /\ Rooted'
  BY DEF AccessInv, AccessTyped, Rooted, Enrolled
<1>2. OthersKept(r)
  <2>1. ASSUME NEW q \in Callers \ {r} PROVE GoesOn(q) /\ Untouched(q)
    <3>1. call'[q] = call[q]
      BY DEF AccessInv, AccessTyped
    <3> QED
      BY <3>1, LeftAlone DEF Untouched, Enrolled, Allowed
  <2> QED
    BY <2>1 DEF OthersKept
<1>3. \A a \in Accounts : Still(r, a)
  BY DEF Still, Pending
<1> QED
  BY <1>1, <1>2, <1>3, AccessKept DEF TokensKept

\* A request that is about to begin.
LEMMA Beginning ==
  ASSUME AccessInv, NEW r \in Callers, Begin(r)
  PROVE  /\ begun' \in 0 .. MaxRequests
         /\ call[r].pc = "idle" /\ call[r].pc \notin Updating
  BY DEF Begin, AccessInv, AccessTyped, Updating

LEMMA ImportLooked ==
  ASSUME AccessInv, NEW r \in Callers, NEW S \in SUBSET Students,
         NEW f \in [S -> Emails \cup {NoEmail}], ImportLook(r, S, f)
  PROVE  AccessInv' /\ TokensKept
<1> PICK fresh \in SUBSET S :
           fresh = {s \in S : /\ ~Enrolled(s)
                              /\ f[s] \notin Existing({f[t] : t \in S} \ {NoEmail})}
  OBVIOUS
<1> DEFINE rows == [s \in fresh |-> f[s]]
           x == [Unused EXCEPT !.pc = "import", !.on = fresh, !.rows = rows]
<1>1. rows \in [fresh -> Emails \cup {NoEmail}] /\ rows \in ImportRows
  <2>1. rows \in [fresh -> Emails \cup {NoEmail}]
    OBVIOUS
  <2> QED
    BY <2>1, AccessRows
<1> HIDE DEF rows
<1>2. x \in CallRow /\ x.pc = "import" /\ x.on = fresh /\ x.rows = rows
  BY <1>1, AccessRows DEF CallRow
<1> HIDE DEF x
<1>3. /\ Begin(r) /\ call' = [call EXCEPT ![r] = x]
      /\ UNCHANGED <<student, account, portalOpen, tokens, drift>>
  BY DEF ImportLook, x, rows
<1>4. call'[r] = x
  BY <1>3 DEF AccessInv, AccessTyped
<1>5. Knows(r)'
  BY <1>1, <1>2, <1>4 DEF Knows, Updating, Granting, Entering
<1> QED
  BY <1>2, <1>3, <1>5, RowsRead, Beginning

LEMMA AccessLooked ==
  ASSUME AccessInv, NEW r \in Callers, NEW s \in Students,
         NEW wants \in SUBSET {"STUDENT", "PARENT"}, NEW enabled \in BOOLEAN,
         AccessLook(r, s, wants, enabled)
  PROVE  AccessInv' /\ TokensKept
<1> DEFINE x == [Unused EXCEPT !.pc = "findStudent", !.on = {s}, !.wants = wants,
                   !.enabled = enabled, !.email = student[s].email,
                   !.guardian = student[s].guardian]
<1>1. student[s].email \in Emails \cup {NoEmail} /\ student[s].guardian \in Guardians \cup {NoEmail}
  BY DEF AccessInv, AccessTyped, StudentRow
<1>2. /\ x \in CallRow /\ x.pc = "findStudent" /\ x.on = {s} /\ x.email = student[s].email
      /\ x.guardian = student[s].guardian
  BY <1>1, UnusedTyped, {s} \in SUBSET Students DEF CallRow, Granting
<1> HIDE DEF x
<1>3. /\ Begin(r) /\ Enrolled(s) /\ call' = [call EXCEPT ![r] = x]
      /\ UNCHANGED <<student, account, portalOpen, tokens, drift>>
  BY DEF AccessLook, x
<1>4. call'[r] = x
  BY <1>3 DEF AccessInv, AccessTyped
<1>5. Knows(r)'
  BY <1>2, <1>3, <1>4 DEF Knows, StillTrue, Enrolled, Updating, Granting, Entering
<1> QED
  BY <1>2, <1>3, <1>5, RowsRead, Beginning

LEMMA Entered ==
  ASSUME AccessInv, NEW r \in Callers, NEW s \in Students, NEW t \in {"STUDENT", "PARENT"},
         NEW token \in 0 .. tokens, CheckLogin(r, <<s, t>>) \/ CheckRefresh(r, <<s, t>>, token)
  PROVE  AccessInv' /\ TokensKept
<1> PICK a \in Accounts : a = <<s, t>> /\ a[1] = s /\ a[2] = t
  BY AccountNamed
<1> DEFINE in == [Unused EXCEPT !.pc = "login", !.on = {s}, !.type = t]
           again == [Unused EXCEPT !.pc = "refresh", !.on = {s}, !.type = t, !.token = token]
<1>1. in \in CallRow /\ in.pc = "login" /\ in.on = {s} /\ in.type = t
  BY UnusedTyped, {s} \in SUBSET Students DEF CallRow, Entering
<1>2. token \in 0 .. MaxTokens
  BY DEF AccessInv, AccessTyped
<1>3. again \in CallRow /\ again.pc = "refresh" /\ again.on = {s} /\ again.type = t
      /\ again.token = token
  BY <1>2, UnusedTyped, {s} \in SUBSET Students DEF CallRow, Entering
<1> HIDE DEF in, again
<1>4. /\ Begin(r) /\ Allowed(a)
      /\ \/ call' = [call EXCEPT ![r] = in]
         \/ call' = [call EXCEPT ![r] = again] /\ account[a].token = token
      /\ UNCHANGED <<student, account, portalOpen, tokens, drift>>
  BY DEF CheckLogin, CheckRefresh, in, again
<1>5. call'[r] = in \/ (call'[r] = again /\ account[a].token = token)
  BY <1>4 DEF AccessInv, AccessTyped
<1>6. StillAllowed(r, a)'
  BY <1>1, <1>3, <1>4, <1>5 DEF StillAllowed, Allowed
<1>7. call'[r].pc \in Entering /\ call'[r].on = {s} /\ call'[r].type = t
  BY <1>1, <1>3, <1>5 DEF Entering
<1>8. Knows(r)'
  BY <1>6, <1>7 DEF Knows, Updating, Granting, Entering
<1> QED
  BY <1>1, <1>3, <1>4, <1>8, RowsRead, Beginning

LEMMA AccessFound ==
  ASSUME AccessInv, NEW r \in Callers, AccessFind(r)
  PROVE  AccessInv' /\ TokensKept
<1>1. /\ call[r] \in CallRow /\ call[r].pc \in {"findStudent", "findParent"} /\ Knows(r)
      /\ UNCHANGED <<student, account, portalOpen, tokens, begun, drift>>
  BY DEF AccessInv, AccessTyped, AccessFind
<1>2. PICK s \in Students : call[r].on = {s}
  BY <1>1 DEF Knows
<1> DEFINE first == call[r].pc = "findStudent"
           t == IF first THEN "STUDENT" ELSE "PARENT"
           next == [call[r] EXCEPT !.pc = "findParent"]
           write == [call[r] EXCEPT !.pc = IF first THEN "writeStudent" ELSE "writeParent",
                                    !.exists = account[<<s, t>>].exists,
                                    !.active = account[<<s, t>>].active]
<1>3. /\ next \in CallRow /\ next.pc = "findParent" /\ next.on = {s}
      /\ next.guardian = call[r].guardian /\ next.crossed = call[r].crossed
  BY <1>1, <1>2 DEF CallRow, Granting
<1>4. /\ write \in CallRow /\ write.pc = (IF first THEN "writeStudent" ELSE "writeParent")
      /\ write.on = {s} /\ write.guardian = call[r].guardian /\ write.crossed = call[r].crossed
      /\ write.email = call[r].email
  <2>1. account[<<s, t>>] \in AccountRow
    BY AccessRows DEF AccessInv, AccessTyped
  <2>2. account[<<s, t>>].exists \in BOOLEAN /\ account[<<s, t>>].active \in BOOLEAN
    BY <2>1 DEF AccountRow
  <2> HIDE DEF t
  <2> QED
    BY <1>1, <1>2, <2>2 DEF CallRow, Granting
<1>5. /\ \/ call' = [call EXCEPT ![r] = next] /\ first
         \/ call' = [call EXCEPT ![r] = Unused]
         \/ call' = [call EXCEPT ![r] = write]
  BY <1>1, <1>2 DEF AccessFind
<1> HIDE DEF next, write
<1> PICK x \in {next, Unused, write} : call' = [call EXCEPT ![r] = x] /\ (x = next => first)
  BY <1>3, <1>4, <1>5, AccessRows
<1>6. x \in CallRow /\ call'[r] = x
  BY <1>3, <1>4, AccessRows DEF AccessInv, AccessTyped
<1>7. Knows(r)'
  BY <1>1, <1>2, <1>3, <1>4, <1>5, <1>6, AccessRows
     DEF Knows, StillTrue, Enrolled, Updating, Granting, Entering
<1>8. call[r].pc \notin Updating /\ begun' \in 0 .. MaxRequests
  BY <1>1 DEF Updating, AccessInv, AccessTyped
<1> QED
  BY <1>1, <1>5, <1>6, <1>7, <1>8, RowsRead

\* A request that is marked by Cross(call, ...), or left alone with what it relies on.
LEMMA MarkedOrUntouched ==
  ASSUME AccessInv, NEW r \in Callers,
         \A q \in Callers \ {r} : \/ call'[q] = [call[q] EXCEPT !.crossed = TRUE]
                                  \/ call'[q] = call[q] /\ Untouched(q)
  PROVE  OthersKept(r)
  BY LeftAlone, MarkedGoesOn DEF OthersKept

\* A request that goes no further.
LEMMA Through ==
  ASSUME NEW r \in Callers, call'[r] = Unused
  PROVE  Knows(r)'
  BY UnusedTyped DEF Knows, Updating, Granting, Entering

LEMMA NotPending ==
  ASSUME NEW r \in Callers, NEW a \in Accounts, call[r].pc \notin Updating
  PROVE  ~Pending(r, a)
  BY DEF Pending

\* Students that are not there get rows: nobody has an account of theirs yet.
LEMMA RowsEntered ==
  ASSUME AccessInv, NEW r \in Callers, call[r].pc \notin Updating, Knows(r)',
         call' \in [Callers -> CallRow], begun' \in 0 .. MaxRequests,
         \A q \in Callers \ {r} : call'[q] = call[q],
         student' \in [Students -> StudentRow],
         \A s \in Students :
           student'[s] # student[s] => ~Enrolled(s) /\ student'[s].status = "ACTIVE",
         UNCHANGED <<account, portalOpen, tokens, drift>>
  PROVE  AccessInv' /\ TokensKept
<1>1. AccessTyped'
  BY DEF AccessInv, AccessTyped
<1>2. \A s \in Students : Enrolled(s) => Enrolled(s)' /\ student'[s] = student[s]
  BY DEF Enrolled
<1>3. Rooted'
  <2>1. \A a \in Accounts : account[a].exists => Enrolled(a[1]) /\ a[1] \in Students
    BY AccessRows DEF AccessInv, Rooted
  <2> QED
    BY <1>2, <2>1 DEF Rooted
<1>4. ASSUME NEW q \in Callers \ {r} PROVE Untouched(q)
  <2>1. call[q].on \in SUBSET Students /\ call[q].type \in {"STUDENT", "PARENT"}
    BY DEF AccessInv, AccessTyped, CallRow
  <2>2. ASSUME NEW s \in call[q].on, NEW t \in {"STUDENT", "PARENT"}, Allowed(<<s, t>>)
        PROVE  Allowed(<<s, t>>)'
    <3>1. Enrolled(s)
      BY <2>1, <2>2, AccessRows DEF AccessInv, Rooted, Allowed
    <3> QED
      BY <1>2, <2>1, <2>2, <3>1 DEF Allowed
  <2> QED
    BY <1>2, <2>1, <2>2 DEF Untouched
<1>5. OthersKept(r)
  BY <1>4, MarkedOrUntouched
<1>6. ASSUME NEW a \in Accounts PROVE Still(r, a)
  <2>1. account[a].exists => student'[a[1]] = student[a[1]]
    BY <1>2, AccessRows DEF AccessInv, Rooted
  <2> QED
    BY <2>1, NotPending DEF Still
<1> QED
  BY <1>1, <1>3, <1>5, <1>6, AccessKept DEF TokensKept

LEMMA StudentCreated ==
  ASSUME AccessInv, NEW r \in Callers, NEW s \in Students, NEW e \in Emails \cup {NoEmail},
         NEW g \in Guardians \cup {NoEmail}, CreateStudent(r, s, e, g)
  PROVE  AccessInv' /\ TokensKept
<1>1. /\ Begin(r) /\ ~Enrolled(s) /\ student' = [student EXCEPT ![s] = Row(e, g)]
      /\ UNCHANGED <<account, portalOpen, call, tokens, drift>>
  BY DEF CreateStudent, Enrolled
<1>2. /\ student' \in [Students -> StudentRow]
      /\ \A u \in Students : student'[u] # student[u] => u = s /\ student'[u].status = "ACTIVE"
  BY <1>1, NewRow DEF AccessInv, AccessTyped
<1>3. call \in [Callers -> CallRow] /\ Knows(r)'
  BY <1>1 DEF AccessInv, AccessTyped, Begin, Knows, Updating, Granting, Entering
<1> QED
  BY <1>1, <1>2, <1>3, Beginning, RowsEntered

LEMMA ImportWritten ==
  ASSUME AccessInv, NEW r \in Callers, ImportWrite(r)
  PROVE  AccessInv' /\ TokensKept
<1>1. /\ call[r].pc = "import" /\ call' = [call EXCEPT ![r] = Unused]
      /\ UNCHANGED <<account, portalOpen, tokens, begun, drift>>
      /\ call[r].rows \in [call[r].on -> Emails \cup {NoEmail}]
  BY DEF ImportWrite, AccessInv, Knows
<1>2. /\ call' \in [Callers -> CallRow] /\ call'[r] = Unused
      /\ \A q \in Callers \ {r} : call'[q] = call[q]
  BY <1>1, UnusedTyped DEF AccessInv, AccessTyped
<1>3. \/ student' = student
      \/ /\ \A s \in call[r].on : ~Enrolled(s)
         /\ student' = [s \in Students |-> IF s \in call[r].on THEN Row(call[r].rows[s], NoEmail)
                                           ELSE student[s]]
  BY DEF ImportWrite
<1>4. \A s \in call[r].on : /\ Row(call[r].rows[s], NoEmail) \in StudentRow
                            /\ Row(call[r].rows[s], NoEmail).status = "ACTIVE"
  BY <1>1, NewRow
<1>5. /\ student' \in [Students -> StudentRow]
      /\ \A s \in Students :
           student'[s] # student[s] => ~Enrolled(s) /\ student'[s].status = "ACTIVE"
  BY <1>3, <1>4 DEF AccessInv, AccessTyped
<1>6. call[r].pc \notin Updating /\ begun' \in 0 .. MaxRequests
  BY <1>1 DEF Updating, AccessInv, AccessTyped
<1> QED
  BY <1>1, <1>2, <1>5, <1>6, Through, RowsEntered

LEMMA StudentUpdated ==
  ASSUME AccessInv, NEW r \in Callers, NEW s \in Students, NEW e \in Emails \cup {NoEmail},
         NEW g \in Guardians \cup {NoEmail}, NEW named \in SUBSET {"STUDENT", "PARENT"},
         NEW status \in {"ACTIVE", "SUSPENDED"}, UpdateStudent(r, s, e, g, named, status)
  PROVE  AccessInv' /\ TokensKept
<1> DEFINE row == [email    |-> IF "STUDENT" \in named THEN e ELSE student[s].email,
                   guardian |-> IF "PARENT" \in named THEN g ELSE student[s].guardian,
                   status   |-> status]
           x == [Unused EXCEPT !.pc = "updateStudent", !.on = {s}, !.email = e, !.guardian = g]
           hit(q) == /\ About(q, {s}) /\ call[q].pc # "import"
                     /\ call[q].pc \in {"login", "refresh"} => status # "ACTIVE"
<1>1. /\ student[s] \in StudentRow /\ row \in StudentRow /\ row.status = status
      /\ row.email = student[s].email \/ row.email = e
      /\ row.guardian = student[s].guardian \/ row.guardian = g
      /\ e # NoEmail => row.email = e
      /\ g # NoEmail => row.guardian = g
  <2>1. student[s] \in StudentRow
    BY DEF AccessInv, AccessTyped
  <2>2. /\ "STUDENT" \in named \/ e = NoEmail
        /\ "PARENT" \in named \/ g = NoEmail
    BY DEF UpdateStudent
  <2> QED
    BY <2>1, <2>2 DEF StudentRow
<1>2. /\ x \in CallRow /\ x.pc = "updateStudent" /\ x.on = {s} /\ x.email = e /\ x.guardian = g
  BY UnusedTyped, {s} \in SUBSET Students DEF CallRow, Updating
<1>3. /\ Begin(r) /\ Enrolled(s) /\ student' = [student EXCEPT ![s] = row]
      /\ call' = [[q \in Callers |-> IF call[q].pc # "idle" /\ hit(q)
                                      THEN [call[q] EXCEPT !.crossed = TRUE] ELSE call[q]]
                   EXCEPT ![r] = x]
      /\ UNCHANGED <<account, portalOpen, tokens, drift>>
  BY DEF UpdateStudent, Cross, AccessInv, AccessTyped
<1> HIDE DEF row, x
<1>4. /\ student' \in [Students -> StudentRow] /\ student'[s] = row
      /\ \A u \in Students \ {s} : student'[u] = student[u]
  BY <1>1, <1>3 DEF AccessInv, AccessTyped
<1>5. call'[r] = x /\ DOMAIN call' = Callers /\ call' = [q \in Callers |-> call'[q]]
  BY <1>3
<1>6. ASSUME NEW q \in Callers \ {r}
      PROVE  \/ call'[q] = [call[q] EXCEPT !.crossed = TRUE]
             \/ call'[q] = call[q] /\ Untouched(q)
  <2>1. CASE call[q].pc # "idle" /\ hit(q)
    BY <1>3, <2>1
  <2>2. CASE ~(call[q].pc # "idle" /\ hit(q))
    <3>1. call'[q] = call[q]
      BY <1>3, <2>2
    <3>2. call[q].on \in SUBSET Students /\ call[q].type \in {"STUDENT", "PARENT"}
      BY DEF AccessInv, AccessTyped, CallRow
    <3>3. \A u \in Students : student'[u].status \in {student[u].status, status}
                              /\ (u # s => student'[u].status = student[u].status)
      BY <1>1, <1>4
    <3>4. call[q].pc \in Updating \cup Granting => s \notin call[q].on
      BY <2>2 DEF About, Updating, Granting
    <3>5. call[q].pc \in Entering => \A a \in Accounts : a[1] \in call[q].on =>
            (Allowed(a) => Allowed(a)' /\ account'[a].token = account[a].token)
      <4>1. call[q].pc \in Entering => s \notin call[q].on \/ status = "ACTIVE"
        BY <2>2 DEF About, Entering
      <4> QED
        BY <1>3, <3>3, <4>1, AccessRows DEF Allowed
    <3>6. \A u \in call[q].on : /\ <<u, call[q].type>> \in Accounts
                                /\ <<u, call[q].type>>[1] \in call[q].on
      BY <3>2, AccessRows
    <3>7. call[q].pc \in Updating \cup Granting => \A u \in call[q].on : student'[u] = student[u]
      BY <1>4, <3>2, <3>4
    <3> QED
      BY <3>1, <3>5, <3>6, <3>7 DEF Untouched, Enrolled
  <2> QED
    BY <2>1, <2>2
<1>7. OthersKept(r)
  BY <1>6, MarkedOrUntouched
<1>8. call' \in [Callers -> CallRow]
  BY <1>2, <1>5, <1>7 DEF OthersKept, GoesOn
<1>9. AccessTyped' /\ Rooted'
  <2>1. \A u \in Students : Enrolled(u) => Enrolled(u)'
    BY <1>1, <1>4 DEF Enrolled
  <2> QED
    BY <1>3, <1>4, <1>8, <2>1, Beginning, AccessRows DEF AccessInv, AccessTyped, Rooted, Enrolled
<1>10. Knows(r)'
  BY <1>1, <1>2, <1>3, <1>4, <1>5 DEF Knows, StillTrue, Enrolled, Updating, Granting, Entering
<1>11. ASSUME NEW a \in Accounts PROVE Still(r, a) \/ Follows(a)'
  <2>1. a[1] \in Students /\ a[2] \in {"STUDENT", "PARENT"}
    BY AccessRows
  <2>2. CASE AddressOf(student'[a[1]], a[2]) = AddressOf(student[a[1]], a[2])
    BY <1>3, <2>2, Beginning, NotPending DEF Still
  <2>3. CASE AddressOf(student'[a[1]], a[2]) # AddressOf(student[a[1]], a[2])
    <3>1. a[1] = s /\ AddressOf(student'[s], a[2]) = AddressOf(x, a[2])
      BY <1>1, <1>2, <1>4, <2>1, <2>3 DEF AddressOf
    <3>2. CASE AddressOf(x, a[2]) = NoEmail
      BY <3>1, <3>2 DEF Follows
    <3>3. CASE AddressOf(x, a[2]) # NoEmail
      <4>1. Pending(r, a)'
        BY <1>2, <1>5, <3>1, <3>3 DEF Pending, Updating
      <4> QED
        BY <4>1 DEF Follows
    <3> QED
      BY <3>2, <3>3
  <2> QED
    BY <2>2, <2>3
<1> QED
  BY <1>3, <1>7, <1>9, <1>10, <1>11, AccessKept DEF TokensKept

\* The accounts a request on student s holds, and those of others.
LEMMA AccountOf ==
  ASSUME AccessInv, NEW q \in Callers
  PROVE  /\ call[q] \in CallRow /\ call[q].on \in SUBSET Students
         /\ \A u \in call[q].on : <<u, call[q].type>> \in Accounts
         /\ \A t \in {"STUDENT", "PARENT"} : AddressOf(call[q], t) \in Addresses
<1>1. call[q] \in CallRow
  BY DEF AccessInv, AccessTyped
<1>2. /\ call[q].on \in SUBSET Students /\ call[q].type \in {"STUDENT", "PARENT"}
      /\ call[q].email \in Addresses /\ call[q].guardian \in Addresses
  BY <1>1 DEF CallRow, Addresses
<1>3. \A u \in call[q].on : <<u, call[q].type>> \in Accounts
  BY <1>2 DEF Accounts
<1> QED
  BY <1>1, <1>2, <1>3 DEF AddressOf

EntryStays(a) ==
  account'[a].token = account[a].token /\ (account[a].active => account'[a].active)

\* A request writes the account a or ends: the students and what others may enter stay.
Wrote(r, a) ==
  /\ UNCHANGED <<student, portalOpen>>
  /\ tokens' \in 0 .. MaxTokens /\ begun' \in 0 .. MaxRequests
  /\ \A b \in Accounts \ {a} : account'[b] = account[b]
  /\ account'[a] \in AccountRow /\ DOMAIN account' = Accounts
  /\ account' = [b \in Accounts |-> account'[b]]
  /\ account[a].exists => account'[a].exists
  /\ account'[a].exists => Enrolled(a[1])
  /\ call' \in [Callers -> CallRow] /\ drift' \in SUBSET Accounts
  /\ \A q \in Callers \ {r} : \/ call'[q] = [call[q] EXCEPT !.crossed = TRUE]
                              \/ call'[q] = call[q] /\ (AtDoor(q, a) => EntryStays(a))

LEMMA AccountWritten ==
  ASSUME AccessInv, NEW r \in Callers, NEW a \in Accounts, Wrote(r, a), Knows(r)',
         \A b \in Accounts : Still(r, b) \/ Follows(b)'
  PROVE  /\ AccessInv'
         /\ account'[a].token \in {account[a].token, 0} => TokensKept
<1>1. ASSUME NEW q \in Callers \ {r}
      PROVE  \/ call'[q] = [call[q] EXCEPT !.crossed = TRUE]
             \/ call'[q] = call[q] /\ Untouched(q)
  <2>1. CASE call'[q] = [call[q] EXCEPT !.crossed = TRUE]
    BY <2>1
  <2>2. CASE call'[q] = call[q] /\ (AtDoor(q, a) => EntryStays(a))
    <3>1. ASSUME call[q].pc \in Entering, NEW u \in call[q].on, Allowed(<<u, call[q].type>>)
          PROVE  /\ Allowed(<<u, call[q].type>>)'
                 /\ account'[<<u, call[q].type>>].token = account[<<u, call[q].type>>].token
      <4> PICK b \in Accounts : b = <<u, call[q].type>> /\ b[1] = u /\ b[2] = call[q].type
        BY AccountOf
      <4>1. call'[q] = call[q]
        BY <2>2
      <4>2. Allowed(b) /\ AtDoor(q, b)
        BY <3>1 DEF AtDoor, Entering
      <4>3. Allowed(b)' /\ account'[b].token = account[b].token
        <5>1. CASE b # a
          BY <4>2, <5>1 DEF Wrote, Allowed
        <5>2. CASE b = a
          BY <2>2, <4>2, <5>2 DEF Wrote, Allowed, EntryStays
        <5> QED
          BY <5>1, <5>2
      <4> QED
        BY <4>1, <4>3
    <3>2. UNCHANGED student
      BY DEF Wrote
    <3> QED
      BY <2>2, <3>1, <3>2 DEF Untouched, Enrolled
  <2> QED
    BY <2>1, <2>2 DEF Wrote
<1>2. OthersKept(r)
  BY <1>1, MarkedOrUntouched
<1>3. AccessTyped'
  <2>1. account' \in [Accounts -> AccountRow]
    <3>1. \A b \in Accounts : account'[b] \in AccountRow
      BY DEF Wrote, AccessInv, AccessTyped
    <3> QED
      BY <3>1 DEF Wrote
  <2> QED
    BY <2>1 DEF Wrote, AccessInv, AccessTyped
<1>4. Rooted'
  BY DEF Wrote, AccessInv, Rooted, Enrolled
<1>5. account'[a].token \in {account[a].token, 0} => TokensKept
  BY DEF Wrote, TokensKept
<1> QED
  BY <1>2, <1>3, <1>4, <1>5, AccessKept

LEMMA AccountUpdated ==
  ASSUME AccessInv, NEW r \in Callers, UpdateAccount(r)
  PROVE  AccessInv' /\ TokensKept
<1>1. /\ call[r] \in CallRow /\ call[r].pc \in Updating /\ Knows(r)
      /\ UNCHANGED <<student, portalOpen, tokens, begun>>
  BY DEF AccessInv, AccessTyped, UpdateAccount, Updating
<1>2. PICK s \in Students : call[r].on = {s}
  BY <1>1 DEF Knows, Updating
<1> DEFINE first == call[r].pc = "updateStudent"
           type == IF first THEN "STUDENT" ELSE "PARENT"
<1>0. type \in {"STUDENT", "PARENT"}
  OBVIOUS
<1> PICK a \in Accounts : a = <<s, type>> /\ a[1] = s /\ a[2] = type
  <2> HIDE DEF type
  <2> QED
    BY <1>0, AccessRows
<1> PICK e \in Addresses : e = AddressOf(call[r], type)
  BY AccountOf
<1> DEFINE touches == e # NoEmail /\ account[a].exists
           refused == touches /\ ~AccountEmailFree(a, LowerCase[e])
           next == [call[r] EXCEPT !.pc = "updateParent"]
           row == [account[a] EXCEPT !.email = LowerCase[e]]
<1>3. /\ next \in CallRow /\ next.pc = "updateParent" /\ next.on = {s}
      /\ next.email = call[r].email /\ next.guardian = call[r].guardian
      /\ next.crossed = call[r].crossed
  BY <1>1, <1>2 DEF CallRow, Updating
<1>4. /\ row \in AccountRow /\ row.email = LowerCase[e] /\ row.exists = account[a].exists
      /\ row.token = account[a].token /\ row.active = account[a].active
  <2>1. account[a] \in AccountRow
    BY DEF AccessInv, AccessTyped
  <2>2. LowerCase[e] \in Addresses
    BY DEF Addresses
  <2> QED
    BY <2>1, <2>2 DEF AccountRow
<1>5. /\ account' = IF touches /\ ~refused THEN [account EXCEPT ![a] = row] ELSE account
      /\ drift' = IF refused /\ first /\ call[r].guardian # NoEmail
                    THEN drift \cup {a, <<s, "PARENT">>}
                  ELSE IF touches THEN Drifted(a, r, refused) ELSE drift
      /\ call' = [call EXCEPT ![r] = IF refused \/ ~first THEN Unused ELSE next]
  BY <1>1, <1>2 DEF UpdateAccount
<1> HIDE DEF next, row
<1>6. /\ \A q \in Callers \ {r} : call'[q] = call[q]
      /\ call'[r] = IF refused \/ ~first THEN Unused ELSE next
      /\ call' \in [Callers -> CallRow]
  BY <1>3, <1>5, UnusedTyped DEF AccessInv, AccessTyped
<1>7. drift' \in SUBSET Accounts
  <2>1. drift \in SUBSET Accounts /\ <<s, "PARENT">> \in Accounts
    BY AccessRows DEF AccessInv, AccessTyped
  <2> QED
    BY <1>5, <2>1 DEF Drifted
<1>8. /\ \A b \in Accounts \ {a} : account'[b] = account[b]
      /\ account'[a] = IF touches /\ ~refused THEN row ELSE account[a]
      /\ DOMAIN account' = Accounts /\ account' = [b \in Accounts |-> account'[b]]
  BY <1>5 DEF AccessInv, AccessTyped
<1>9. Wrote(r, a)
  <2>1. account[a] \in AccountRow /\ (account[a].exists => Enrolled(a[1]))
        /\ tokens \in 0 .. MaxTokens /\ begun \in 0 .. MaxRequests
    BY DEF AccessInv, AccessTyped, Rooted
  <2> QED
    BY <1>1, <1>4, <1>6, <1>7, <1>8, <2>1 DEF Wrote, EntryStays
<1>10. Knows(r)'
  <2>1. CASE refused \/ ~first
    BY <1>6, <2>1, Through
  <2>2. CASE ~(refused \/ ~first)
    BY <1>1, <1>2, <1>3, <1>6, <2>2 DEF Knows, StillTrue, Enrolled, Updating, Granting, Entering
  <2> QED
    BY <2>1, <2>2
<1>11. ASSUME NEW b \in Accounts PROVE Still(r, b) \/ Follows(b)'
  <2>1. b[1] \in Students /\ b[2] \in {"STUDENT", "PARENT"} /\ b = <<b[1], b[2]>>
    BY AccessRows
  <2>2. CASE b = a /\ ~touches
    <3>1. ~account[a].exists \/ ~Pending(r, a)
      BY <2>2 DEF Pending
    <3> QED
      BY <1>1, <1>5, <1>8, <2>2, <3>1 DEF Still, Follows
  <2>3. CASE b = a /\ touches
    <3>1. CASE refused \/ call[r].crossed
      <4>1. a \in drift'
        BY <1>5, <2>3, <3>1 DEF Drifted
      <4> QED
        BY <2>3, <4>1 DEF Follows
    <3>2. CASE ~refused /\ ~call[r].crossed
      <4>1. account'[a].email = LowerCase[e]
        BY <1>4, <1>8, <2>3, <3>2
      <4>2. StillTrue(r, s)
        BY <1>1, <1>2, <3>2 DEF Knows
      <4>3. e = AddressOf(student[s], type)
        BY <1>1, <2>3, <4>2 DEF StillTrue, AddressOf
      <4> QED
        BY <1>1, <2>3, <4>1, <4>3 DEF Follows
    <3> QED
      BY <3>1, <3>2
  <2>4. CASE b # a
    <3>1. b \in drift => b \in drift'
      BY <1>5, <2>4 DEF Drifted
    <3>2. CASE Pending(r, b) /\ b \notin drift'
      <4>1. b[1] = s /\ b[2] # type
        BY <1>2, <2>1, <2>4, <3>2 DEF Pending
      <4>2. first /\ b[2] = "PARENT" /\ b = <<s, "PARENT">> /\ call[r].guardian # NoEmail
        BY <1>1, <2>1, <3>2, <4>1 DEF Pending, Updating, AddressOf
      <4>3. ~refused
        BY <1>5, <3>2, <4>2
      <4>4. Pending(r, b)'
        BY <1>3, <1>6, <4>1, <4>2, <4>3 DEF Pending, Updating, AddressOf
      <4> QED
        BY <1>1, <1>8, <2>4, <3>1, <4>4 DEF Still
    <3>3. CASE b \in drift'
      BY <3>3 DEF Follows
    <3>4. CASE ~Pending(r, b)
      BY <1>1, <1>8, <2>4, <3>1, <3>4 DEF Still
    <3> QED
      BY <3>2, <3>3, <3>4
  <2> QED
    BY <2>2, <2>3, <2>4
<1>12. account'[a].token = account[a].token
  BY <1>4, <1>8
<1> QED
  BY <1>9, <1>10, <1>11, <1>12, AccountWritten

LEMMA AccessWritten ==
  ASSUME AccessInv, NEW r \in Callers, AccessWrite(r)
  PROVE  AccessInv' /\ TokensKept
<1>1. /\ call[r] \in CallRow /\ call[r].pc \in {"writeStudent", "writeParent"} /\ Knows(r)
      /\ UNCHANGED <<student, portalOpen, tokens, begun>>
  BY DEF AccessInv, AccessTyped, AccessWrite
<1>2. PICK s \in Students : call[r].on = {s}
  BY <1>1 DEF Knows
<1> DEFINE type == IF call[r].pc = "writeStudent" THEN "STUDENT" ELSE "PARENT"
           on == IF type \in call[r].wants THEN call[r].enabled ELSE call[r].active
<1>0. type \in {"STUDENT", "PARENT"} /\ on \in BOOLEAN
  BY <1>1 DEF CallRow
<1> PICK a \in Accounts : a = <<s, type>> /\ a[1] = s /\ a[2] = type
  <2> HIDE DEF type
  <2> QED
    BY <1>0, AccessRows
<1> PICK e \in Addresses : e = AddressOf(call[r], type)
  BY AccountOf
<1> DEFINE x == IF type = "PARENT" THEN Unused
                ELSE [call[r] EXCEPT !.pc = "findParent", !.exists = FALSE, !.active = FALSE,
                                     !.email = NoEmail]
           row == [exists |-> TRUE, email |-> LowerCase[e], active |-> on,
                   token |-> account[a].token]
           marked == [q \in Callers |-> IF call[q].pc # "idle" /\ AtDoor(q, a)
                                        THEN [call[q] EXCEPT !.crossed = TRUE] ELSE call[q]]
<1>3. \/ account' = account /\ drift' = drift /\ call' = [call EXCEPT ![r] = Unused]
      \/ /\ Enrolled(s)
         /\ account' = [account EXCEPT ![a] = row] /\ drift' = Drifted(a, r, FALSE)
         /\ call' = [IF on THEN call ELSE marked EXCEPT ![r] = x]
  <2> DEFINE refused == \/ ~Enrolled(s) \/ call[r].exists # account[a].exists
                        \/ ~AccountEmailFree(a, LowerCase[e])
             others == IF on \/ refused THEN call ELSE Cross(call, LAMBDA q : AtDoor(q, a))
  <2>1. /\ account' = IF refused THEN account ELSE [account EXCEPT ![a] = row]
        /\ drift' = IF refused THEN drift ELSE Drifted(a, r, FALSE)
        /\ call' = [others EXCEPT ![r] = IF refused \/ type = "PARENT" THEN Unused
                                         ELSE [@ EXCEPT !.pc = "findParent", !.exists = FALSE,
                                                        !.active = FALSE, !.email = NoEmail]]
    BY <1>1, <1>2 DEF AccessWrite
  <2>2. Cross(call, LAMBDA q : AtDoor(q, a)) = marked
    BY DEF Cross
  <2>3. others[r] = call[r]
    BY <1>1, <2>2 DEF AtDoor
  <2>4. others = IF on \/ refused THEN call ELSE marked
    BY <2>2
  <2>5. r \in DOMAIN others
    BY <2>4 DEF AccessInv, AccessTyped
  <2> HIDE DEF others, row, on, type, marked
  <2>6. CASE refused
    BY <2>1, <2>4, <2>6
  <2>7. CASE ~refused
    <3>1. call' = [others EXCEPT ![r] = x]
      BY <2>1, <2>3, <2>7
    <3> QED
      BY <2>1, <2>4, <2>7, <3>1
  <2> QED
    BY <2>6, <2>7
<1>4. /\ x \in CallRow
      /\ \/ x.pc = "idle"
         \/ /\ x.pc = "findParent" /\ x.on = {s} /\ x.guardian = call[r].guardian
            /\ x.crossed = call[r].crossed
  <2>1. CASE type = "PARENT"
    BY <2>1, UnusedTyped
  <2>2. CASE type # "PARENT"
    BY <1>1, <1>2, <2>2 DEF CallRow, Granting
  <2> QED
    BY <2>1, <2>2
<1>5. row \in AccountRow /\ row.exists /\ row.email = LowerCase[e] /\ row.active = on
      /\ row.token = account[a].token
  <2>1. account[a] \in AccountRow
    BY DEF AccessInv, AccessTyped
  <2>2. LowerCase[e] \in Addresses
    BY DEF Addresses
  <2> QED
    BY <1>0, <2>1, <2>2 DEF AccountRow
<1>6. \A b \in Accounts : ~Pending(r, b)
  BY <1>1, NotPending DEF Updating
<1> HIDE DEF x, row, on, type
<1>7. CASE account' = account /\ drift' = drift /\ call' = [call EXCEPT ![r] = Unused]
  <2>1. Unused \in CallRow /\ begun' \in 0 .. MaxRequests /\ call'[r] = Unused
    BY <1>1, <1>7, UnusedTyped DEF AccessInv, AccessTyped
  <2>2. Knows(r)'
    BY <2>1, Through
  <2> QED
    BY <1>1, <1>7, <2>1, <2>2, RowsRead DEF Updating
<1>8. CASE /\ Enrolled(s)
           /\ account' = [account EXCEPT ![a] = row] /\ drift' = Drifted(a, r, FALSE)
           /\ call' = [IF on THEN call ELSE marked EXCEPT ![r] = x]
  <2>1. /\ account'[a] = row /\ \A b \in Accounts \ {a} : account'[b] = account[b]
        /\ DOMAIN account' = Accounts /\ account' = [b \in Accounts |-> account'[b]]
    BY <1>8 DEF AccessInv, AccessTyped
  <2>2. /\ call'[r] = x /\ DOMAIN call' = Callers /\ call' = [q \in Callers |-> call'[q]]
        /\ \A q \in Callers \ {r} : call'[q] = IF on THEN call[q] ELSE marked[q]
    BY <1>8 DEF AccessInv, AccessTyped
  <2>3. ASSUME NEW q \in Callers \ {r}
        PROVE  /\ call'[q] \in CallRow
               /\ \/ call'[q] = [call[q] EXCEPT !.crossed = TRUE]
                  \/ call'[q] = call[q] /\ (AtDoor(q, a) => EntryStays(a))
    <3>1. CASE on
      BY <1>5, <2>1, <2>2, <3>1 DEF EntryStays, AccessInv, AccessTyped
    <3>2. CASE ~on /\ AtDoor(q, a)
      <4>1. call[q].pc # "idle"
        BY <3>2 DEF AtDoor
      <4>2. call'[q] = [call[q] EXCEPT !.crossed = TRUE]
        BY <2>2, <3>2, <4>1
      <4> QED
        BY <4>2, MarkedGoesOn DEF GoesOn
    <3>3. CASE ~on /\ ~AtDoor(q, a)
      BY <2>2, <3>3 DEF AccessInv, AccessTyped
    <3> QED
      BY <3>1, <3>2, <3>3
  <2>4. call' \in [Callers -> CallRow]
    <3>1. \A q \in Callers : call'[q] \in CallRow
      BY <1>4, <2>2, <2>3
    <3> QED
      BY <2>2, <3>1
  <2>5. drift' \in SUBSET Accounts
    BY <1>8 DEF Drifted, AccessInv, AccessTyped
  <2>6. Wrote(r, a)
    BY <1>1, <1>5, <1>8, <2>1, <2>3, <2>4, <2>5 DEF Wrote, AccessInv, AccessTyped
  <2>7. Knows(r)'
    BY <1>1, <1>2, <1>4, <1>8, <2>2
       DEF Knows, StillTrue, Enrolled, Updating, Granting, Entering
  <2>8. ASSUME NEW b \in Accounts PROVE Still(r, b) \/ Follows(b)'
    <3>1. CASE b # a
      <4>1. b \in drift => b \in drift'
        BY <1>8, <3>1 DEF Drifted
      <4> QED
        BY <1>1, <1>6, <2>1, <3>1, <4>1 DEF Still
    <3>2. CASE b = a /\ call[r].crossed
      <4>1. a \in drift'
        BY <1>8, <3>2 DEF Drifted
      <4> QED
        BY <3>2, <4>1 DEF Follows
    <3>3. CASE b = a /\ ~call[r].crossed
      <4>1. StillTrue(r, s)
        BY <1>1, <1>2, <3>3 DEF Knows, Granting
      <4>2. e = AddressOf(student[s], type)
        BY <1>1, <4>1 DEF StillTrue, AddressOf, Granting, type
      <4> QED
        BY <1>1, <1>5, <2>1, <3>3, <4>2 DEF Follows
    <3> QED
      BY <3>1, <3>2, <3>3
  <2>9. account'[a].token = account[a].token
    BY <1>5, <2>1
  <2> QED
    BY <2>6, <2>7, <2>8, <2>9, AccountWritten
<1> QED
  BY <1>3, <1>7, <1>8

\* The session of an account is replaced or ended: whoever is at its door is marked.
LEMMA TokenWritten ==
  ASSUME AccessInv, NEW r \in Callers, NEW a \in Accounts, account[a].exists,
         NEW token \in 0 .. MaxTokens, account' = [account EXCEPT ![a].token = token],
         NEW x \in CallRow, x.pc = "idle", call[r].pc \notin Updating,
         call' = [[q \in Callers |-> IF call[q].pc # "idle" /\ AtDoor(q, a)
                                      THEN [call[q] EXCEPT !.crossed = TRUE] ELSE call[q]]
                   EXCEPT ![r] = x],
         tokens' \in 0 .. MaxTokens, begun' \in 0 .. MaxRequests,
         UNCHANGED <<student, portalOpen, drift>>
  PROVE  /\ AccessInv'
         /\ token \in {account[a].token, 0} => TokensKept
<1> DEFINE row == [account[a] EXCEPT !.token = token]
<1>1. /\ row \in AccountRow /\ row.token = token /\ row.exists = account[a].exists
      /\ row.email = account[a].email
  <2>1. account[a] \in AccountRow
    BY DEF AccessInv, AccessTyped
  <2> QED
    BY <2>1 DEF AccountRow
<1>2. account' = [account EXCEPT ![a] = row]
  BY DEF AccessInv, AccessTyped
<1> HIDE DEF row
<1>3. /\ account'[a] = row /\ \A b \in Accounts \ {a} : account'[b] = account[b]
      /\ DOMAIN account' = Accounts /\ account' = [b \in Accounts |-> account'[b]]
  BY <1>2 DEF AccessInv, AccessTyped
<1>4. /\ call'[r] = x /\ DOMAIN call' = Callers /\ call' = [q \in Callers |-> call'[q]]
  OBVIOUS
<1>5. ASSUME NEW q \in Callers \ {r}
      PROVE  /\ call'[q] \in CallRow
             /\ \/ call'[q] = [call[q] EXCEPT !.crossed = TRUE]
                \/ call'[q] = call[q] /\ (AtDoor(q, a) => EntryStays(a))
  <2>1. CASE AtDoor(q, a)
    <3>1. call'[q] = [call[q] EXCEPT !.crossed = TRUE]
      BY <2>1 DEF AtDoor
    <3> QED
      BY <3>1, MarkedGoesOn DEF GoesOn
  <2>2. CASE ~AtDoor(q, a)
    BY <2>2 DEF AccessInv, AccessTyped
  <2> QED
    BY <2>1, <2>2
<1>6. call' \in [Callers -> CallRow]
  <2>1. \A q \in Callers : call'[q] \in CallRow
    BY <1>4, <1>5
  <2> QED
    BY <1>4, <2>1
<1>7. Wrote(r, a)
  BY <1>1, <1>3, <1>5, <1>6 DEF Wrote, AccessInv, AccessTyped, Rooted
<1>8. Knows(r)'
  BY <1>4 DEF Knows, Updating, Granting, Entering
<1>9. \A b \in Accounts : Still(r, b)
  BY <1>1, <1>3, NotPending DEF Still
<1> QED
  BY <1>1, <1>3, <1>7, <1>8, <1>9, AccountWritten

\* A session is stored for cause: what SessionStoredForCause asks of account a.
Cause(a) ==
  \E r \in Callers :
    /\ AtDoor(r, a)
    /\ \/ call[r].crossed
       \/ /\ Allowed(a)
          /\ call[r].pc = "login" \/ call[r].token = account[a].token

LEMMA SessionCreated ==
  ASSUME AccessInv, NEW r \in Callers, CreateSession(r)
  PROVE  /\ AccessInv'
         /\ \A a \in Accounts : account'[a].token \notin {account[a].token, 0} => Cause(a)
<1>1. /\ call[r] \in CallRow /\ call[r].pc \in Entering /\ Knows(r)
      /\ UNCHANGED <<student, portalOpen, begun, drift>>
      /\ tokens \in 0 .. MaxTokens /\ tokens < MaxTokens /\ begun \in 0 .. MaxRequests
  BY DEF AccessInv, AccessTyped, CreateSession, Entering
<1>2. PICK s \in Students : call[r].on = {s}
  BY <1>1 DEF Knows, Entering
<1> PICK t \in {"STUDENT", "PARENT"} : t = call[r].type
  BY <1>1 DEF CallRow
<1> PICK a \in Accounts : a = <<s, t>> /\ a[1] = s /\ a[2] = t
  BY AccountNamed
<1>3. AtDoor(r, a) /\ call[r].pc \notin Updating
  BY <1>1, <1>2 DEF AtDoor, Entering, Updating
<1>4. CASE ~account[a].exists
  <2>1. account' = account /\ tokens' = tokens /\ call' = [call EXCEPT ![r] = Unused]
    BY <1>2, <1>4 DEF CreateSession
  <2>2. call'[r] = Unused
    BY <2>1 DEF AccessInv, AccessTyped
  <2>3. Knows(r)'
    BY <2>2, Through
  <2>4. AccessInv'
    BY <1>1, <1>3, <2>1, <2>3, UnusedTyped, RowsRead
  <2> QED
    BY <2>1, <2>4
<1>5. CASE account[a].exists
  <2>1. /\ account' = [account EXCEPT ![a].token = tokens + 1] /\ tokens' = tokens + 1
        /\ call' = [[q \in Callers |-> IF call[q].pc # "idle" /\ AtDoor(q, a)
                                        THEN [call[q] EXCEPT !.crossed = TRUE] ELSE call[q]]
                     EXCEPT ![r] = Unused]
    BY <1>2, <1>5 DEF CreateSession, Cross
  <2>2. tokens + 1 \in 0 .. MaxTokens
    BY <1>1
  <2>3. AccessInv'
    BY <1>1, <1>3, <1>5, <2>1, <2>2, UnusedTyped, TokenWritten
  <2>4. \A b \in Accounts \ {a} : account'[b] = account[b]
    BY <2>1 DEF AccessInv, AccessTyped
  <2>5. Cause(a)
    <3>1. ~call[r].crossed => StillAllowed(r, a)
      BY <1>1, <1>2 DEF Knows
    <3> QED
      BY <1>3, <3>1 DEF Cause, StillAllowed
  <2> QED
    BY <2>3, <2>4, <2>5
<1> QED
  BY <1>4, <1>5

LEMMA LoggedOut ==
  ASSUME AccessInv, NEW r \in Callers, NEW a \in Accounts, Logout(r, a)
  PROVE  AccessInv' /\ TokensKept
<1>1. /\ Begin(r) /\ account[a].exists /\ account' = [account EXCEPT ![a].token = 0]
      /\ UNCHANGED <<student, portalOpen, tokens, drift>>
  BY DEF Logout
<1>2. call[r].pc = "idle" /\ call[r] \in CallRow /\ tokens' \in 0 .. MaxTokens
  BY <1>1 DEF Begin, AccessInv, AccessTyped
<1>3. call' = [q \in Callers |-> IF call[q].pc # "idle" /\ AtDoor(q, a)
                                  THEN [call[q] EXCEPT !.crossed = TRUE] ELSE call[q]]
  BY DEF Logout, Cross
<1>4. call' = [[q \in Callers |-> IF call[q].pc # "idle" /\ AtDoor(q, a)
                                   THEN [call[q] EXCEPT !.crossed = TRUE] ELSE call[q]]
                EXCEPT ![r] = call[r]]
  BY <1>2, <1>3
<1>5. 0 \in 0 .. MaxTokens
  OBVIOUS
<1> QED
  BY <1>1, <1>2, <1>4, <1>5, Beginning, TokenWritten

\* The office changes students: requests about them are marked where it matters.
LEMMA StudentsChanged ==
  ASSUME AccessInv, NEW r \in Callers, Begin(r),
         student' \in [Students -> StudentRow], account' \in [Accounts -> AccountRow],
         drift' \in SUBSET Accounts, portalOpen' \in BOOLEAN, tokens' = tokens,
         Rooted', \A a \in Accounts : Still(r, a),
         DOMAIN call' = Callers, call' = [q \in Callers |-> call'[q]],
         \A q \in Callers : \/ /\ call'[q] = [call[q] EXCEPT !.crossed = TRUE]
                               /\ call[q].pc # "idle"
                            \/ call'[q] = call[q] /\ Untouched(q)
  PROVE  AccessInv'
<1>1. call[r].pc = "idle" /\ begun' \in 0 .. MaxRequests
  BY Beginning
<1>2. call'[r] = call[r]
  BY <1>1
<1>3. Knows(r)'
  BY <1>1, <1>2 DEF Knows, Updating, Granting, Entering
<1>4. OthersKept(r)
  BY MarkedOrUntouched
<1>5. \A q \in Callers : call'[q] \in CallRow
  BY LeftAlone, MarkedGoesOn DEF GoesOn
<1>6. AccessTyped'
  BY <1>1, <1>5 DEF AccessInv, AccessTyped
<1> QED
  BY <1>3, <1>4, <1>6, AccessKept

LEMMA StudentsDeleted ==
  ASSUME AccessInv, NEW r \in Callers, NEW S \in SUBSET Students, DeleteStudents(r, S)
  PROVE  AccessInv' /\ TokensKept
<1>1. /\ Begin(r) /\ UNCHANGED <<portalOpen, tokens>>
      /\ student' = [s \in Students |-> IF s \in S THEN [NoStudent EXCEPT !.status = "gone"]
                                        ELSE student[s]]
      /\ account' = [a \in Accounts |-> IF a[1] \in S THEN NoAccount ELSE account[a]]
      /\ drift' = {a \in drift : a[1] \notin S}
      /\ call' = [q \in Callers |-> IF call[q].pc # "idle" /\ About(q, S)
                                     THEN [call[q] EXCEPT !.crossed = TRUE] ELSE call[q]]
  BY DEF DeleteStudents, Cross
<1>2. [NoStudent EXCEPT !.status = "gone"] \in StudentRow
  BY DEF NoStudent, StudentRow
<1>3. student' \in [Students -> StudentRow] /\ \A s \in Students \ S : student'[s] = student[s]
  BY <1>1, <1>2 DEF AccessInv, AccessTyped
<1>4. /\ account' \in [Accounts -> AccountRow]
      /\ \A a \in Accounts : IF a[1] \in S THEN account'[a] = NoAccount
                             ELSE account'[a] = account[a]
  BY <1>1, AccessRows DEF AccessInv, AccessTyped
<1>5. drift' \in SUBSET Accounts /\ portalOpen' \in BOOLEAN
  BY <1>1 DEF AccessInv, AccessTyped
<1>6. Rooted'
  BY <1>3, <1>4, AccessRows DEF Rooted, Enrolled, AccessInv
<1>7. call[r].pc = "idle" /\ call'[r] = call[r]
  BY <1>1 DEF Begin
<1>8. ASSUME NEW a \in Accounts PROVE Still(r, a)
  <2>1. ~Pending(r, a)
    BY <1>7, NotPending DEF Updating
  <2>2. CASE a[1] \in S
    BY <1>4, <2>1, <2>2, AccessRows DEF Still
  <2>3. CASE a[1] \notin S
    BY <1>1, <1>3, <1>4, <2>1, <2>3, AccessRows DEF Still
  <2> QED
    BY <2>2, <2>3
<1>9. ASSUME NEW q \in Callers
      PROVE  \/ call'[q] = [call[q] EXCEPT !.crossed = TRUE] /\ call[q].pc # "idle"
             \/ call'[q] = call[q] /\ Untouched(q)
  <2>1. CASE call[q].pc # "idle" /\ About(q, S)
    BY <1>1, <2>1
  <2>2. CASE call[q].pc # "idle" /\ ~About(q, S)
    <3>1. call'[q] = call[q] /\ \A u \in call[q].on : u \in Students \ S
      BY <1>1, <2>2, AccountOf DEF About
    <3>2. \A u \in call[q].on : student'[u] = student[u]
      BY <1>3, <3>1
    <3>3. ASSUME NEW u \in call[q].on, Allowed(<<u, call[q].type>>)
          PROVE  /\ Allowed(<<u, call[q].type>>)'
                 /\ account'[<<u, call[q].type>>].token = account[<<u, call[q].type>>].token
      <4> PICK a \in Accounts : a = <<u, call[q].type>> /\ a[1] = u
        BY AccountOf
      <4>1. account'[a] = account[a] /\ student'[u] = student[u]
        BY <1>4, <3>1, <3>2
      <4>2. Allowed(a)' /\ account'[a].token = account[a].token
        BY <1>1, <3>3, <4>1 DEF Allowed
      <4> QED
        BY <3>1, <4>2
    <3> QED
      BY <3>1, <3>2, <3>3 DEF Untouched, Enrolled
  <2>3. CASE call[q].pc = "idle"
    BY <1>1, <2>3 DEF Untouched, Updating, Granting, Entering
  <2> QED
    BY <2>1, <2>2, <2>3
<1>10. TokensKept
  BY <1>4, AccessRows DEF TokensKept
<1> QED
  BY <1>1, <1>3, <1>4, <1>5, <1>6, <1>8, <1>9, <1>10, StudentsChanged

LEMMA StatusUpdated ==
  ASSUME AccessInv, NEW r \in Callers, NEW S \in SUBSET Students,
         NEW status \in {"ACTIVE", "SUSPENDED"}, BulkUpdateStatus(r, S, status)
  PROVE  AccessInv' /\ TokensKept
<1> DEFINE hit(q) == /\ status # "ACTIVE" /\ call[q].pc # "idle"
                     /\ About(q, S) /\ call[q].pc \in {"login", "refresh"}
<1>1. /\ Begin(r) /\ UNCHANGED <<account, portalOpen, tokens, drift>>
      /\ \A s \in S : Enrolled(s)
      /\ student' = [s \in Students |-> IF s \in S THEN [student[s] EXCEPT !.status = status]
                                        ELSE student[s]]
      /\ call' = [q \in Callers |-> IF hit(q) THEN [call[q] EXCEPT !.crossed = TRUE] ELSE call[q]]
  <2>1. /\ Begin(r) /\ UNCHANGED <<account, portalOpen, tokens, drift>>
        /\ \A s \in S : Enrolled(s)
        /\ student' = [s \in Students |-> IF s \in S THEN [student[s] EXCEPT !.status = status]
                                          ELSE student[s]]
    BY DEF BulkUpdateStatus
  <2>2. CASE status = "ACTIVE"
    BY <2>2 DEF BulkUpdateStatus, AccessInv, AccessTyped
  <2>3. CASE status # "ACTIVE"
    BY <2>3 DEF BulkUpdateStatus, Cross
  <2>4. call' = [q \in Callers |-> IF hit(q) THEN [call[q] EXCEPT !.crossed = TRUE] ELSE call[q]]
    BY <2>2, <2>3
  <2> QED
    BY <2>1, <2>4
<1>2. ASSUME NEW s \in Students
      PROVE  /\ student'[s] \in StudentRow
             /\ student'[s].email = student[s].email /\ student'[s].guardian = student[s].guardian
             /\ IF s \in S THEN student'[s].status = status
                ELSE student'[s].status = student[s].status
  <2>1. student[s] \in StudentRow
    BY DEF AccessInv, AccessTyped
  <2> QED
    BY <1>1, <2>1 DEF StudentRow
<1>3. student' \in [Students -> StudentRow]
  BY <1>1, <1>2
<1>4. \A s \in Students : Enrolled(s) => Enrolled(s)'
  BY <1>2 DEF Enrolled
<1>5. Rooted'
  BY <1>1, <1>4, AccessRows DEF Rooted, AccessInv
<1>6. call[r].pc = "idle" /\ call'[r] = call[r]
  BY <1>1 DEF Begin
<1>7. ASSUME NEW a \in Accounts PROVE Still(r, a)
  <2>1. ~Pending(r, a)
    BY <1>6, NotPending DEF Updating
  <2> QED
    BY <1>1, <1>2, <2>1, AccessRows DEF Still, AddressOf
<1>8. ASSUME NEW q \in Callers
      PROVE  \/ call'[q] = [call[q] EXCEPT !.crossed = TRUE] /\ call[q].pc # "idle"
             \/ call'[q] = call[q] /\ Untouched(q)
  <2>1. CASE hit(q)
    BY <1>1, <2>1
  <2>2. CASE ~hit(q)
    <3>1. call'[q] = call[q]
      BY <1>1, <2>2
    <3>2. \A u \in call[q].on : /\ Enrolled(u) => Enrolled(u)'
                                /\ student'[u].email = student[u].email
                                /\ student'[u].guardian = student[u].guardian
      BY <1>2, <1>4, AccountOf
    <3>3. ASSUME call[q].pc \in Entering, NEW u \in call[q].on, Allowed(<<u, call[q].type>>)
          PROVE  /\ Allowed(<<u, call[q].type>>)'
                 /\ account'[<<u, call[q].type>>].token = account[<<u, call[q].type>>].token
      <4> PICK a \in Accounts : a = <<u, call[q].type>> /\ a[1] = u
        BY AccountOf
      <4>1. u \in Students /\ (status = "ACTIVE" \/ u \notin S)
        BY <2>2, <3>3, AccountOf DEF About, Entering
      <4>2. student'[u].status = "ACTIVE" \/ student'[u].status = student[u].status
        BY <1>2, <4>1
      <4>3. Allowed(a)' /\ account'[a].token = account[a].token
        BY <1>1, <3>3, <4>2 DEF Allowed
      <4> QED
        BY <3>1, <4>3
    <3> QED
      BY <3>1, <3>2, <3>3 DEF Untouched
  <2> QED
    BY <2>1, <2>2
<1> HIDE DEF hit
<1>9. /\ account' \in [Accounts -> AccountRow] /\ drift' \in SUBSET Accounts
      /\ portalOpen' \in BOOLEAN /\ TokensKept
  BY <1>1 DEF AccessInv, AccessTyped, TokensKept
<1> QED
  BY <1>1, <1>3, <1>5, <1>7, <1>8, <1>9, StudentsChanged

LEMMA PortalSwitched ==
  ASSUME AccessInv, NEW r \in Callers, SwitchPortal(r)
  PROVE  AccessInv' /\ TokensKept
<1>1. /\ Begin(r) /\ portalOpen' = ~portalOpen
      /\ call' = [q \in Callers |-> IF call[q].pc # "idle" /\ call[q].pc \in {"login", "refresh"}
                                     THEN [call[q] EXCEPT !.crossed = TRUE] ELSE call[q]]
      /\ UNCHANGED <<student, account, tokens, drift>>
  BY DEF SwitchPortal, Cross
<1>2. ASSUME NEW q \in Callers
      PROVE  \/ call'[q] = [call[q] EXCEPT !.crossed = TRUE] /\ call[q].pc # "idle"
             \/ call'[q] = call[q] /\ Untouched(q)
  BY <1>1 DEF Untouched, Enrolled, Updating, Granting, Entering
<1>3. /\ student' \in [Students -> StudentRow] /\ account' \in [Accounts -> AccountRow]
      /\ drift' \in SUBSET Accounts /\ TokensKept
  BY <1>1 DEF AccessInv, AccessTyped, TokensKept
<1>4. portalOpen' \in BOOLEAN
  BY <1>1
<1>5. Rooted'
  BY <1>1 DEF AccessInv, Rooted, Enrolled
<1>6. \A a \in Accounts : Still(r, a)
  <2>1. call[r].pc = "idle" /\ call'[r] = call[r]
    BY <1>1 DEF Begin
  <2> QED
    BY <1>1, <2>1, NotPending DEF Still, Updating
<1> QED
  BY <1>1, <1>2, <1>3, <1>4, <1>5, <1>6, StudentsChanged

-----------------------------------------------------------------------------
LEMMA PortalStepSound ==
  ASSUME AccessInv, [PortalNext]_portalVars
  PROVE  /\ AccessInv'
         /\ \A a \in Accounts : account'[a].token \notin {account[a].token, 0} => Cause(a)
<1>1. TokensKept => \A a \in Accounts : account'[a].token \notin {account[a].token, 0} => Cause(a)
  BY DEF TokensKept
<1>2. CASE UNCHANGED portalVars
  <2>1. UNCHANGED <<student, account, portalOpen, call, tokens, begun, drift>>
    BY <1>2 DEF portalVars
  <2>2. /\ AccessTyped' /\ Rooted' /\ \A r \in Callers : Knows(r)'
        /\ \A a \in Accounts : Follows(a)'
    BY <2>1 DEF AccessInv, AccessTyped, Rooted, Knows, Follows, StillTrue, StillAllowed, Enrolled,
                Allowed, Pending
  <2> QED
    BY <2>1, <2>2 DEF AccessInv
<1>3. ASSUME NEW r \in Callers, NEW s \in Students, NEW e \in Emails \cup {NoEmail},
             NEW g \in Guardians \cup {NoEmail},
             \/ CreateStudent(r, s, e, g)
             \/ \E named \in SUBSET {"STUDENT", "PARENT"}, status \in {"ACTIVE", "SUSPENDED"} :
                  UpdateStudent(r, s, e, g, named, status)
      PROVE  AccessInv' /\ TokensKept
  BY <1>3, StudentCreated, StudentUpdated
<1>4. ASSUME NEW r \in Callers, NEW S \in SUBSET Students, NEW f \in [S -> Emails \cup {NoEmail}],
             ImportLook(r, S, f)
      PROVE  AccessInv' /\ TokensKept
  BY <1>4, ImportLooked
<1>5. ASSUME NEW r \in Callers,
             \/ ImportWrite(r) \/ UpdateAccount(r) \/ AccessFind(r) \/ AccessWrite(r)
             \/ SwitchPortal(r)
      PROVE  AccessInv' /\ TokensKept
  BY <1>5, ImportWritten, AccountUpdated, AccessFound, AccessWritten, PortalSwitched
<1>6. ASSUME NEW r \in Callers, NEW S \in SUBSET Students,
             \/ DeleteStudents(r, S)
             \/ \E status \in {"ACTIVE", "SUSPENDED"} : BulkUpdateStatus(r, S, status)
      PROVE  AccessInv' /\ TokensKept
  BY <1>6, StudentsDeleted, StatusUpdated
<1>7. ASSUME NEW r \in Callers, NEW s \in Students, NEW wants \in SUBSET {"STUDENT", "PARENT"},
             NEW enabled \in BOOLEAN, AccessLook(r, s, wants, enabled)
      PROVE  AccessInv' /\ TokensKept
  BY <1>7, AccessLooked
<1>8. ASSUME NEW r \in Callers, NEW a \in Students \X Types,
             \/ CheckLogin(r, a) \/ Logout(r, a)
             \/ \E t \in 1 .. tokens : CheckRefresh(r, a, t)
      PROVE  AccessInv' /\ TokensKept
  <2>0. a = <<a[1], a[2]>> /\ a[1] \in Students /\ a[2] \in Types
    OBVIOUS
  <2> PICK s, t : s = a[1] /\ t = a[2]
    OBVIOUS
  <2>5. a = <<s, t>> /\ s \in Students /\ t \in {"STUDENT", "PARENT"}
    BY <2>0
  <2>1. <<s, t>> \in Accounts
    BY <2>5, AccessRows
  <2>2. CASE CheckLogin(r, a)
    <3>1. 0 \in 0 .. tokens
      BY DEF AccessInv, AccessTyped
    <3>2. CheckLogin(r, <<s, t>>)
      BY <2>2, <2>5
    <3>3. s \in Students /\ t \in {"STUDENT", "PARENT"}
      BY <2>5
    <3> HIDE PortalAssumption
    <3> QED
      BY <3>1, <3>2, <3>3, Entered
  <2>3. CASE Logout(r, a)
    BY <2>1, <2>3, <2>5, LoggedOut
  <2>4. CASE \E token \in 1 .. tokens : CheckRefresh(r, a, token)
    <3> PICK token \in 1 .. tokens : CheckRefresh(r, a, token)
      BY <2>4
    <3>1. token \in 0 .. tokens
      OBVIOUS
    <3>2. CheckRefresh(r, <<s, t>>, token)
      BY <2>5
    <3>3. s \in Students /\ t \in {"STUDENT", "PARENT"}
      BY <2>5
    <3> HIDE PortalAssumption
    <3> QED
      BY <3>1, <3>2, <3>3, Entered
  <2> QED
    BY <1>8, <2>2, <2>3, <2>4
<1> QED
  BY <1>1, <1>2, <1>3, <1>4, <1>5, <1>6, <1>7, <1>8, SessionCreated DEF PortalNext

LEMMA PortalAlwaysSound == PortalSpec => []AccessInv
<1>1. AccessInv /\ [PortalNext]_portalVars => AccessInv'
  BY PortalStepSound
<1> QED
  BY <1>1, AccessInitSound, PTL DEF PortalSpec

\* Rows and requests are of their tables' types (schema.prisma, students.service.ts).
THEOREM PortalTypeCorrect == PortalSpec => []PortalTypeOK
<1>1. AccessInv => PortalTypeOK
  BY AccountOf DEF AccessInv, AccessTyped, StudentRow, AccountRow, PortalTypeOK
<1> QED
  BY <1>1, PortalAlwaysSound, PTL

\* However requests overlap, an account has in lower case the address its student has, unless
\* the student's was emptied, which the accounts do not follow, an update is under way or one was
\* refused or crossed (students.service.ts:76, :83, :146).
THEOREM AccountsFollowStudents == PortalSpec => []AccountFollowsStudent
<1>1. AccessInv => AccountFollowsStudent
  BY DEF AccessInv, Follows, Pending, Updating, AccountFollowsStudent
<1> QED
  BY <1>1, PortalAlwaysSound, PTL

\* A session is stored only by a login or by a refresh that shows the session it
\* replaces, of an account allowed in, or what the request checked has changed
\* before it stored (portal-auth.service.ts:171).
THEOREM SessionsForCause == PortalSpec => SessionStoredForCause
<1>1. AccessInv /\ [PortalNext]_portalVars =>
        [\A a \in Accounts :
           account'[a].token \notin {account[a].token, 0} =>
             \E r \in Callers :
               /\ AtDoor(r, a)
               /\ \/ call[r].crossed
                  \/ /\ Allowed(a)
                     /\ call[r].pc = "login" \/ call[r].token = account[a].token]_portalVars
  BY PortalStepSound DEF Cause
<1> QED
  BY <1>1, PortalAlwaysSound, PTL DEF PortalSpec, SessionStoredForCause

=============================================================================
