--------------------------- MODULE StaffDirectory ---------------------------
(* The users of one organization, as its staff and the super administrator  *)
(* keep them (users.service.ts and its repository): who may change whom     *)
(* goes by role, is checked on rows read first, and the change is written   *)
(* in a later call.  The seats a new user takes are TenantSubscription's.   *)
(* AnyRoleManageable, a faulty variant of Manageable, is used by no         *)
(* definition.                                                              *)
EXTENDS Naturals, FiniteSets

CONSTANTS
  Members,     \* rows of users of the organization
  Desks,       \* requests in progress
  ActorRoles,  \* the sets of roles an actor's token may carry
  Loads,       \* the sets of roles a payload may give
  MaxEdits     \* bound: requests begun

RoleNames == {"SUPER_ADMIN", "ADMIN", "ACADEMIC_COORDINATOR", "TEACHER", "STAFF", "CUSTOM"}

ASSUME DirectoryAssumption ==
  /\ ActorRoles \subseteq SUBSET RoleNames /\ Loads \subseteq SUBSET RoleNames
  /\ MaxEdits \in Nat

VARIABLES member, desk, served
directoryVars == <<member, desk, served>>

\* member  each user row: there or not, active, roles
\* desk    the request each desk serves

NoMember == [there |-> FALSE, active |-> FALSE, roles |-> {}]

\* crossed (history): a row the request read has changed since.
FreeDesk == [pc |-> "free", actor |-> {}, on |-> {}, roles |-> {}, keepRoles |-> TRUE,
             active |-> "keep", crossed |-> FALSE]

Super(actor) == "SUPER_ADMIN" \in actor

\* getAssignableRoleNames.
Assignable(actor) ==
  IF Super(actor) THEN RoleNames \ {"CUSTOM"}
  ELSE IF "ADMIN" \in actor THEN {"ADMIN", "ACADEMIC_COORDINATOR", "TEACHER", "STAFF"}
  ELSE IF "ACADEMIC_COORDINATOR" \in actor THEN {"TEACHER", "STAFF"}
  ELSE {"STAFF"}

\* assertAssignableRoleIds.
MayGive(actor, roles) == Super(actor) \/ roles \subseteq Assignable(actor)

\* Faulty variant of Manageable: one manageable role is enough.
AnyRoleManageable(actor, u) ==
  Super(actor) \/ member[u].roles \cap Assignable(actor) # {}

\* assertManageableTarget: every role of the target is one the actor could give.
Manageable(actor, u) == Super(actor) \/ member[u].roles \subseteq Assignable(actor)

DirectoryInit ==
  /\ \E boss \in Members :
       member = [[u \in Members |-> NoMember]
                   EXCEPT ![boss] = [there |-> TRUE, active |-> TRUE, roles |-> {"ADMIN"}]]
  /\ desk = [d \in Desks |-> FreeDesk] /\ served = 0

Serve(d, request) ==
  /\ desk[d].pc = "free" /\ served < MaxEdits /\ served' = served + 1
  /\ desk' = [desk EXCEPT ![d] = request]
  /\ UNCHANGED member

\* The other requests that read one of the rows written at desk d.
Crossed(d, written) ==
  [o \in Desks |->
     IF o = d THEN FreeDesk
     ELSE IF desk[o].pc # "free" /\ desk[o].on \cap written # {}
            THEN [desk[o] EXCEPT !.crossed = TRUE] ELSE desk[o]]

-----------------------------------------------------------------------------
\* create, up to the checks of the payload.
CheckCreate(d, actor, u, roles) ==
  /\ ~member[u].there /\ MayGive(actor, roles)
  /\ Serve(d, [FreeDesk EXCEPT !.pc = "create", !.actor = actor, !.on = {u}, !.roles = roles,
                               !.keepRoles = FALSE])

\* The row and its roles in one call; the e-mail may have been taken meanwhile.
WriteCreate(d) ==
  /\ desk[d].pc = "create"
  /\ \E u \in desk[d].on :
       member' = IF member[u].there THEN member
                 ELSE [member EXCEPT ![u] = [there |-> TRUE, active |-> TRUE,
                                             roles |-> desk[d].roles]]
  /\ desk' = [desk EXCEPT ![d] = FreeDesk]
  /\ UNCHANGED served

\* update: the target as it was read, then the roles of the payload, if it has any.
CheckUpdate(d, actor, u, keepRoles, roles, active) ==
  /\ member[u].there /\ Manageable(actor, u)
  /\ keepRoles \/ MayGive(actor, roles)
  /\ keepRoles => roles = {}
  /\ Serve(d, [FreeDesk EXCEPT !.pc = "update", !.actor = actor, !.on = {u}, !.roles = roles,
                               !.keepRoles = keepRoles, !.active = active])

\* The repository's transaction: the row must still be there; its roles are replaced.
WriteUpdate(d) ==
  /\ desk[d].pc = "update"
  /\ \E u \in desk[d].on :
       IF member[u].there
         THEN /\ member' = [member EXCEPT
                              ![u].roles = IF desk[d].keepRoles THEN @ ELSE desk[d].roles,
                              ![u].active = @ /\ desk[d].active = "keep"]
              /\ desk' = Crossed(d, {u})
         ELSE member' = member /\ desk' = [desk EXCEPT ![d] = FreeDesk]
  /\ UNCHANGED served

\* delete, bulkDelete and bulkUpdateStatus: each target is read and judged first.
CheckMany(d, actor, U, op) ==
  /\ U # {} /\ \A u \in U : member[u].there /\ Manageable(actor, u)
  /\ Serve(d, [FreeDesk EXCEPT !.pc = op, !.actor = actor, !.on = U])

\* One transaction counts the rows and changes them, all or none.
WriteMany(d) ==
  /\ desk[d].pc \in {"deleteMany", "activateMany", "deactivateMany"}
  /\ IF \A u \in desk[d].on : member[u].there
       THEN /\ member' = [u \in Members |->
                 IF u \notin desk[d].on THEN member[u]
                 ELSE IF desk[d].pc = "deleteMany" THEN NoMember
                 ELSE [member[u] EXCEPT !.active = desk[d].pc = "activateMany"]]
            /\ desk' = Crossed(d, desk[d].on)
       ELSE member' = member /\ desk' = [desk EXCEPT ![d] = FreeDesk]
  /\ UNCHANGED served

DirectoryNext ==
  \E d \in Desks :
    \/ \E actor \in ActorRoles, u \in Members, roles \in Loads : CheckCreate(d, actor, u, roles)
    \/ WriteCreate(d)
    \/ \E actor \in ActorRoles, u \in Members, keepRoles \in BOOLEAN, roles \in Loads \cup {{}},
          active \in {"keep", "off"} : CheckUpdate(d, actor, u, keepRoles, roles, active)
    \/ WriteUpdate(d)
    \/ \E actor \in ActorRoles, U \in SUBSET Members,
          op \in {"deleteMany", "activateMany", "deactivateMany"} : CheckMany(d, actor, U, op)
    \/ WriteMany(d)

DirectorySpec == DirectoryInit /\ [][DirectoryNext]_directoryVars

-----------------------------------------------------------------------------
DirectoryTypeOK ==
  /\ member \in [Members -> [there : BOOLEAN, active : BOOLEAN, roles : SUBSET RoleNames]]
  /\ served \in 0 .. MaxEdits
  /\ \A d \in Desks : desk[d].on \subseteq Members /\ desk[d].roles \subseteq RoleNames

\* UsersService assertManageableTarget and assertAssignableRoleIds: whoever changes or deletes
\* a user could have given every role that user holds at that moment, unless another request
\* changed the user after the check, and nobody hands out a role above what they may give.
ChangedWithinRank ==
  [][\A u \in Members :
       member'[u] # member[u] =>
         \E d \in Desks :
           /\ u \in desk[d].on /\ desk[d].pc # "free"
           /\ \/ Super(desk[d].actor)
              \/ /\ member'[u].roles \ member[u].roles \subseteq Assignable(desk[d].actor)
                 /\ member[u].roles \subseteq Assignable(desk[d].actor) \/ desk[d].crossed
           ]_directoryVars

=============================================================================
