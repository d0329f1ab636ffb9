------------------------------ MODULE MCPortal ------------------------------
(* Requests that read in one call and write in a later one, for TLC: the    *)
(* attempts of an assessment, the portal accounts of students, the          *)
(* directory of users, the AI review queue and the AI answers.  They do not *)
(* interact here: a behaviour is one scene, chosen at the start, in which   *)
(* only one of them moves.                                                  *)
EXTENDS MCAssessmentAttempts, PortalAccess, StaffDirectory, AiDesk

CONSTANTS r1, r2, s1, s2, e1, C1, g1, u1, u2

VARIABLE scene

PortalSceneInit ==
  /\ scene \in {"attempts", "portal", "directory", "queue", "answers"}
  /\ Init /\ PortalInit /\ DirectoryInit /\ AiInit
  /\ scene = "attempts" \/ limit = 1
  /\ scene = "portal" \/ \A s \in Students : student[s] = NoStudent
  /\ scene = "directory" \/ member[u1].there
  /\ scene = "answers" \/ access = "key"

PortalSceneNext ==
  /\ UNCHANGED scene
  /\ \/ scene = "attempts" /\ Next /\ UNCHANGED <<portalVars, directoryVars, aiVars>>
     \/ scene = "portal" /\ PortalNext /\ UNCHANGED <<vars, directoryVars, aiVars>>
     \/ scene = "directory" /\ DirectoryNext /\ UNCHANGED <<vars, portalVars, aiVars>>
     \/ scene = "queue" /\ QueueNext /\ UNCHANGED <<vars, portalVars, directoryVars>>
     \/ scene = "answers" /\ AnswerNext /\ UNCHANGED <<vars, portalVars, directoryVars>>

PortalSceneSpec ==
  PortalSceneInit /\ [][PortalSceneNext]_<<scene, vars, portalVars, directoryVars, aiVars>>

\* Whoever acts carries one role; a payload gives one role or two.
Actors == {{"SUPER_ADMIN"}, {"ADMIN"}, {"ACADEMIC_COORDINATOR"}}
RoleLoads == {{"ADMIN"}, {"ACADEMIC_COORDINATOR", "STAFF"}}

\* C1 is e1 typed with a capital letter.
Spelling == [a \in {e1, C1, g1, NoEmail} |-> IF a = C1 THEN e1 ELSE a]

\* Requests, callers, desks, tabs and askers are the same model values, interchangeable together.
\* So are students and queue items.
Alike == Overlapping \cup Permutations(Students)

=============================================================================
