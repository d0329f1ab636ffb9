----------------------------- MODULE ReportCards -----------------------------
(***************************************************************************)
(* Assignments and their submissions (AssignmentsService and the portal),  *)
(* and the report card that the portal computes for a student from exam    *)
(* results, assessments and reviewed submissions                           *)
(* (PortalService.getReportCard).  It composes with Examinations, whose    *)
(* results it reads; the class rank orders the overall percentages and is  *)
(* left out.                                                               *)
(*                                                                         *)
(* The students share one batch.  Averages are whole per cents.  The       *)
(* assessment percentages are those that AssessmentAttempts yields and do  *)
(* not change here.                                                        *)
(*                                                                         *)
(* A definition whose name is not used below is a faulty variant of the    *)
(* one that follows it, for the mutation runs.                             *)
(***************************************************************************)
EXTENDS Examinations

CONSTANTS
  Assignments,
  Quizzed,      \* Examinees -> ExamSubjects -> assessment percentage, Unmarked for none
  Hands,        \* portal requests under way at once
  Unmarked

ASSUME CardAssumption ==
  /\ Unmarked \notin Nat
  /\ Quizzed \in [Examinees -> [ExamSubjects -> Nat \cup {Unmarked}]]

VARIABLES
  assignment,   \* assignment rows
  submission,   \* submission of a student for an assignment
  hand          \* portal requests: program counter and locals

courseVars == <<assignment, submission, hand>>
cardVars   == <<examVars, courseVars>>

NoAssignment == [st |-> "NONE", subject |-> NoExam, marks |-> 0, late |-> FALSE, due |-> FALSE]

\* due says that dueAt has passed.
Assignment == [st : {"DRAFT", "PUBLISHED", "CLOSED"}, subject : ExamSubjects, marks : Nat,
               late : BOOLEAN, due : BOOLEAN]

Submission == [st : {"NONE", "DRAFT", "SUBMITTED", "REVIEWED"}, awarded : Nat \cup {Unmarked}]

NoSubmission == [st |-> "NONE", awarded |-> Unmarked]

\* save and submit have found the assignment open, review holds a submission.
IdleHand == [pc |-> "idle", a |-> NoExam, s |-> NoExam]

CardTypeOK ==
  /\ ExamTypeOK
  /\ assignment \in [Assignments -> Assignment \cup {NoAssignment}]
  /\ submission \in [Assignments \X Examinees -> Submission]
  /\ hand \in [Hands -> [pc : {"idle", "save", "submit", "review"},
                         a : Assignments \cup {NoExam}, s : Examinees \cup {NoExam}]]

\* The seeded rows: nothing else finishes a review, see RequestRefused.
CardInit ==
  /\ ExamInit
  /\ assignment \in [Assignments -> {[st |-> "PUBLISHED", subject |-> u, marks |-> 2,
                                      late |-> FALSE, due |-> FALSE] : u \in ExamSubjects}]
  /\ submission \in [Assignments \X Examinees ->
                       {NoSubmission, [st |-> "REVIEWED", awarded |-> 1]}]
  /\ hand = [h \in Hands |-> IdleHand]

-----------------------------------------------------------------------------
(* Assignments. *)
CourseRequest == ExamRequest /\ UNCHANGED <<exam, examPaper, examResult, item, edit, loose>>

CreateAssignment(a, row) ==
  /\ CourseRequest
  /\ assignment[a] = NoAssignment /\ \A h \in Hands : hand[h].a # a
  /\ assignment' = [assignment EXCEPT ![a] = row]
  /\ UNCHANGED <<submission, hand>>

\* A payload without status, marks or the late flag writes DRAFT, 100 and FALSE.
UpdateAssignment(a, row) ==
  /\ CourseRequest
  /\ assignment[a] # NoAssignment
  /\ assignment' = [assignment EXCEPT ![a] = row]
  /\ UNCHANGED <<submission, hand>>

\* Submissions go with the assignment; of several, those that are there go.
DeleteAssignments(A) ==
  /\ CourseRequest
  /\ \E a \in A : assignment[a] # NoAssignment
  /\ assignment' = [a \in Assignments |-> IF a \in A THEN NoAssignment ELSE assignment[a]]
  /\ submission' = [x \in DOMAIN submission |-> IF x[1] \in A THEN NoSubmission ELSE submission[x]]
  /\ UNCHANGED hand

\* SubjectsService.delete: assignments of the subjects go as well.
DeleteSubjects(U) ==
  LET A == {a \in Assignments : assignment[a].subject \in U}
  IN /\ DropSubjects(U)
     /\ assignment' = [a \in Assignments |-> IF a \in A THEN NoAssignment ELSE assignment[a]]
     /\ submission' = [x \in DOMAIN submission |->
          IF x[1] \in A THEN NoSubmission ELSE submission[x]]
     /\ UNCHANGED hand

PassDueDate(a) ==
  /\ CourseRequest
  /\ assignment[a] # NoAssignment /\ ~assignment[a].due
  /\ assignment' = [assignment EXCEPT ![a].due = TRUE]
  /\ UNCHANGED <<submission, hand>>

\* canSubmitAssignment
CanSubmitAssignment(a) ==
  assignment[a].st = "PUBLISHED" /\ (assignment[a].late \/ ~assignment[a].due)

\* saveAssignmentSubmission and submitAssignment find the assignment open.
OpenAssignment(h, a, s, pc) ==
  /\ CourseRequest
  /\ hand[h].pc = "idle"
  /\ CanSubmitAssignment(a)
  /\ hand' = [hand EXCEPT ![h] = [pc |-> pc, a |-> a, s |-> s]]
  /\ UNCHANGED <<assignment, submission>>

\* The upsert.  It has no condition on the row and keeps the awarded marks.
StoreSubmission(h) ==
  LET x == <<hand[h].a, hand[h].s>>
  IN /\ hand[h].pc \in {"save", "submit"}
     /\ assignment[hand[h].a] # NoAssignment
     /\ submission' = [submission EXCEPT
          ![x].st = IF hand[h].pc = "save" THEN "DRAFT" ELSE "SUBMITTED"]
     /\ hand' = [hand EXCEPT ![h] = IdleHand]
     /\ UNCHANGED <<examVars, assignment>>

\* reviewSubmission finds the submission.
ReviewSubmission(h, a, s) ==
  /\ CourseRequest
  /\ hand[h].pc = "idle"
  /\ submission[<<a, s>>].st # "NONE"
  /\ hand' = [hand EXCEPT ![h] = [pc |-> "review", a |-> a, s |-> s]]
  /\ UNCHANGED <<assignment, submission>>

\* Its update is refused: the reviewer is written as the id of the user, where
\* the column refers to a teacher.  A request may also just stop.
RequestRefused(h) ==
  /\ hand[h].pc # "idle"
  /\ hand' = [hand EXCEPT ![h] = IdleHand]
  /\ UNCHANGED <<examVars, assignment, submission>>

-----------------------------------------------------------------------------
(* The report card. *)
Average(f) == SumFunction(f) \div Cardinality(DOMAIN f)

PublishedOf(s) == {r \in Results : examResult[r].student = s /\ examResult[r].status = "PUBLISHED"}

\* Items that count for a subject: pairs of a result and a paper with marks whose
\* item names the subject.
Counted(s, u) ==
  {x \in PublishedOf(s) \X Papers :
     /\ x[2] \in DOMAIN item[x[1]]
     /\ item[x[1]][x[2]].subject = u /\ examPaper[x[2]].marks > 0}

\* The share of each item in the exam's marks instead of its own paper's.
ShareOfExam(s, u) ==
  Average([x \in Counted(s, u) |->
             Percentage(item[x[1]][x[2]].marks, FullMarks(examPaper[x[2]].exam))])

ExamPercentage(s, u) ==
  Average([x \in Counted(s, u) |-> Percentage(item[x[1]][x[2]].marks, examPaper[x[2]].marks)])

Reviewed(s, u) ==
  {a \in Assignments : /\ submission[<<a, s>>].st = "REVIEWED"
                       /\ submission[<<a, s>>].awarded # Unmarked
                       /\ assignment[a].subject = u /\ assignment[a].marks > 0}

AssignmentPercentage(s, u) ==
  Average([a \in Reviewed(s, u) |->
             Percentage(submission[<<a, s>>].awarded, assignment[a].marks)])

\* The parts of a subject that have marks, as pairs of a name and a percentage.
Parts(s, u) ==
  UNION { IF Counted(s, u) # {} THEN {<<"exam", ExamPercentage(s, u)>>} ELSE {},
          IF Quizzed[s][u] # Unmarked THEN {<<"assessment", Quizzed[s][u]>>} ELSE {},
          IF Reviewed(s, u) # {} THEN {<<"assignment", AssignmentPercentage(s, u)>>} ELSE {} }

CombinedPercentage(s, u) == Average([x \in Parts(s, u) |-> x[2]])

\* buildPortalAcademicAggregate
OverallPercentage(s) ==
  LET marked == {u \in ExamSubjects : Parts(s, u) # {}}
  IN IF marked = {} THEN 0 ELSE Average([u \in marked |-> CombinedPercentage(s, u)])

-----------------------------------------------------------------------------
CourseNext ==
  \/ \E a \in Assignments, row \in [st : {"DRAFT", "PUBLISHED", "CLOSED"}, subject : ExamSubjects,
                                    marks : {1, 2}, late : BOOLEAN, due : {FALSE}] :
       CreateAssignment(a, row) \/ UpdateAssignment(a, row)
  \/ \E A \in SUBSET Assignments : DeleteAssignments(A)
  \/ \E a \in Assignments : PassDueDate(a)
  \/ \E h \in Hands, a \in Assignments, s \in Examinees :
       ReviewSubmission(h, a, s) \/ \E pc \in {"save", "submit"} : OpenAssignment(h, a, s, pc)
  \/ \E h \in Hands : StoreSubmission(h) \/ RequestRefused(h)

CardNext ==
  \/ ExamChange /\ UNCHANGED courseVars
  \/ \E U \in SUBSET ExamSubjects : DeleteSubjects(U)
  \/ CourseNext

CardSpec == CardInit /\ [][CardNext]_cardVars

-----------------------------------------------------------------------------
(* Properties. *)

ExamPercentages(s) == {ExamPercentage(s, u) : u \in {v \in ExamSubjects : Counted(s, v) # {}}}

\* The items are for papers of the result's exam, and no two name one subject.
InOrder(r) ==
  /\ DOMAIN item[r] \subseteq PapersOf({examResult[r].exam})
  /\ \A p, q \in DOMAIN item[r] : p # q => item[r][p].subject # item[r][q].subject

\* The percentage kept with a result and the card computed from its items agree:
\* when a student has one published result, with an item for every paper, its
\* percentage lies between the lowest and the highest exam percentage of the
\* card, and so does the overall percentage when nothing else counts; with
\* items missing it is not above the highest.  The card sorts items by the subject
\* they name and the percentage counts them whatever they are for, so items must be
\* in order; results whose papers changed under them are set aside
\* (exam-result-prisma.repository.ts:117, portal.service.ts:622).
CardFollowsResults ==
  \A s \in Examinees, r \in Results :
    LET shown == ExamPercentages(s)
        onlyExams == \A u \in ExamSubjects : Quizzed[s][u] = Unmarked /\ Reviewed(s, u) = {}
    IN /\ PublishedOf(s) = {r} /\ r \notin loose
       /\ DOMAIN item[r] # {} /\ InOrder(r)
       /\ \A p \in PapersOf({examResult[r].exam}) : examPaper[p].marks > 0
       => /\ examResult[r].percentage <= Max(shown)
          /\ DOMAIN item[r] = PapersOf({examResult[r].exam})
               => examResult[r].percentage >= Min(shown)
          /\ onlyExams => OverallPercentage(s) \in Min(shown) .. Max(shown)
=============================================================================
