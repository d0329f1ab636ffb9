------------------------------ MODULE MCMarks -------------------------------
(* Marks from two sides, for TLC: the score of an assessment attempt, and   *)
(* exam results with the report card.  The two do not interact: a behaviour *)
(* is one scene, chosen at the start, in which only one of them moves.      *)
EXTENDS MCAssessmentAttempts, ReportCards

CONSTANTS p1, p2, u1, u2

VARIABLE scene

\* Where the exams move, p1 and the assignments are of u1 and nothing is reviewed;
\* where the assignments move, every paper is for an exam.
Seeded ==
  CASE scene = "exams" -> /\ examPaper[p1].subject = u1
                          /\ \A a \in Assignments : assignment[a].subject = u1
                          /\ \A x \in DOMAIN submission : submission[x] = NoSubmission
    [] scene = "courses" -> \A p \in Papers : examPaper[p] # NoExamPaper
    [] OTHER -> TRUE

MarksInit ==
  /\ scene \in {"attempts", "exams", "courses"}
  /\ Init /\ CardInit /\ Seeded

\* The first request creates a result: the exams a behaviour starts with are any.
Creation ==
  \E k \in Clerks, r \in Results, e \in Exams, s \in Examinees, items \in Sheets :
    ReadForCreate(k, r, e, s, items)

Insertion == \E k \in Clerks, st \in {"DRAFT", "PUBLISHED"} : InsertResult(k, st)

MarksNext ==
  /\ UNCHANGED scene
  /\ \/ scene = "attempts" /\ Next /\ UNCHANGED cardVars
     \/ scene # "attempts" /\ examOps = 0 /\ Creation /\ UNCHANGED <<vars, courseVars>>
     \/ /\ scene = "exams" /\ examOps > 0
        /\ ExamChange /\ UNCHANGED <<vars, courseVars>>
     \/ /\ scene = "exams" /\ examOps > 0
        /\ \E U \in SUBSET ExamSubjects : DeleteSubjects(U)
        /\ UNCHANGED vars
     \/ /\ scene = "courses" /\ examOps > 0
        /\ (Insertion /\ UNCHANGED courseVars) \/ CourseNext
        /\ UNCHANGED vars

MarksSpec == MarksInit /\ [][MarksNext]_<<scene, vars, cardVars>>

\* Nobody took an assessment.
NoneQuizzed == [s \in Examinees |-> [u \in ExamSubjects |-> Unmarked]]

\* No item, one, two for different subjects and two that name the same one.  The
\* papers may be of either subject, so each list is right for some and not for others.
SomeSheets ==
  {NoItems,
   p1 :> [marks |-> 2, subject |-> u1],
   p2 :> [marks |-> 1, subject |-> u1],
   (p1 :> [marks |-> 1, subject |-> u1]) @@ (p2 :> [marks |-> 2, subject |-> u2]),
   (p1 :> [marks |-> 2, subject |-> u2]) @@ (p2 :> [marks |-> 1, subject |-> u2])}

Unlabelled == Permutations(Requests) \cup Permutations(Exams) \cup Permutations(Examinees)

=============================================================================
