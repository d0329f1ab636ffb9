------------------------- MODULE AssessmentAttempts -------------------------
(***************************************************************************)
(* One online assessment and one student of its batch: PortalService       *)
(* starts, saves and submits attempts, staff review them and administer    *)
(* the assessment (AssessmentsService and its repository).                 *)
(*                                                                         *)
(* A request r reads the attempt in one database call and writes in a      *)
(* later one, with nothing held in between; the requests of two browser    *)
(* tabs and of a reviewer interleave.  A transaction that writes is one    *)
(* step: two that write the same attempt lock its row and its result.      *)
(* A request may stop between its read and its write (Abort).              *)
(*                                                                         *)
(* A definition whose name is not used below is a faulty variant of the    *)
(* one that follows it, for the mutation runs.                             *)
(***************************************************************************)
EXTENDS Integers, FiniteSets, Functions

CONSTANTS
  Requests,    \* requests that may run at the same time
  AttemptBound,\* bound of the model: the largest limit an assessment may have
  Questions,   \* ids of questions, those of replaced papers included
  Versions,    \* bound of the model: how many papers the assessment ever has
  Paper,       \* 1..Versions -> SUBSET Questions: the questions of each paper
  Manual,      \* questions of type SHORT_ANSWER or LONG_ANSWER
  Mark,        \* Questions -> Nat: question.marks
  Penalty,     \* negativeMarkingPerWrong, 0 when negative marking is off
  Limits,      \* attempt limits an update may set
  NoMark       \* null in awardedMarks

Attempts == 1 .. AttemptBound

Content == {"none", "blank", "right", "wrong"}

ASSUME BoundAssumption == AttemptBound \in Nat /\ Versions \in Nat \ {0}

ASSUME PaperAssumption ==
  /\ Paper \in [1 .. Versions -> SUBSET Questions]
  /\ \A v, w \in 1 .. Versions : v # w => Paper[v] \cap Paper[w] = {}
  /\ Manual \subseteq Questions
  /\ IsFiniteSet(Questions)

ASSUME MarkAssumption ==
  /\ Mark \in [Questions -> Nat]
  /\ Penalty \in Nat
  /\ NoMark \notin Int

ASSUME LimitAssumption == Limits \subseteq Attempts

VARIABLES
  open,       \* the assessment is PUBLISHED and inside its availability window
  exists,     \* the assessment has not been deleted
  limit,      \* maxAttempts, 1 when multiple attempts are not allowed
  topLimit,   \* the highest limit so far (history)
  paper,      \* version of its questions
  total,      \* totalMarks
  attempt,    \* AssessmentAttempt.status per attempt number
  content,    \* what the AssessmentAnswer row of a question holds
  grade,      \* its awardedMarks
  result,     \* AssessmentResult of an attempt
  req,        \* the requests: program counter and locals
  disturbed   \* attempts with overlapping requests or a replaced paper (history)

assessmentVars == <<open, exists, limit, topLimit, paper, total>>
attemptVars    == <<attempt, content, grade, result>>
vars           == <<open, exists, limit, topLimit, paper, total,
                    attempt, content, grade, result, req, disturbed>>

Submitted == {"REVIEW_PENDING", "COMPLETED"}

AttemptStatus == {"none", "IN_PROGRESS", "gone"} \cup Submitted

ResultStatus == {"none", "PROVISIONAL", "FINALIZED"}

NoResult == [status |-> "none", obtained |-> 0, total |-> 0]

Answers == [Questions -> Content]

Grades == [Questions -> Int \cup {NoMark}]

NoAnswers == [q \in Questions |-> "none"]

NoGrades == [q \in Questions |-> NoMark]

\* A request: pc names the write that comes next, the rest is what it has read, the
\* attempt, the paper, the answers, the sum of the grades and the total marks.
Pc == {"idle", "create", "save", "submit", "review"}

Request(label, attemptNumber, version, answers, points, of, final) ==
  [pc |-> label, n |-> attemptNumber, paper |-> version, answers |-> answers,
   score |-> points, total |-> of, finalize |-> final]

Idle == Request("idle", 0, 0, NoAnswers, 0, 0, FALSE)

Working(n) == {r \in Requests : req[r].pc \in {"save", "submit", "review"} /\ req[r].n = n}

Sum(g) == SumFunction([q \in Questions |-> IF g[q] = NoMark THEN 0 ELSE g[q]])

PaperTotal(v) == SumFunctionOnSet(Mark, Paper[v])

\* The numbers of a result are sums of marks: ResultWithinTotal is their range.
TypeOK ==
  /\ open \in BOOLEAN
  /\ exists \in BOOLEAN
  /\ limit \in Limits
  /\ topLimit \in Limits
  /\ paper \in 1 .. Versions
  /\ attempt \in [Attempts -> AttemptStatus]
  /\ content \in [Attempts -> Answers]
  /\ grade \in [Attempts -> Grades]
  /\ DOMAIN result = Attempts /\ DOMAIN req = Requests
  /\ \A n \in Attempts : result[n].status \in ResultStatus
  /\ \A r \in Requests :
       /\ req[r].pc \in Pc
       /\ req[r].pc # "idle" => req[r].n \in Attempts
       /\ req[r].pc \in {"save", "submit"} => req[r].paper \in 1 .. Versions
       /\ req[r].answers \in Answers
  /\ disturbed \subseteq Attempts

Init ==
  /\ open = TRUE
  /\ exists = TRUE
  /\ limit \in Limits
  /\ topLimit = limit
  /\ paper = 1
  /\ total = PaperTotal(1)
  /\ attempt = [n \in Attempts |-> "none"]
  /\ content = [n \in Attempts |-> NoAnswers]
  /\ grade = [n \in Attempts |-> NoGrades]
  /\ result = [n \in Attempts |-> NoResult]
  /\ req = [r \in Requests |-> Idle]
  /\ disturbed = {}

Finish(r) == req' = [req EXCEPT ![r] = Idle]

\* A request begins to work on an attempt that another one works on already.
Enter(n) == disturbed' = IF Working(n) = {} THEN disturbed ELSE disturbed \cup {n}

-----------------------------------------------------------------------------
(* startAssessment *)
InProgress == {n \in Attempts : attempt[n] = "IN_PROGRESS"}

Completed == {n \in Attempts : attempt[n] \in Submitted}

ReadForStartOffByOne(r) ==
  LET n == Cardinality(Completed) + 1 IN
  /\ req[r].pc = "idle"
  /\ open /\ exists
  /\ InProgress = {}
  /\ n <= limit + 1
  /\ req' = [req EXCEPT ![r] = Request("create", n, 0, NoAnswers, 0, 0, FALSE)]
  /\ UNCHANGED <<assessmentVars, attemptVars, disturbed>>

\* The attempt in progress is returned as it is, so there is nothing to create.
ReadForStart(r) ==
  LET n == Cardinality(Completed) + 1 IN
  /\ req[r].pc = "idle"
  /\ open /\ exists
  /\ InProgress = {}
  /\ n <= limit
  /\ req' = [req EXCEPT ![r] = Request("create", n, 0, NoAnswers, 0, 0, FALSE)]
  /\ UNCHANGED <<assessmentVars, attemptVars, disturbed>>

CreateAttemptWithNextNumber(r) ==
  /\ req[r].pc = "create"
  /\ \E n \in Attempts :
       /\ exists
       /\ attempt[n] = "none"
       /\ \A m \in Attempts : m < n => attempt[m] # "none"
       /\ attempt' = [attempt EXCEPT ![n] = "IN_PROGRESS"]
  /\ Finish(r)
  /\ UNCHANGED <<assessmentVars, content, grade, result, disturbed>>

\* assessmentId, studentId and attemptNumber are unique together.
CreateAttempt(r) ==
  LET n == req[r].n IN
  /\ req[r].pc = "create"
  /\ attempt' = IF exists /\ attempt[n] = "none"
                THEN [attempt EXCEPT ![n] = "IN_PROGRESS"]
                ELSE attempt
  /\ Finish(r)
  /\ UNCHANGED <<assessmentVars, content, grade, result, disturbed>>

-----------------------------------------------------------------------------
(* saveAssessmentAnswers *)
ReadForSave(r, n) ==
  /\ req[r].pc = "idle"
  /\ attempt[n] = "IN_PROGRESS"
  /\ req' = [req EXCEPT ![r] = Request("save", n, paper, NoAnswers, 0, 0, FALSE)]
  /\ Enter(n)
  /\ UNCHANGED <<assessmentVars, attemptVars>>

\* One transaction of upserts for the questions sent, which clear their grades.  It
\* fails as a whole when the paper read has been replaced or deleted.
SaveAnswers(r) ==
  LET n == req[r].n IN
  /\ req[r].pc = "save"
  /\ \E S \in SUBSET Paper[req[r].paper] :
       IF exists /\ paper = req[r].paper
       THEN /\ \E new \in [S -> Content \ {"none"}] :
                 content' = [content EXCEPT ![n] =
                   [q \in Questions |-> IF q \in S THEN new[q] ELSE content[n][q]]]
            /\ grade' = [grade EXCEPT ![n] =
                   [q \in Questions |-> IF q \in S THEN NoMark ELSE grade[n][q]]]
       ELSE UNCHANGED <<content, grade>>
  /\ Finish(r)
  /\ UNCHANGED <<assessmentVars, attempt, result, disturbed>>

-----------------------------------------------------------------------------
(* submitAssessment *)
ReadForSubmit(r, n) ==
  /\ req[r].pc = "idle"
  /\ attempt[n] = "IN_PROGRESS"
  /\ req' = [req EXCEPT ![r] =
               Request("submit", n, paper, content[n], 0, total, FALSE)]
  /\ Enter(n)
  /\ UNCHANGED <<assessmentVars, attemptVars>>

AwardedUncapped(q, c) == IF c = "right" THEN Mark[q] ELSE -Penalty

\* A wrong answer costs the penalty, but no more than the question is worth.
Awarded(q, c) ==
  IF c = "right" THEN Mark[q] ELSE IF Penalty < Mark[q] THEN -Penalty ELSE -Mark[q]

Answered(answers) == {q \in Questions : answers[q] \in {"right", "wrong"}}

\* The grades of the answers read, over the grades they replace.
GradeRightOnly(answers, old) ==
  [q \in Questions |->
     IF q \notin Answered(answers) THEN old[q]
     ELSE IF q \in Manual \/ answers[q] = "wrong" THEN NoMark ELSE Awarded(q, answers[q])]

AutoGrade(answers, old) ==
  [q \in Questions |->
     IF q \notin Answered(answers) THEN old[q]
     ELSE IF q \in Manual THEN NoMark ELSE Awarded(q, answers[q])]

\* What submitAssessment counts, from the answers read.
Points(answers) ==
  Sum([q \in Questions |->
         IF q \in Answered(answers) \ Manual THEN Awarded(q, answers[q]) ELSE NoMark])

\* One transaction: the grades of the answers read, by row id, then the status of
\* the attempt and its result, without looking at the status again.  It fails when
\* an answered question or the assessment is gone.
SubmitAttempt(r) ==
  LET n == req[r].n
      answers == req[r].answers
      review == Answered(answers) \cap Manual # {} IN
  /\ req[r].pc = "submit"
  /\ IF exists /\ (paper = req[r].paper \/ Answered(answers) = {})
     THEN /\ grade' = [grade EXCEPT ![n] = AutoGrade(answers, grade[n])]
          /\ attempt' = [attempt EXCEPT ![n] =
               IF review THEN "REVIEW_PENDING" ELSE "COMPLETED"]
          /\ result' = [result EXCEPT ![n] =
               [status |-> IF review THEN "PROVISIONAL" ELSE "FINALIZED",
                obtained |-> Points(answers), total |-> req[r].total]]
     ELSE UNCHANGED <<grade, attempt, result>>
  /\ Finish(r)
  /\ UNCHANGED <<assessmentVars, content, disturbed>>

-----------------------------------------------------------------------------
(* reviewAttempt.  Marks given to an answer are written with the reviewer's user *)
(* id in reviewedByTeacherId, which the foreign key to Teacher refuses, and the   *)
(* transaction rolls back: only a review with no marks has an effect.             *)

\* Any attempt may be reviewed.  The transaction adds up the grades it reads ...
ReadForReview(r, n, finalize) ==
  /\ req[r].pc = "idle"
  /\ attempt[n] \notin {"none", "gone"}
  /\ req' = [req EXCEPT ![r] =
               Request("review", n, 0, NoAnswers, Sum(grade[n]), total, finalize)]
  /\ Enter(n)
  /\ UNCHANGED <<assessmentVars, attemptVars>>

WriteReviewResultOnly(r) ==
  LET n == req[r].n IN
  /\ req[r].pc = "review"
  /\ result' = [result EXCEPT ![n] =
       [status |-> IF req[r].finalize THEN "FINALIZED" ELSE "PROVISIONAL",
        obtained |-> req[r].score, total |-> req[r].total]]
  /\ Finish(r)
  /\ UNCHANGED <<assessmentVars, attempt, content, grade, disturbed>>

\* ... and writes the result and the status of the attempt.
WriteReview(r) ==
  LET n == req[r].n IN
  /\ req[r].pc = "review"
  /\ IF exists
     THEN /\ attempt' = [attempt EXCEPT ![n] =
               IF req[r].finalize THEN "COMPLETED" ELSE "REVIEW_PENDING"]
          /\ result' = [result EXCEPT ![n] =
               [status |-> IF req[r].finalize THEN "FINALIZED" ELSE "PROVISIONAL",
                obtained |-> req[r].score, total |-> req[r].total]]
     ELSE UNCHANGED <<attempt, result>>
  /\ Finish(r)
  /\ UNCHANGED <<assessmentVars, content, grade, disturbed>>

-----------------------------------------------------------------------------
(* Administration *)

\* bulkUpdateStatus, an update of the status or of the window, or the clock.
ChangeAvailability ==
  /\ exists
  /\ open' = ~open
  /\ UNCHANGED <<exists, limit, topLimit, paper, total, attemptVars, req, disturbed>>

\* update, of allowMultipleAttempts and maxAttempts
ChangeLimit ==
  /\ exists
  /\ limit' \in Limits \ {limit}
  /\ topLimit' = IF limit' > topLimit THEN limit' ELSE topLimit
  /\ UNCHANGED <<open, exists, paper, total, attemptVars, req, disturbed>>

\* update with questions: the old ones are deleted, and every answer with them,
\* whoever is taking the assessment; attempts and results stay.
ReplaceQuestions ==
  /\ exists
  /\ paper < Versions
  /\ paper' = paper + 1
  /\ total' = PaperTotal(paper + 1)
  /\ content' = [n \in Attempts |-> NoAnswers]
  /\ grade' = [n \in Attempts |-> NoGrades]
  /\ disturbed' = disturbed \cup {n \in Attempts : attempt[n] # "none"}
  /\ UNCHANGED <<open, exists, limit, topLimit, attempt, result, req>>

\* delete, bulkDelete: attempts, answers and results cascade.
DeleteAssessment ==
  /\ exists
  /\ exists' = FALSE
  /\ attempt' = [n \in Attempts |-> IF attempt[n] = "none" THEN "none" ELSE "gone"]
  /\ content' = [n \in Attempts |-> NoAnswers]
  /\ grade' = [n \in Attempts |-> NoGrades]
  /\ result' = [n \in Attempts |-> NoResult]
  /\ UNCHANGED <<open, limit, topLimit, paper, total, req, disturbed>>

\* The process stops, or a database call fails.
Abort(r) ==
  /\ req[r].pc # "idle"
  /\ Finish(r)
  /\ UNCHANGED <<assessmentVars, attemptVars, disturbed>>

-----------------------------------------------------------------------------
RequestStep(r) ==
  \/ ReadForStart(r)
  \/ CreateAttempt(r)
  \/ SaveAnswers(r)
  \/ SubmitAttempt(r)
  \/ WriteReview(r)
  \/ Abort(r)
  \/ \E n \in Attempts :
       \/ ReadForSave(r, n)
       \/ ReadForSubmit(r, n)
       \/ \E finalize \in BOOLEAN : ReadForReview(r, n, finalize)

Administration ==
  \/ ChangeAvailability
  \/ ChangeLimit
  \/ ReplaceQuestions
  \/ DeleteAssessment

Next == Administration \/ \E r \in Requests : RequestStep(r)

Spec == Init /\ [][Next]_vars

-----------------------------------------------------------------------------
(* Properties *)

StageOf(status) ==
  CASE status = "IN_PROGRESS" -> "open"
    [] status \in Submitted -> "submitted"
    [] OTHER -> status

Attempted == INSTANCE AttemptBook WITH
  stage <- [n \in Attempts |-> StageOf(attempt[n])]

\* Whatever requests overlap, the attempts are numbered in sequence, one is in
\* progress at a time and none returns to progress: what AttemptBook promises.
ImplementsBook == Attempted!BookSpec

\* A student never has more attempts than the highest limit the assessment had,
\* although starts check the limit before they create.
AttemptLimit == \A n \in Attempts : attempt[n] # "none" => n <= topLimit

\* Submission and review write an attempt and its result in two statements of one
\* transaction: a final result is that of a completed attempt, a provisional one of
\* an attempt that waits for review, and an attempt in progress has none.
ResultMatchesStatus ==
  \A n \in Attempts :
    /\ attempt[n] = "COMPLETED" <=> result[n].status = "FINALIZED"
    /\ attempt[n] = "REVIEW_PENDING" <=> result[n].status = "PROVISIONAL"

\* No result exceeds the total it is reported against, nor falls below its
\* negative, under negative marking, stale submissions and replaced papers alike.
ResultWithinTotal ==
  \A n \in Attempts :
    -result[n].total <= result[n].obtained /\ result[n].obtained <= result[n].total

\* The marks reported for a submitted attempt are those on its answers, unless
\* requests on it overlapped or the paper was replaced under it.
ScoreIsSumOfGrades ==
  \A n \in Attempts \ disturbed :
    attempt[n] \in Submitted => result[n].obtained = Sum(grade[n])

\* 'Only in-progress attempts can be updated': an answer is written only while its
\* attempt is in progress.
OnlyInProgressUpdated ==
  [][\A n \in Attempts, q \in Questions :
       content'[n][q] \notin {"none", content[n][q]} => attempt[n] = "IN_PROGRESS"]_vars

=============================================================================
