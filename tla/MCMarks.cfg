CONSTANTS
  Requests = {r1, r2}
  AttemptBound = 1
  Questions <- ThreeQuestions
  Versions = 2
  Paper <- TwoPapers
  Manual <- EssayManual
  Mark <- ThreeMarks
  Penalty = 2
  Limits = {1}
  NoMark = NoMark
  Exams = {e1, e2}
  p1 = p1
  p2 = p2
  u1 = u1
  u2 = u2
  Papers = {p1, p2}
  ExamSubjects = {u1, u2}
  Sheets <- SomeSheets
  Results = {x1}
  Examinees = {s1, s2}
  PaperMarks = {2}
  Obtained = {1, 2}
  Clerks = {r1, r2}
  MaxExamOps = 3
  NoExam = NoExam
  Assignments = {a1}
  Quizzed <- NoneQuizzed
  Hands = {h1}
  Unmarked = Unmarked
SPECIFICATION MarksSpec
SYMMETRY Unlabelled
CHECK_DEADLOCK FALSE
INVARIANTS
  CardTypeOK
  ResultWithinTotal
  ScoreIsSumOfGrades
  ResultIsConsistent
  CardFollowsResults
