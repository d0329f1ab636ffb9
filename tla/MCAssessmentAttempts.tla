------------------------ MODULE MCAssessmentAttempts ------------------------
(* Instances of AssessmentAttempts for TLC. *)
EXTENDS AssessmentAttempts, TLC

\* An objective and a subjective question, later replaced by a shorter paper.
ThreeQuestions == {"mcq", "essay", "new"}
TwoPapers == << {"mcq", "essay"}, {"new"} >>
EssayManual == {"essay"}
ThreeMarks == [q \in ThreeQuestions |-> IF q = "mcq" THEN 2 ELSE 1]

\* A paper of one question, for the life of the attempts.
OneQuestion == {"mcq"}
OnePaper == << {"mcq"} >>
OneMark == [q \in OneQuestion |-> 1]

Overlapping == Permutations(Requests)

=============================================================================
