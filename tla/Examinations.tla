---------------------------- MODULE Examinations ----------------------------
(***************************************************************************)
(* Exams and the results of students (ExamsService, ExamResultsService).   *)
(* An exam has one row per subject with its marks, called a paper here; a  *)
(* result has one row per paper, called an item, and keeps the sum of its  *)
(* items and the percentage of the exam's marks beside them.  An item      *)
(* names its paper and a subject as the payload does: nothing compares     *)
(* them with the exam of the result or the subject of the paper.           *)
(*                                                                         *)
(* A change of a result or an exam is a request of several database calls. *)
(* It reads what it needs, then replaces the children of the row in one    *)
(* transaction under READ COMMITTED: the delete takes the rows committed   *)
(* when it runs, and rows that another request inserts later stay beside   *)
(* the ones it inserts itself, unless the unique key refuses them.         *)
(*                                                                         *)
(* A definition whose name is not used below is a faulty variant of the    *)
(* one that follows it, for the mutation runs.                             *)
(***************************************************************************)
EXTENDS Integers, FiniteSets, Functions, FiniteSetsExt

CONSTANTS
  Exams,
  Papers,        \* rows of ExamSubject
  ExamSubjects,  \* subjects of the organization
  Results,       \* rows of StudentExamResult
  Examinees,     \* students
  PaperMarks,    \* totalMarks of a paper
  Obtained,      \* obtainedMarks of an item; nothing bounds them by the paper's
  Sheets,        \* lists of items a payload may hold
  Clerks,        \* requests under way at once
  MaxExamOps,    \* bound of the model: requests
  NoExam

ASSUME ExamAssumption ==
  /\ MaxExamOps \in Nat
  /\ IsFiniteSet(Papers) /\ IsFiniteSet(ExamSubjects)
  /\ PaperMarks \subseteq Nat /\ Obtained \subseteq Nat
  /\ NoExam \notin Exams \cup ExamSubjects \cup Results \cup Examinees

VARIABLES
  exam,      \* NONE, DRAFT or PUBLISHED for every exam
  examPaper,     \* the exam, subject and marks of a paper
  examResult,    \* rows of results
  item,      \* items of a result: a function of the papers it has rows for
  edit,      \* requests: program counter and locals
  examOps,   \* requests so far (bounds the model)
  loose      \* results whose totals no longer follow from their items (history)

examVars == <<exam, examPaper, examResult, item, edit, examOps, loose>>

NoExamPaper == [exam |-> NoExam, subject |-> NoExam, marks |-> 0]

ExamPaper == [exam : Exams, subject : ExamSubjects, marks : PaperMarks]

NoExamResult == [exam |-> NoExam, student |-> NoExam, total |-> 0, percentage |-> 0,
             grade |-> "F", status |-> "NONE"]

Letters == {"A+", "A", "B", "C", "D", "F"}

ExamResult == [exam : Exams, student : Examinees, total : Nat, percentage : Nat,
           grade : Letters, status : {"DRAFT", "PUBLISHED"}]

NoItems == [p \in {} |-> 0]

\* The unique key of an item is its result and its paper.
Item == [marks : Obtained, subject : ExamSubjects]

ItemMarks == UNION {[P -> Item] : P \in SUBSET Papers}

ASSUME SheetsAssumption == Sheets \subseteq ItemMarks

\* A request that creates a result holds its payload and the marks of the exam it
\* has read (create); one that changes a result has yet to delete its items
\* (delete) or to write (write).  Its payload may name an exam (moves), a student
\* and items (given).  kept are the items inserted since the delete ran, stale
\* says that the papers of the exam changed after it was read (history).
IdleEdit == [pc |-> "idle", id |-> NoExam, exam |-> NoExam, moves |-> FALSE,
             student |-> NoExam, given |-> FALSE, items |-> NoItems, full |-> 0,
             kept |-> {}, stale |-> FALSE]

Edit == [pc : {"idle", "create", "delete", "write"}, id : Results \cup {NoExam},
         exam : Exams \cup {NoExam}, moves : BOOLEAN, student : Examinees \cup {NoExam},
         given : BOOLEAN, items : ItemMarks, full : Nat, kept : SUBSET Papers, stale : BOOLEAN]

ExamTypeOK ==
  /\ exam \in [Exams -> {"NONE", "DRAFT", "PUBLISHED"}]
  /\ examPaper \in [Papers -> ExamPaper \cup {NoExamPaper}]
  /\ examResult \in [Results -> ExamResult \cup {NoExamResult}]
  /\ item \in [Results -> ItemMarks]
  /\ edit \in [Clerks -> Edit]
  /\ examOps \in Nat
  /\ loose \subseteq Results
  /\ \A p \in Papers : examPaper[p] # NoExamPaper => exam[examPaper[p].exam] # "NONE"
  /\ \A r \in Results : /\ examResult[r] # NoExamResult => exam[examResult[r].exam] # "NONE"
                        /\ examResult[r] = NoExamResult => item[r] = NoItems
                        /\ \A p \in DOMAIN item[r] : examPaper[p] # NoExamPaper

PapersOf(E) == {p \in Papers : examPaper[p].exam \in E}

\* One paper per exam and subject.
Distinct(papers) ==
  \A p, q \in Papers :
    papers[p] # NoExamPaper /\ p # q
      => <<papers[p].exam, papers[p].subject>> # <<papers[q].exam, papers[q].subject>>

\* Rows f beside those of g that they do not replace.
Over(f, g) == [p \in DOMAIN f \cup DOMAIN g |-> IF p \in DOMAIN f THEN f[p] ELSE g[p]]

\* Some exams are there with their papers.
ExamInit ==
  /\ exam = [e \in Exams |-> "DRAFT"]
  /\ examPaper \in [Papers -> ExamPaper \cup {NoExamPaper}] /\ Distinct(examPaper)
  /\ examResult = [r \in Results |-> NoExamResult]
  /\ item = [r \in Results |-> NoItems]
  /\ edit = [k \in Clerks |-> IdleEdit]
  /\ examOps = 0
  /\ loose = {}

-----------------------------------------------------------------------------
(* Figures. *)
Total(items) == SumFunction([p \in DOMAIN items |-> items[p].marks])

FullMarks(e) == SumFunctionOnSet([p \in Papers |-> examPaper[p].marks], PapersOf({e}))

Percentage(total, full) == IF full > 0 THEN (100 * total) \div full ELSE 0

\* getGrade
GetGrade(percentage) ==
  CASE percentage >= 90 -> "A+"
    [] percentage >= 80 -> "A"
    [] percentage >= 70 -> "B"
    [] percentage >= 60 -> "C"
    [] percentage >= 50 -> "D"
    [] OTHER -> "F"

ExamRequest == examOps < MaxExamOps /\ examOps' = examOps + 1

-----------------------------------------------------------------------------
(* Exams. *)

\* The items stay.
KeepOrphans(G, E, K) ==
  /\ edit' = [k \in Clerks |->
       IF k \in K THEN IdleEdit ELSE [edit[k] EXCEPT !.stale = @ \/ edit[k].exam \in E]]
  /\ loose' = loose \cup {r \in Results :
       examResult[r] # NoExamResult /\ (examResult[r].exam \in E \/ DOMAIN item[r] \cap G[r] # {})}
  /\ UNCHANGED item

\* What becomes of items and requests when the items for papers G[r] of each result
\* r go, exams E have other papers than before and requests K end.
Unsettle(G, E, K) ==
  /\ item' = [r \in Results |-> [p \in DOMAIN item[r] \ G[r] |-> item[r][p]]]
  /\ edit' = [k \in Clerks |->
       IF k \in K THEN IdleEdit
       ELSE [edit[k] EXCEPT !.kept = {p \in @ : p \notin G[edit[k].id]},
                            !.stale = @ \/ edit[k].exam \in E]]
  /\ loose' = loose \cup {r \in Results :
       examResult[r] # NoExamResult /\ (examResult[r].exam \in E \/ DOMAIN item[r] \cap G[r] # {})}

Removed(P) == [p \in Papers |-> IF p \in P THEN NoExamPaper ELSE examPaper[p]]

\* Ids that no row and no request refers to.
FreshPapers ==
  {p \in Papers : examPaper[p] = NoExamPaper /\ \A k \in Clerks : p \notin DOMAIN edit[k].items}

Assigned(e, N) ==
  {f \in [N -> ExamPaper] :
     \A p \in N : f[p].exam = e /\ \A q \in N \ {p} : f[p].subject # f[q].subject}

CreateExam(e, N) ==
  /\ ExamRequest
  /\ exam[e] = "NONE" /\ \A k \in Clerks : edit[k].exam # e
  /\ N \subseteq FreshPapers
  /\ \E f \in Assigned(e, N), st \in {"DRAFT", "PUBLISHED"} :
       /\ exam' = [exam EXCEPT ![e] = st]
       /\ examPaper' = Over(f, examPaper)
  /\ UNCHANGED <<examResult, item, edit, loose>>

\* With subjects in the payload the papers are replaced, which takes the items
\* of every result along; a payload without the flag takes the exam back.
UpdateExam(e, N, replace, st) ==
  /\ ExamRequest
  /\ exam[e] # "NONE"
  /\ N \subseteq FreshPapers /\ (replace \/ N = {})
  /\ exam' = [exam EXCEPT ![e] = st]
  /\ IF replace
     THEN /\ \E f \in Assigned(e, N) :
               examPaper' = Over(f, Removed(PapersOf({e})))
          /\ Unsettle([r \in Results |-> PapersOf({e})], {e}, {})
     ELSE UNCHANGED <<examPaper, item, edit, loose>>
  /\ UNCHANGED examResult

\* The results of an exam go with it.
DeleteExams(E) ==
  /\ ExamRequest
  /\ E # {} /\ \A e \in E : exam[e] # "NONE"
  /\ LET R == {r \in Results : examResult[r].exam \in E}
     IN /\ examResult' = [r \in Results |-> IF r \in R THEN NoExamResult ELSE examResult[r]]
        /\ item' = [r \in Results |->
             IF r \in R THEN NoItems ELSE [p \in DOMAIN item[r] \ PapersOf(E) |-> item[r][p]]]
        /\ loose' = (loose \ R) \cup {r \in Results \ R : DOMAIN item[r] \cap PapersOf(E) # {}}
  /\ exam' = [e \in Exams |-> IF e \in E THEN "NONE" ELSE exam[e]]
  /\ examPaper' = Removed(PapersOf(E))
  /\ edit' = [k \in Clerks |-> [edit[k] EXCEPT !.kept = @ \ PapersOf(E)]]

BulkPublish(E, published) ==
  /\ ExamRequest
  /\ E # {} /\ \A e \in E : exam[e] # "NONE"
  /\ exam' = [e \in Exams |->
       IF e \in E THEN IF published THEN "PUBLISHED" ELSE "DRAFT" ELSE exam[e]]
  /\ UNCHANGED <<examPaper, examResult, item, edit, loose>>

\* Requests whose items name one of the subjects.
Naming(U) == {k \in Clerks : \E p \in DOMAIN edit[k].items : edit[k].items[p].subject \in U}

\* SubjectsService.delete, as far as exams go: the papers of the subjects and the
\* items that name them go.  A request whose items name one cannot but be refused
\* when it writes: it ends here, and the name stands for another subject from now on.
DropSubjects(U) ==
  LET P == {p \in Papers : examPaper[p].subject \in U}
      gone == [r \in Results |-> P \cup {p \in DOMAIN item[r] : item[r][p].subject \in U}]
  IN /\ ExamRequest
     /\ U # {}
     /\ examPaper' = Removed(P)
     /\ Unsettle(gone, {examPaper[p].exam : p \in P}, Naming(U))
     /\ UNCHANGED <<exam, examResult>>

-----------------------------------------------------------------------------
(* Results. *)
\* create: the exam is read.  Any paper and subject may stand in the items.
ReadForCreate(k, r, e, s, items) ==
  /\ ExamRequest
  /\ edit[k].pc = "idle"
  /\ examResult[r] = NoExamResult /\ \A j \in Clerks : edit[j].id # r
  /\ exam[e] # "NONE"
  /\ edit' = [edit EXCEPT ![k] = [IdleEdit EXCEPT !.pc = "create", !.id = r, !.exam = e,
                !.student = s, !.items = items, !.full = FullMarks(e)]]
  /\ UNCHANGED <<exam, examPaper, examResult, item, loose>>

\* The key of a result for exam e and student s, and the papers it has items for.
Writable(k, e, s) ==
  /\ exam[e] # "NONE"
  /\ \A q \in Results \ {edit[k].id} :
       examResult[q] # NoExamResult
         => <<examResult[q].exam, examResult[q].student>> # <<e, s>>
  /\ \A p \in DOMAIN edit[k].items : examPaper[p] # NoExamPaper

\* The row and its items in one write.
InsertResult(k, st) ==
  LET x == edit[k]
      percentage == Percentage(Total(x.items), x.full)
  IN /\ x.pc = "create"
     /\ Writable(k, x.exam, x.student)
     /\ examResult' = [examResult EXCEPT ![x.id] =
          [exam |-> x.exam, student |-> x.student, total |-> Total(x.items),
           percentage |-> percentage, grade |-> GetGrade(percentage), status |-> st]]
     /\ item' = [item EXCEPT ![x.id] = x.items]
     /\ loose' = IF x.stale THEN loose \cup {x.id} ELSE loose
     /\ edit' = [edit EXCEPT ![k] = IdleEdit]
     /\ UNCHANGED <<exam, examPaper, examOps>>

\* update: the result and the exam of the payload are read, the result's own exam
\* when the payload names none; s is NoExam for a payload without a student.
ReadForUpdate(k, r, e, moves, s, given, items) ==
  /\ ExamRequest
  /\ edit[k].pc = "idle"
  /\ given \/ items = NoItems
  /\ examResult[r] # NoExamResult
  /\ exam[e] # "NONE" /\ (moves \/ e = examResult[r].exam)
  /\ edit' = [edit EXCEPT ![k] = [IdleEdit EXCEPT
                !.pc = IF given THEN "delete" ELSE "write", !.id = r, !.exam = e,
                !.moves = moves, !.student = s,
                !.given = given, !.items = items, !.full = FullMarks(e)]]
  /\ UNCHANGED <<exam, examPaper, examResult, item, loose>>

DeleteItems(k) ==
  /\ edit[k].pc = "delete"
  /\ edit' = [edit EXCEPT ![k].pc = "write", ![k].kept = {}]
  /\ UNCHANGED <<exam, examPaper, examResult, item, examOps, loose>>

\* The items of other requests as the commit of k leaves them.
Rebased(k) ==
  [j \in Clerks |->
     IF j = k THEN IdleEdit
     ELSE IF edit[j].id = edit[k].id /\ edit[k].given
     THEN [edit[j] EXCEPT !.kept = (@ \cap edit[k].kept) \cup DOMAIN edit[k].items]
     ELSE edit[j]]

\* The exam and the student a result has after an update.
ExamAfter(k) == IF edit[k].moves THEN edit[k].exam ELSE examResult[edit[k].id].exam

StudentAfter(k) ==
  IF edit[k].student # NoExam THEN edit[k].student ELSE examResult[edit[k].id].student

\* The rows of the result are not deleted first.
KeepItems(k, st) ==
  LET x == edit[k]
      e == ExamAfter(k)
      percentage == Percentage(Total(x.items), x.full)
  IN /\ x.pc = "write"
     /\ examResult[x.id] # NoExamResult
     /\ Writable(k, e, StudentAfter(k))
     /\ DOMAIN item[x.id] \cap DOMAIN x.items = {}
     /\ x.items # NoItems /\ x.full > 0
     /\ examResult' = [examResult EXCEPT ![x.id] = [@ EXCEPT
          !.exam = e, !.student = StudentAfter(k), !.status = st, !.total = Total(x.items),
          !.percentage = percentage, !.grade = GetGrade(percentage)]]
     /\ item' = [item EXCEPT ![x.id] = Over(x.items, @)]
     /\ loose' = IF x.stale \/ e # x.exam THEN loose \cup {x.id} ELSE loose \ {x.id}
     /\ edit' = Rebased(k)
     /\ UNCHANGED <<exam, examPaper, examOps>>

\* The commit.  Without items in the payload the figures stay; with items the
\* percentage stays when the exam has no marks.
WriteResult(k, st) ==
  LET x == edit[k]
      r == x.id
      e == ExamAfter(k)
      counted == x.items # NoItems
      graded == counted /\ x.full > 0
      percentage == IF graded THEN Percentage(Total(x.items), x.full) ELSE examResult[r].percentage
  IN /\ x.pc = "write"
     /\ examResult[r] # NoExamResult
     /\ Writable(k, e, StudentAfter(k))
     /\ x.given => x.kept \cap DOMAIN x.items = {}
     /\ examResult' = [examResult EXCEPT ![r] = [examResult[r] EXCEPT
          !.exam = e, !.student = StudentAfter(k), !.status = st,
          !.total = IF counted THEN Total(x.items) ELSE @,
          !.percentage = percentage,
          !.grade = IF graded THEN GetGrade(percentage) ELSE @]]
     /\ item' = IF x.given
                THEN [item EXCEPT ![r] = Over(x.items, [p \in x.kept |-> item[r][p]])]
                ELSE item
     /\ loose' = IF graded /\ ~x.stale /\ x.kept = {} /\ e = x.exam THEN loose \ {r}
                 ELSE IF x.given \/ e # examResult[r].exam THEN loose \cup {r} ELSE loose
     /\ edit' = Rebased(k)
     /\ UNCHANGED <<exam, examPaper, examOps>>

\* A row is missing, a key is taken, or the process stops: nothing is written.
DropEdit(k) ==
  /\ edit[k].pc # "idle"
  /\ edit' = [edit EXCEPT ![k] = IdleEdit]
  /\ UNCHANGED <<exam, examPaper, examResult, item, examOps, loose>>

DeleteResults(R) ==
  /\ ExamRequest
  /\ R # {} /\ \A r \in R : examResult[r] # NoExamResult
  /\ examResult' = [r \in Results |-> IF r \in R THEN NoExamResult ELSE examResult[r]]
  /\ item' = [r \in Results |-> IF r \in R THEN NoItems ELSE item[r]]
  /\ loose' = loose \ R
  /\ UNCHANGED <<exam, examPaper, edit>>

-----------------------------------------------------------------------------
ExamStep(k) ==
  \/ \E r \in Results, e \in Exams, items \in Sheets :
       \/ \E s \in Examinees : ReadForCreate(k, r, e, s, items)
       \/ \E moves, given \in BOOLEAN, s \in Examinees \cup {NoExam} :
            ReadForUpdate(k, r, e, moves, s, given, items)
  \/ \E st \in {"DRAFT", "PUBLISHED"} : InsertResult(k, st) \/ WriteResult(k, st)
  \/ DeleteItems(k) \/ DropEdit(k)

ExamChange ==
  \/ \E k \in Clerks : ExamStep(k)
  \/ \E e \in Exams, N \in SUBSET Papers :
       \/ CreateExam(e, N)
       \/ \E replace \in BOOLEAN, st \in {"DRAFT", "PUBLISHED"} : UpdateExam(e, N, replace, st)
  \/ \E E \in SUBSET Exams :
       DeleteExams(E) \/ \E published \in BOOLEAN : BulkPublish(E, published)
  \/ \E R \in SUBSET Results : DeleteResults(R)

ExamNext == ExamChange \/ \E U \in SUBSET ExamSubjects : DropSubjects(U)

ExamSpec == ExamInit /\ [][ExamNext]_examVars

-----------------------------------------------------------------------------
(* Properties. *)

\* The total of a result is the sum of its items, its percentage is that of its
\* exam's marks and its grade follows, unless the papers changed under it, its
\* items were given as none, it moved to another exam without new items, or two
\* updates overlapped (exam-result-prisma.repository.ts:122, exam-prisma.repository.ts:94);
\* the next update with items puts it right.
ResultIsConsistent ==
  \A r \in Results : examResult[r] # NoExamResult =>
    /\ examResult[r].grade = GetGrade(examResult[r].percentage)
    /\ \/ r \in loose
       \/ /\ examResult[r].total = Total(item[r])
          /\ examResult[r].percentage = Percentage(Total(item[r]), FullMarks(examResult[r].exam))
=============================================================================
