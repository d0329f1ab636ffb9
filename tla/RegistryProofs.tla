--------------------------- MODULE RegistryProofs ---------------------------
(***************************************************************************)
(* What the tables of the academic structure keep, for any number of rows  *)
(* and transactions: lessons refer to rows that are there, and one session *)
(* is current unless two were made current at once.                        *)
(***************************************************************************)
EXTENDS Registry, TLAPS

USE RegistryAssumption

\* A transaction that no other overtook has seen every current session.
SeesCurrent(t) == tx[t].pc = "set" => tx[t].crossed \/ Current \subseteq tx[t].clears \cup {tx[t].s}

RegistryInv ==
  /\ RegistryTypeOK
  /\ OneCurrentSession
  /\ \A t \in Txs : SeesCurrent(t)

-----------------------------------------------------------------------------
(* Tables. *)
Table(X, T) == [X -> T \cup {NoRow}]

LEMMA NoRowIsNone == NoRow \notin Row /\ NoRow \notin SessionRow /\ NoRow \notin Lesson
<1>1. NoRow \notin Row
  BY DEF NoRow, Row
<1>2. NoRow \notin SessionRow
  BY DEF NoRow, SessionRow
<1>3. NoRow \notin Lesson
  BY DEF NoRow, Lesson
<1> QED
  BY <1>1, <1>2, <1>3

\* Rows stay rows of their table when they are switched on or off.
LEMMA SwitchedRows ==
  \A active \in BOOLEAN :
    /\ \A r \in Row : [r EXCEPT !.active = active] \in Row
    /\ \A r \in SessionRow : /\ [r EXCEPT !.active = active] \in SessionRow
                             /\ [r EXCEPT !.active = active].current = r.current
    /\ \A r \in Lesson : /\ [r EXCEPT !.active = active] \in Lesson
                         /\ [r EXCEPT !.active = active].batch = r.batch
                         /\ [r EXCEPT !.active = active].subject = r.subject
                         /\ [r EXCEPT !.active = active].teacher = r.teacher
                         /\ [r EXCEPT !.active = active].session = r.session
<1> TAKE active \in BOOLEAN
<1>1. \A r \in Row : [r EXCEPT !.active = active] \in Row
  BY DEF Row
<1>2. \A r \in SessionRow : /\ [r EXCEPT !.active = active] \in SessionRow
                            /\ [r EXCEPT !.active = active].current = r.current
  BY DEF SessionRow
<1>3. ASSUME NEW r \in Lesson
      PROVE  /\ [r EXCEPT !.active = active] \in Lesson
             /\ [r EXCEPT !.active = active].batch = r.batch
             /\ [r EXCEPT !.active = active].subject = r.subject
             /\ [r EXCEPT !.active = active].teacher = r.teacher
             /\ [r EXCEPT !.active = active].session = r.session
  BY DEF Lesson
<1> QED
  BY <1>1, <1>2, <1>3

\* A row that is written leaves the others and adds at most itself.
LEMMA RowWritten ==
  ASSUME NEW X, NEW T, NEW table \in Table(X, T), NEW x \in X, NEW row \in T, NoRow \notin T
  PROVE  /\ Inserted(table, x, row) \in Table(X, T) /\ Changed(table, x, row) \in Table(X, T)
         /\ There(table) \subseteq There(Inserted(table, x, row))
         /\ There(table) \subseteq There(Changed(table, x, row))
         /\ \A y \in X : /\ \/ Inserted(table, x, row)[y] = table[y]
                            \/ Inserted(table, x, row)[y] = row
                         /\ Changed(table, x, row)[y] = table[y] \/ Changed(table, x, row)[y] = row
  BY DEF Table, Inserted, Changed, There

LEMMA RowsDropped ==
  ASSUME NEW X, NEW T, NEW table \in Table(X, T), NEW S, NoRow \notin T
  PROVE  /\ Without(table, S) \in Table(X, T)
         /\ There(Without(table, S)) = There(table) \ S
         /\ \A y \in X \ S : Without(table, S)[y] = table[y]
  BY DEF Table, Without, There

LEMMA RowsSwitched ==
  ASSUME NEW X, NEW T, NEW table \in Table(X, T), NEW S \in SUBSET There(table), NoRow \notin T,
         NEW active, \A r \in T : [r EXCEPT !.active = active] \in T
  PROVE  /\ Switched(table, S, active) \in Table(X, T)
         /\ There(Switched(table, S, active)) = There(table)
         /\ \A y \in X : \/ Switched(table, S, active)[y] = table[y]
                         \/ /\ table[y] \in T
                            /\ Switched(table, S, active)[y] = [table[y] EXCEPT !.active = active]
  BY DEF Table, Switched, There

-----------------------------------------------------------------------------
(* The parts of the invariant. *)
\* A step that makes no session current.
LEMMA NothingMadeCurrent ==
  ASSUME RegistryInv, UNCHANGED <<tx, overlapped>>, Current' \subseteq Current
  PROVE  OneCurrentSession' /\ \A t \in Txs : SeesCurrent(t)'
<1>1. OneCurrentSession'
  BY DEF RegistryInv, OneCurrentSession
<1>2. \A t \in Txs : SeesCurrent(t)'
  BY DEF RegistryInv, SeesCurrent
<1> QED
  BY <1>1, <1>2

\* A request on other tables than that of the sessions.
LEMMA OtherTables ==
  ASSUME RegistryInv, Op, session' = session,
         batch' \in Table(Batches, Row), subject' \in Table(Subjects, Row),
         teacher' \in Table(Teachers, Row),
         link' \in Table(Links, Lesson), entry' \in Table(Entries, Lesson),
         login' \subseteq Teachers, Refers(link)', Refers(entry)'
  PROVE  RegistryInv'
<1>1. UNCHANGED <<tx, overlapped>> /\ ops' \in Nat
  BY DEF Op, RegistryInv, RegistryTypeOK
<1>2. RegistryTypeOK'
  BY <1>1 DEF RegistryInv, RegistryTypeOK, Table
<1>3. Current' = Current
  BY DEF Current, There
<1> QED
  BY <1>1, <1>2, <1>3, NothingMadeCurrent DEF RegistryInv

\* Nothing a lesson refers to is taken away.
LEMMA StillThere ==
  ASSUME RegistryInv, There(batch) \subseteq There(batch'),
         There(subject) \subseteq There(subject'),
         There(teacher) \subseteq There(teacher'), There(session) \subseteq There(session'),
         UNCHANGED lessons
  PROVE  /\ Refers(link)' /\ Refers(entry)'
         /\ link' \in Table(Links, Lesson) /\ entry' \in Table(Entries, Lesson)
<1>1. link' = link /\ entry' = entry
  BY DEF lessons
<1>2. Refers(link)' /\ Refers(entry)'
  BY <1>1 DEF RegistryInv, RegistryTypeOK, Refers, There
<1> QED
  BY <1>1, <1>2 DEF RegistryInv, RegistryTypeOK, Table

LEMMA RegistryTables ==
  ASSUME RegistryInv
  PROVE  /\ session \in Table(Sessions, SessionRow) /\ batch \in Table(Batches, Row)
         /\ subject \in Table(Subjects, Row) /\ teacher \in Table(Teachers, Row)
         /\ link \in Table(Links, Lesson) /\ entry \in Table(Entries, Lesson)
         /\ login \subseteq Teachers /\ Refers(link) /\ Refers(entry)
  BY DEF RegistryInv, RegistryTypeOK, Table

-----------------------------------------------------------------------------
(* Batches, subjects and teachers are written. *)
LEMMA BatchWritten ==
  ASSUME RegistryInv, NEW x \in Batches, NEW row \in Row, CreateBatch(x, row) \/ UpdateBatch(x, row)
  PROVE  RegistryInv'
<1>1. /\ UNCHANGED <<session, subject, teacher, login, lessons>> /\ Op
      /\ batch' = Inserted(batch, x, row) \/ batch' = Changed(batch, x, row)
  BY DEF CreateBatch, UpdateBatch
<1>2. batch' \in Table(Batches, Row) /\ There(batch) \subseteq There(batch')
  BY <1>1, RegistryTables, RowWritten, NoRowIsNone
<1> QED
  BY <1>1, <1>2, RegistryTables, StillThere, OtherTables

LEMMA SubjectWritten ==
  ASSUME RegistryInv, NEW x \in Subjects, NEW row \in Row,
         CreateSubject(x, row) \/ UpdateSubject(x, row)
  PROVE  RegistryInv'
<1>1. /\ UNCHANGED <<session, batch, teacher, login, lessons>> /\ Op
      /\ subject' = Inserted(subject, x, row) \/ subject' = Changed(subject, x, row)
  BY DEF CreateSubject, UpdateSubject
<1>2. subject' \in Table(Subjects, Row) /\ There(subject) \subseteq There(subject')
  BY <1>1, RegistryTables, RowWritten, NoRowIsNone
<1> QED
  BY <1>1, <1>2, RegistryTables, StillThere, OtherTables

LEMMA TeacherWritten ==
  ASSUME RegistryInv, NEW x \in Teachers, NEW row \in Row, NEW access,
         CreateTeacher(x, row, access) \/ UpdateTeacher(x, row)
  PROVE  RegistryInv'
<1>1. UNCHANGED <<session, batch, subject, lessons>> /\ Op
  BY DEF CreateTeacher, UpdateTeacher
<1>2. \/ teacher' = teacher \/ teacher' = Inserted(teacher, x, row)
      \/ teacher' = Changed(teacher, x, row)
  BY DEF CreateTeacher, UpdateTeacher
<1>3. login' \subseteq Teachers
  BY RegistryTables DEF CreateTeacher, UpdateTeacher
<1>4. teacher' \in Table(Teachers, Row) /\ There(teacher) \subseteq There(teacher')
  BY <1>2, RegistryTables, RowWritten, NoRowIsNone
<1> QED
  BY <1>1, <1>3, <1>4, RegistryTables, StillThere, OtherTables

LEMMA PeopleSwitched ==
  ASSUME RegistryInv, NEW S, NEW active \in BOOLEAN,
         \/ BulkUpdateBatchStatus(S, active) \/ BulkUpdateSubjectStatus(S, active)
         \/ BulkUpdateTeacherStatus(S, active)
  PROVE  RegistryInv'
<1>0. (\A r \in Row : [r EXCEPT !.active = active] \in Row) /\ NoRow \notin Row
  BY SwitchedRows, NoRowIsNone
<1>1. CASE BulkUpdateBatchStatus(S, active)
  <2>1. /\ UNCHANGED <<session, subject, teacher, login, lessons>> /\ Op
        /\ S \in SUBSET There(batch) /\ batch' = Switched(batch, S, active)
    BY <1>1 DEF BulkUpdateBatchStatus, All
  <2>2. batch' \in Table(Batches, Row) /\ There(batch') = There(batch)
    BY <1>0, <2>1, RegistryTables DEF Table, Switched, There
  <2> QED
    BY <2>1, <2>2, RegistryTables, StillThere, OtherTables
<1>2. CASE BulkUpdateSubjectStatus(S, active)
  <2>1. /\ UNCHANGED <<session, batch, teacher, login, lessons>> /\ Op
        /\ S \in SUBSET There(subject) /\ subject' = Switched(subject, S, active)
    BY <1>2 DEF BulkUpdateSubjectStatus, All
  <2>2. subject' \in Table(Subjects, Row) /\ There(subject') = There(subject)
    BY <1>0, <2>1, RegistryTables, RowsSwitched
  <2> QED
    BY <2>1, <2>2, RegistryTables, StillThere, OtherTables
<1>3. CASE BulkUpdateTeacherStatus(S, active)
  <2>1. /\ UNCHANGED <<session, batch, subject, login, lessons>> /\ Op
        /\ S \in SUBSET There(teacher) /\ teacher' = Switched(teacher, S, active)
    BY <1>3 DEF BulkUpdateTeacherStatus, All
  <2>2. teacher' \in Table(Teachers, Row) /\ There(teacher') = There(teacher)
    BY <1>0, <2>1, RegistryTables, RowsSwitched
  <2> QED
    BY <2>1, <2>2, RegistryTables, StillThere, OtherTables
<1> QED
  BY <1>1, <1>2, <1>3

-----------------------------------------------------------------------------
(* Rows are deleted, and what refers to them goes along or lets go. *)

\* The lessons that are left after those in C went with what they refer to.
LEMMA LessonsDropped ==
  ASSUME RegistryInv, NEW X, NEW table \in Table(X, Lesson), NEW C, Refers(table),
         \A y \in There(table) \ C : table[y].batch \in There(batch'),
         \A y \in There(table) \ C : table[y].subject \in There(subject'),
         There(teacher) \subseteq There(teacher'), There(session) \subseteq There(session')
  PROVE  Without(table, C) \in Table(X, Lesson)
         /\ \A y \in There(Without(table, C)) :
              /\ Without(table, C)[y].batch \in There(batch')
              /\ Without(table, C)[y].subject \in There(subject')
              /\ Without(table, C)[y].teacher \in There(teacher') \cup {Null}
              /\ Without(table, C)[y].session \in There(session') \cup {Null}
<1>1. /\ Without(table, C) \in Table(X, Lesson)
      /\ There(Without(table, C)) = There(table) \ C
      /\ \A y \in X \ C : Without(table, C)[y] = table[y]
  BY RowsDropped, NoRowIsNone
<1>2. There(table) \subseteq X
  BY DEF There, Table
<1> QED
  BY <1>1, <1>2 DEF Refers

LEMMA BatchesDropped ==
  ASSUME RegistryInv, NEW S, BulkDeleteBatches(S)
  PROVE  RegistryInv'
<1>1. /\ UNCHANGED <<session, subject, teacher, login>> /\ Op
      /\ batch' = Without(batch, S)
      /\ link' = Without(link, OfBatch(link, S)) /\ entry' = Without(entry, OfBatch(entry, S))
  BY DEF BulkDeleteBatches, DropBatches
<1>2. batch' \in Table(Batches, Row) /\ There(batch') = There(batch) \ S
  BY <1>1, RegistryTables, RowsDropped, NoRowIsNone
<1>3. link' \in Table(Links, Lesson) /\ Refers(link)'
  <2>1. \A y \in There(link) \ OfBatch(link, S) :
          link[y].batch \in There(batch') /\ link[y].subject \in There(subject')
    BY <1>1, <1>2, RegistryTables DEF OfBatch, Refers
  <2> QED
    BY <1>1, <2>1, RegistryTables, LessonsDropped DEF Refers
<1>4. entry' \in Table(Entries, Lesson) /\ Refers(entry)'
  <2>1. \A y \in There(entry) \ OfBatch(entry, S) :
          entry[y].batch \in There(batch') /\ entry[y].subject \in There(subject')
    BY <1>1, <1>2, RegistryTables DEF OfBatch, Refers
  <2> QED
    BY <1>1, <2>1, RegistryTables, LessonsDropped DEF Refers
<1> QED
  BY <1>1, <1>2, <1>3, <1>4, RegistryTables, OtherTables

LEMMA SubjectsDropped ==
  ASSUME RegistryInv, NEW S, BulkDeleteSubjects(S)
  PROVE  RegistryInv'
<1>1. /\ UNCHANGED <<session, batch, teacher, login>> /\ Op
      /\ subject' = Without(subject, S)
      /\ link' = Without(link, OfSubject(link, S)) /\ entry' = Without(entry, OfSubject(entry, S))
  BY DEF BulkDeleteSubjects, DropSubjects
<1>2. subject' \in Table(Subjects, Row) /\ There(subject') = There(subject) \ S
  BY <1>1, RegistryTables, RowsDropped, NoRowIsNone
<1>3. link' \in Table(Links, Lesson) /\ Refers(link)'
  <2>1. \A y \in There(link) \ OfSubject(link, S) :
          link[y].batch \in There(batch') /\ link[y].subject \in There(subject')
    BY <1>1, <1>2, RegistryTables DEF OfSubject, Refers
  <2> QED
    BY <1>1, <2>1, RegistryTables, LessonsDropped DEF Refers
<1>4. entry' \in Table(Entries, Lesson) /\ Refers(entry)'
  <2>1. \A y \in There(entry) \ OfSubject(entry, S) :
          entry[y].batch \in There(batch') /\ entry[y].subject \in There(subject')
    BY <1>1, <1>2, RegistryTables DEF OfSubject, Refers
  <2> QED
    BY <1>1, <2>1, RegistryTables, LessonsDropped DEF Refers
<1> QED
  BY <1>1, <1>2, <1>3, <1>4, RegistryTables, OtherTables

\* A lesson loses what it may be without, and keeps the rest.
LEMMA LessonsLetGo ==
  ASSUME RegistryInv, NEW X, NEW table \in Table(X, Lesson), NEW S
  PROVE  /\ NoTeacher(table, S) \in Table(X, Lesson) /\ NoSession(table, S) \in Table(X, Lesson)
         /\ There(NoTeacher(table, S)) = There(table) /\ There(NoSession(table, S)) = There(table)
         /\ \A y \in There(table) :
              /\ NoTeacher(table, S)[y].batch = table[y].batch
              /\ NoTeacher(table, S)[y].subject = table[y].subject
              /\ NoTeacher(table, S)[y].session = table[y].session
              /\ \/ NoTeacher(table, S)[y].teacher = Null
                 \/ NoTeacher(table, S)[y].teacher = table[y].teacher /\ table[y].teacher \notin S
              /\ NoSession(table, S)[y].batch = table[y].batch
              /\ NoSession(table, S)[y].subject = table[y].subject
              /\ NoSession(table, S)[y].teacher = table[y].teacher
              /\ \/ NoSession(table, S)[y].session = Null
                 \/ NoSession(table, S)[y].session = table[y].session /\ table[y].session \notin S
<1>1. \A y \in X : table[y] \in Lesson \/ table[y] = NoRow
  BY DEF Table
<1>2. There(table) = {y \in X : table[y] # NoRow}
  BY DEF There, Table
<1>3. ASSUME NEW l \in Lesson
      PROVE  /\ [l EXCEPT !.teacher = Null] \in Lesson /\ [l EXCEPT !.session = Null] \in Lesson
             /\ [l EXCEPT !.teacher = Null].batch = l.batch
             /\ [l EXCEPT !.teacher = Null].subject = l.subject
             /\ [l EXCEPT !.teacher = Null].session = l.session
             /\ [l EXCEPT !.teacher = Null].teacher = Null
             /\ [l EXCEPT !.session = Null].batch = l.batch
             /\ [l EXCEPT !.session = Null].subject = l.subject
             /\ [l EXCEPT !.session = Null].teacher = l.teacher
             /\ [l EXCEPT !.session = Null].session = Null
  BY DEF Lesson
<1>4. NoTeacher(table, S) = [y \in X |->
        IF y \in There(table) /\ table[y].teacher \in S
        THEN [table[y] EXCEPT !.teacher = Null] ELSE table[y]]
  BY DEF NoTeacher, Table
<1>5. NoSession(table, S) = [y \in X |->
        IF y \in There(table) /\ table[y].session \in S
        THEN [table[y] EXCEPT !.session = Null] ELSE table[y]]
  BY DEF NoSession, Table
<1>6. NoTeacher(table, S) \in Table(X, Lesson) /\ There(NoTeacher(table, S)) = There(table)
  <2>1. ASSUME NEW y \in X
        PROVE  /\ NoTeacher(table, S)[y] \in Lesson \cup {NoRow}
               /\ NoTeacher(table, S)[y] = NoRow <=> table[y] = NoRow
    <3>1. CASE y \in There(table) /\ table[y].teacher \in S
      <4>1. NoTeacher(table, S)[y] = [table[y] EXCEPT !.teacher = Null]
        BY <3>1, <1>4
      <4>2. table[y] \in Lesson
        BY <3>1, <1>1, <1>2
      <4> QED
        BY <4>1, <4>2, <1>3, NoRowIsNone
    <3>2. CASE ~(y \in There(table) /\ table[y].teacher \in S)
      BY <3>2, <1>1, <1>4
    <3> QED
      BY <3>1, <3>2
  <2>2. NoTeacher(table, S) \in Table(X, Lesson)
    BY <1>4, <2>1 DEF Table
  <2>3. There(NoTeacher(table, S)) = {y \in X : NoTeacher(table, S)[y] # NoRow}
    BY <2>2 DEF There, Table
  <2> QED
    BY <1>2, <2>1, <2>2, <2>3
<1>7. NoSession(table, S) \in Table(X, Lesson) /\ There(NoSession(table, S)) = There(table)
  <2>1. ASSUME NEW y \in X
        PROVE  /\ NoSession(table, S)[y] \in Lesson \cup {NoRow}
               /\ NoSession(table, S)[y] = NoRow <=> table[y] = NoRow
    <3>1. CASE y \in There(table) /\ table[y].session \in S
      <4>1. NoSession(table, S)[y] = [table[y] EXCEPT !.session = Null]
        BY <3>1, <1>5
      <4>2. table[y] \in Lesson
        BY <3>1, <1>1, <1>2
      <4> QED
        BY <4>1, <4>2, <1>3, NoRowIsNone
    <3>2. CASE ~(y \in There(table) /\ table[y].session \in S)
      BY <3>2, <1>1, <1>5
    <3> QED
      BY <3>1, <3>2
  <2>2. NoSession(table, S) \in Table(X, Lesson)
    BY <1>5, <2>1 DEF Table
  <2>3. There(NoSession(table, S)) = {y \in X : NoSession(table, S)[y] # NoRow}
    BY <2>2 DEF There, Table
  <2> QED
    BY <1>2, <2>1, <2>2, <2>3
<1> QED
  BY <1>1, <1>2, <1>3, <1>4, <1>5, <1>6, <1>7

LEMMA TeachersDropped ==
  ASSUME RegistryInv, NEW S, BulkDeleteTeachers(S)
  PROVE  RegistryInv'
<1>1. /\ UNCHANGED <<session, batch, subject, login>> /\ Op
      /\ teacher' = Without(teacher, S)
      /\ link' = NoTeacher(link, S) /\ entry' = NoTeacher(entry, S)
  BY DEF BulkDeleteTeachers, DropTeachers
<1>2. teacher' \in Table(Teachers, Row) /\ There(teacher') = There(teacher) \ S
  BY <1>1, RegistryTables, RowsDropped, NoRowIsNone
<1>3. link' \in Table(Links, Lesson) /\ Refers(link)'
  BY <1>1, <1>2, RegistryTables, LessonsLetGo DEF Refers
<1>4. entry' \in Table(Entries, Lesson) /\ Refers(entry)'
  BY <1>1, <1>2, RegistryTables, LessonsLetGo DEF Refers
<1> QED
  BY <1>1, <1>2, <1>3, <1>4, RegistryTables, OtherTables

-----------------------------------------------------------------------------
(* Links and timetable entries. *)
LEMMA LessonsWritten ==
  ASSUME RegistryInv, NEW row \in Lesson,
         \/ \E x \in Links : CreateLink(x, row) \/ UpdateLink(x, row)
         \/ \E x \in Entries : SaveEntry(x, row)
  PROVE  RegistryInv'
<1>1. UNCHANGED <<session, batch, subject, teacher, login>> /\ Op /\ Stands(row)
  BY DEF CreateLink, UpdateLink, SaveEntry, people
<1>2. \/ entry' = entry /\ \E x \in Links : link' = [link EXCEPT ![x] = row]
      \/ link' = link /\ \E x \in Entries : entry' = [entry EXCEPT ![x] = row]
  BY DEF CreateLink, UpdateLink, SaveEntry
<1>3. link' \in Table(Links, Lesson) /\ entry' \in Table(Entries, Lesson)
  BY <1>2, RegistryTables DEF Table
<1>4. Refers(link)' /\ Refers(entry)'
  <2>1. /\ \A y \in There(link') : link'[y] = row \/ (y \in There(link) /\ link'[y] = link[y])
        /\ \A y \in There(entry') :
             entry'[y] = row \/ (y \in There(entry) /\ entry'[y] = entry[y])
    BY <1>2, RegistryTables DEF Table, There
  <2> QED
    BY <1>1, <2>1, RegistryTables DEF Refers, Stands
<1> QED
  BY <1>1, <1>3, <1>4, RegistryTables, OtherTables

LEMMA LessonsChanged ==
  ASSUME RegistryInv, NEW S, NEW active \in BOOLEAN,
         BulkDeleteLinks(S) \/ BulkUpdateLinkStatus(S, active) \/ BulkDeleteEntries(S)
  PROVE  RegistryInv'
<1>1. UNCHANGED <<session, batch, subject, teacher, login>> /\ Op
  BY DEF BulkDeleteLinks, BulkUpdateLinkStatus, BulkDeleteEntries, people
<1>2. \/ entry' = entry /\ link' = Without(link, S)
      \/ entry' = entry /\ link' = Switched(link, S, active) /\ S \in SUBSET There(link)
      \/ link' = link /\ entry' = Without(entry, S)
  BY DEF BulkDeleteLinks, BulkUpdateLinkStatus, BulkDeleteEntries, All
<1>3. /\ Without(link, S) \in Table(Links, Lesson) /\ Without(entry, S) \in Table(Entries, Lesson)
      /\ \A y \in There(Without(link, S)) : y \in There(link) /\ Without(link, S)[y] = link[y]
      /\ \A y \in There(Without(entry, S)) : y \in There(entry) /\ Without(entry, S)[y] = entry[y]
  <2>1. There(link) \subseteq Links /\ There(entry) \subseteq Entries
    BY RegistryTables DEF There, Table
  <2> QED
    BY <2>1, RegistryTables, RowsDropped, NoRowIsNone
<1>4. S \in SUBSET There(link) =>
        /\ Switched(link, S, active) \in Table(Links, Lesson)
        /\ There(Switched(link, S, active)) = There(link)
        /\ \A y \in Links : \/ Switched(link, S, active)[y] = link[y]
                            \/ /\ link[y] \in Lesson
                               /\ Switched(link, S, active)[y] = [link[y] EXCEPT !.active = active]
  <2>1. (\A r \in Lesson : [r EXCEPT !.active = active] \in Lesson) /\ NoRow \notin Lesson
    BY SwitchedRows, NoRowIsNone
  <2> QED
    BY <2>1, RegistryTables, RowsSwitched
<1>5. CASE entry' = entry /\ link' = Switched(link, S, active) /\ S \in SUBSET There(link)
  <2>1. There(link) \subseteq Links
    BY RegistryTables DEF There, Table
  <2> DEFINE On(r) == [r EXCEPT !.active = active]
  <2>2. \A r \in Lesson : /\ On(r).batch = r.batch /\ On(r).subject = r.subject
                          /\ On(r).teacher = r.teacher /\ On(r).session = r.session
    BY SwitchedRows
  <2>3. \A y \in Links : Switched(link, S, active)[y] = link[y]
                        \/ (link[y] \in Lesson /\ Switched(link, S, active)[y] = On(link[y]))
    BY <1>4, <1>5
  <2> HIDE DEF On
  <2>4. \A y \in There(link') :
          /\ y \in There(link)
          /\ link'[y].batch = link[y].batch /\ link'[y].subject = link[y].subject
          /\ link'[y].teacher = link[y].teacher /\ link'[y].session = link[y].session
    BY <1>4, <1>5, <2>1, <2>2, <2>3
  <2>5. Refers(link)' /\ Refers(entry)'
    BY <1>1, <1>5, <2>4, RegistryTables DEF Refers
  <2> QED
    BY <1>1, <1>4, <1>5, <2>5, RegistryTables, OtherTables
<1>6. CASE \/ entry' = entry /\ link' = Without(link, S)
           \/ link' = link /\ entry' = Without(entry, S)
  <2>1. Refers(link)' /\ Refers(entry)'
    BY <1>1, <1>3, <1>6, RegistryTables DEF Refers
  <2> QED
    BY <1>1, <1>3, <1>6, <2>1, RegistryTables, OtherTables
<1> QED
  BY <1>2, <1>5, <1>6

-----------------------------------------------------------------------------
(* Academic sessions. *)

\* A step of the sessions' table that makes none current, the lessons aside.
LEMMA SessionsChanged ==
  ASSUME RegistryInv, Op, UNCHANGED people, session' \in Table(Sessions, SessionRow),
         link' \in Table(Links, Lesson), entry' \in Table(Entries, Lesson),
         Refers(link)', Refers(entry)', Current' \subseteq Current
  PROVE  RegistryInv'
<1>1. UNCHANGED <<tx, overlapped>> /\ ops' \in Nat
  BY DEF Op, RegistryInv, RegistryTypeOK
<1>2. UNCHANGED <<batch, subject, teacher, login>>
  BY DEF people
<1>3. RegistryTypeOK'
  BY <1>1, <1>2 DEF RegistryInv, RegistryTypeOK, Table
<1> QED
  BY <1>1, <1>3, NothingMadeCurrent DEF RegistryInv

LEMMA SessionWritten ==
  ASSUME RegistryInv, NEW x \in Sessions, NEW row \in SessionRow,
         CreateSession(x, row) \/ UpdateSession(x, row)
  PROVE  RegistryInv'
<1>1. /\ ~row.current /\ Op /\ UNCHANGED <<people, lessons>>
      /\ session' = Inserted(session, x, row) \/ session' = Changed(session, x, row)
  BY DEF CreateSession, UpdateSession
<1>2. /\ session' \in Table(Sessions, SessionRow) /\ There(session) \subseteq There(session')
      /\ \A y \in Sessions : session'[y] = session[y] \/ session'[y] = row
  BY <1>1, RegistryTables, RowWritten, NoRowIsNone
<1>3. There(batch) = There(batch') /\ There(subject) = There(subject')
      /\ There(teacher) = There(teacher')
  BY <1>1 DEF people
<1>4. Current' \subseteq Current
  BY <1>1, <1>2, RegistryTables DEF Current, There, Table
<1> QED
  BY <1>1, <1>2, <1>3, <1>4, StillThere, SessionsChanged

LEMMA SessionsDropped ==
  ASSUME RegistryInv, NEW S, BulkDeleteSessions(S)
  PROVE  RegistryInv'
<1>1. /\ UNCHANGED people /\ Op
      /\ session' = Without(session, S)
      /\ link' = NoSession(link, S) /\ entry' = NoSession(entry, S)
  BY DEF BulkDeleteSessions, DropSessions
<1>2. /\ session' \in Table(Sessions, SessionRow) /\ There(session') = There(session) \ S
      /\ \A y \in Sessions \ S : session'[y] = session[y]
  BY <1>1, RegistryTables, RowsDropped, NoRowIsNone
<1>3. UNCHANGED <<batch, subject, teacher>>
  BY <1>1 DEF people
<1>4. link' \in Table(Links, Lesson) /\ Refers(link)'
  BY <1>1, <1>2, <1>3, RegistryTables, LessonsLetGo DEF Refers
<1>5. entry' \in Table(Entries, Lesson) /\ Refers(entry)'
  BY <1>1, <1>2, <1>3, RegistryTables, LessonsLetGo DEF Refers
<1>6. Current' \subseteq Current
  <2>1. There(session) \subseteq Sessions
    BY RegistryTables DEF There, Table
  <2> QED
    BY <1>2, <2>1 DEF Current
<1> QED
  BY <1>1, <1>2, <1>4, <1>5, <1>6, SessionsChanged

LEMMA SessionsSwitched ==
  ASSUME RegistryInv, NEW S, NEW active \in BOOLEAN, BulkUpdateSessionStatus(S, active)
  PROVE  RegistryInv'
<1> DEFINE On(r) == [r EXCEPT !.active = active]
<1>1. /\ UNCHANGED <<people, lessons>> /\ Op
      /\ S \subseteq There(session) /\ session' = Switched(session, S, active)
  BY DEF BulkUpdateSessionStatus, All
<1>2. \A r \in SessionRow : On(r) \in SessionRow /\ On(r).current = r.current
  BY SwitchedRows
<1>3. session' = [y \in Sessions |-> IF y \in S THEN On(session[y]) ELSE session[y]]
  BY <1>1, RegistryTables DEF Switched, Table
<1> HIDE DEF On
<1>4. There(session) = {y \in Sessions : session[y] # NoRow}
      /\ \A y \in There(session) : session[y] \in SessionRow
  BY RegistryTables DEF There, Table
<1>5. session' \in Table(Sessions, SessionRow)
  BY <1>1, <1>2, <1>3, <1>4, RegistryTables DEF Table
<1>6. There(session') = {y \in Sessions : session'[y] # NoRow}
  BY <1>5 DEF There, Table
<1>7. There(session') = There(session)
  BY <1>1, <1>2, <1>3, <1>4, <1>6, NoRowIsNone
<1>8. Current' \subseteq Current
  BY <1>1, <1>2, <1>3, <1>4, <1>7 DEF Current
<1>9. There(batch) = There(batch') /\ There(subject) = There(subject')
      /\ There(teacher) = There(teacher')
  BY <1>1 DEF people
<1> QED
  BY <1>1, <1>5, <1>7, <1>8, <1>9, StillThere, SessionsChanged

LEMMA CurrentCleared ==
  ASSUME RegistryInv, NEW t \in Txs, NEW x \in Sessions, NEW row \in SessionRow,
         NEW new \in BOOLEAN, ClearCurrent(t, x, row, new)
  PROVE  RegistryInv'
<1> DEFINE begun == [pc |-> "set", s |-> x, row |-> row, new |-> new,
                     clears |-> Current \ {x}, crossed |-> FALSE]
<1>1. UNCHANGED <<session, people, lessons, overlapped>> /\ ops' = ops + 1
      /\ tx' = [tx EXCEPT ![t] = begun]
  BY DEF ClearCurrent
<1>2. UNCHANGED <<batch, subject, teacher, login, link, entry>>
  BY <1>1 DEF people, lessons
<1>3. Current \subseteq Sessions
  BY RegistryTables DEF Current, There, Table
<1>4. begun \in Tx /\ begun.pc = "set" /\ begun.s = x /\ begun.row = row
      /\ begun.clears = Current \ {x}
  BY <1>3 DEF Tx
<1> HIDE DEF begun
<1>5. tx \in [Txs -> Tx]
  BY DEF RegistryInv, RegistryTypeOK
<1>6. RegistryTypeOK'
  BY <1>1, <1>2, <1>4, <1>5 DEF RegistryInv, RegistryTypeOK, Refers, There
<1>7. Current' = Current
  BY <1>1 DEF Current, There
<1>8. OneCurrentSession'
  BY <1>1, <1>7 DEF RegistryInv, OneCurrentSession
<1>9. \A u \in Txs : SeesCurrent(u)'
  BY <1>1, <1>4, <1>5, <1>7 DEF RegistryInv, SeesCurrent
<1> QED
  BY <1>6, <1>8, <1>9 DEF RegistryInv

LEMMA IdleTxTyped == IdleTx \in Tx /\ IdleTx.pc = "idle"
  BY DEF IdleTx, Tx

LEMMA RolledBack ==
  ASSUME RegistryInv, NEW t \in Txs, RollBack(t)
  PROVE  RegistryInv'
<1>1. UNCHANGED <<session, people, lessons, overlapped, ops>> /\ tx' = [tx EXCEPT ![t] = IdleTx]
  BY DEF RollBack
<1>2. UNCHANGED <<batch, subject, teacher, login, link, entry>>
  BY <1>1 DEF people, lessons
<1>3. tx \in [Txs -> Tx]
  BY DEF RegistryInv, RegistryTypeOK
<1>4. RegistryTypeOK'
  BY <1>1, <1>2, <1>3, IdleTxTyped DEF RegistryInv, RegistryTypeOK, Refers, There
<1>5. Current' = Current
  BY <1>1 DEF Current, There
<1>6. OneCurrentSession'
  BY <1>1, <1>5 DEF RegistryInv, OneCurrentSession
<1>7. \A u \in Txs : SeesCurrent(u)'
  BY <1>1, <1>3, <1>5, IdleTxTyped DEF RegistryInv, SeesCurrent
<1> QED
  BY <1>4, <1>6, <1>7 DEF RegistryInv

LEMMA CurrentSet ==
  ASSUME RegistryInv, NEW t \in Txs, SetCurrent(t)
  PROVE  RegistryInv'
<1>1. tx \in [Txs -> Tx] /\ tx[t].s \in Sessions /\ tx[t].row \in SessionRow
      /\ tx[t].crossed \in BOOLEAN /\ tx[t].clears \in SUBSET Sessions
  BY DEF RegistryInv, RegistryTypeOK, SetCurrent, Tx
<1>2. PICK s \in Sessions, row \in SessionRow, clears \in SUBSET Sessions :
        s = tx[t].s /\ row = tx[t].row /\ clears = tx[t].clears
  BY <1>1
<1> DEFINE Off(r) == [r EXCEPT !.current = FALSE]
<1>3. /\ session' = [x \in Sessions |->
           IF x = s THEN row
           ELSE IF x \in clears \cap There(session) THEN Off(session[x]) ELSE session[x]]
      /\ overlapped' = tx[t].crossed
      /\ UNCHANGED <<batch, subject, teacher, login, link, entry, ops>>
  BY <1>2 DEF SetCurrent, people, lessons
<1>4. tx' = [u \in Txs |->
        IF u = t THEN IdleTx
        ELSE IF tx[u].pc = "set" THEN [tx[u] EXCEPT !.crossed = TRUE] ELSE tx[u]]
  BY DEF SetCurrent
<1>5. \A r \in SessionRow : Off(r) \in SessionRow /\ Off(r).current = FALSE
  BY DEF SessionRow
<1> HIDE DEF Off
<1>6. There(session) = {x \in Sessions : session[x] # NoRow}
      /\ \A x \in There(session) : session[x] \in SessionRow
  BY RegistryTables DEF There, Table
<1>7. session' \in Table(Sessions, SessionRow)
  BY <1>2, <1>3, <1>5, <1>6, RegistryTables DEF Table
<1>8. There(session') = {x \in Sessions : session'[x] # NoRow}
  BY <1>7 DEF There, Table
<1>9. There(session) \subseteq There(session')
  BY <1>2, <1>3, <1>5, <1>6, <1>8, NoRowIsNone
<1>10. \A u \in Txs : /\ tx'[u] \in Tx
                      /\ tx'[u].pc = "set" => /\ tx'[u].crossed
                                              /\ tx'[u].s \in Sessions
                                              /\ tx'[u].row \in SessionRow
  <2> SUFFICES ASSUME NEW u \in Txs
               PROVE  /\ tx'[u] \in Tx
                      /\ tx'[u].pc = "set" => /\ tx'[u].crossed
                                              /\ tx'[u].s \in Sessions
                                              /\ tx'[u].row \in SessionRow
    OBVIOUS
  <2>1. CASE u = t
    BY <2>1, <1>4, IdleTxTyped
  <2>2. CASE u # t /\ tx[u].pc = "set"
    <3>1. tx[u] \in Tx /\ tx[u].s \in Sessions /\ tx[u].row \in SessionRow
      BY <2>2 DEF RegistryInv, RegistryTypeOK
    <3>2. tx'[u] = [tx[u] EXCEPT !.crossed = TRUE]
      BY <2>2, <1>4
    <3> QED
      BY <3>1, <3>2 DEF Tx
  <2>3. CASE u # t /\ tx[u].pc # "set"
    BY <2>3, <1>1, <1>4
  <2> QED
    BY <2>1, <2>2, <2>3
<1>11. RegistryTypeOK'
  <2>1. Refers(link)' /\ Refers(entry)'
    BY <1>3, <1>9, RegistryTables DEF Refers
  <2>2. tx' \in [Txs -> Tx]
    BY <1>4, <1>10
  <2> QED
    BY <1>1, <1>3, <1>7, <1>10, <2>1, <2>2 DEF RegistryInv, RegistryTypeOK, Table
<1>12. OneCurrentSession'
  <2>1. CASE tx[t].crossed
    BY <2>1, <1>3 DEF OneCurrentSession
  <2>2. CASE ~tx[t].crossed
    <3>1. Current \subseteq clears \cup {s}
      BY <2>2, <1>2 DEF RegistryInv, SeesCurrent, SetCurrent
    <3>2. ASSUME NEW x \in Current' PROVE x = s
      <4>1. x \in Sessions /\ session'[x].current /\ session'[x] # NoRow
        BY <3>2, <1>8 DEF Current
      <4>2. ASSUME x # s PROVE FALSE
        <5>1. CASE x \in clears \cap There(session)
          BY <4>1, <4>2, <5>1, <1>3, <1>5, <1>6
        <5>2. CASE x \notin clears \cap There(session)
          <6>1. session'[x] = session[x]
            BY <4>1, <4>2, <5>2, <1>3
          <6>2. x \in Current
            BY <4>1, <6>1, <1>6 DEF Current
          <6> QED
            BY <4>2, <5>2, <6>2, <3>1 DEF Current
        <5> QED
          BY <5>1, <5>2
      <4> QED
        BY <4>2
    <3> QED
      BY <3>2 DEF OneCurrentSession
  <2> QED
    BY <1>1, <2>1, <2>2
<1>13. \A u \in Txs : SeesCurrent(u)'
  BY <1>10 DEF SeesCurrent
<1> QED
  BY <1>11, <1>12, <1>13 DEF RegistryInv

-----------------------------------------------------------------------------
(* The theorems. *)
LEMMA RegistryInitSound == RegistryInit => RegistryInv
<1> SUFFICES ASSUME RegistryInit PROVE RegistryInv
  OBVIOUS
<1>1. There(session) = {} /\ There(link) = {} /\ There(entry) = {}
  BY DEF RegistryInit, There
<1>2. RegistryTypeOK
  BY <1>1, IdleTxTyped DEF RegistryInit, RegistryTypeOK, Refers
<1>3. OneCurrentSession /\ \A t \in Txs : SeesCurrent(t)
  BY <1>1, IdleTxTyped DEF RegistryInit, OneCurrentSession, SeesCurrent, Current
<1> QED
  BY <1>2, <1>3 DEF RegistryInv

LEMMA RegistryStepSound == RegistryInv /\ [RegistryNext]_registryVars => RegistryInv'
<1> SUFFICES ASSUME RegistryInv, [RegistryNext]_registryVars PROVE RegistryInv'
  OBVIOUS
<1>1. CASE UNCHANGED registryVars
  <2>1. UNCHANGED <<session, batch, subject, teacher, login, link, entry, tx, overlapped, ops>>
    BY <1>1 DEF registryVars, people, lessons
  <2>2. RegistryTypeOK'
    BY <2>1 DEF RegistryInv, RegistryTypeOK, Refers, There
  <2>3. OneCurrentSession' /\ \A t \in Txs : SeesCurrent(t)'
    BY <2>1 DEF RegistryInv, OneCurrentSession, SeesCurrent, Current, There
  <2> QED
    BY <2>2, <2>3 DEF RegistryInv
<1>2. CASE \/ \E x \in Batches, row \in Row : CreateBatch(x, row) \/ UpdateBatch(x, row)
           \/ \E x \in Subjects, row \in Row : CreateSubject(x, row) \/ UpdateSubject(x, row)
  BY <1>2, BatchWritten, SubjectWritten
<1>3. CASE \E x \in Teachers, row \in Row :
             UpdateTeacher(x, row) \/ \E access \in BOOLEAN : CreateTeacher(x, row, access)
  BY <1>3, TeacherWritten
<1>4. CASE \/ \E S \in SUBSET Batches :
                BulkDeleteBatches(S) \/ \E active \in BOOLEAN : BulkUpdateBatchStatus(S, active)
           \/ \E S \in SUBSET Subjects :
                BulkDeleteSubjects(S) \/ \E active \in BOOLEAN : BulkUpdateSubjectStatus(S, active)
           \/ \E S \in SUBSET Teachers :
                BulkDeleteTeachers(S) \/ \E active \in BOOLEAN : BulkUpdateTeacherStatus(S, active)
  BY <1>4, BatchesDropped, SubjectsDropped, TeachersDropped, PeopleSwitched
<1>5. CASE \/ \E x \in Links, row \in Lesson : CreateLink(x, row) \/ UpdateLink(x, row)
           \/ \E x \in Entries, row \in Lesson : SaveEntry(x, row)
  BY <1>5, LessonsWritten
<1>6. CASE \/ \E S \in SUBSET Links :
                BulkDeleteLinks(S) \/ \E active \in BOOLEAN : BulkUpdateLinkStatus(S, active)
           \/ \E S \in SUBSET Entries : BulkDeleteEntries(S)
  BY <1>6, LessonsChanged
<1>7. CASE \E x \in Sessions, row \in SessionRow :
             \/ CreateSession(x, row) \/ UpdateSession(x, row)
             \/ \E t \in Txs, new \in BOOLEAN : ClearCurrent(t, x, row, new)
  BY <1>7, SessionWritten, CurrentCleared
<1>8. CASE \E t \in Txs : SetCurrent(t) \/ RollBack(t)
  BY <1>8, CurrentSet, RolledBack
<1>9. CASE \E S \in SUBSET Sessions :
             BulkDeleteSessions(S) \/ \E active \in BOOLEAN : BulkUpdateSessionStatus(S, active)
  BY <1>9, SessionsDropped, SessionsSwitched
<1> QED
  BY <1>1, <1>2, <1>3, <1>4, <1>5, <1>6, <1>7, <1>8, <1>9 DEF RegistryNext

LEMMA RegistryAlwaysSound == RegistrySpec => []RegistryInv
  BY RegistryInitSound, RegistryStepSound, PTL DEF RegistrySpec

\* Every row is of its table's type, and the batch, subject, teacher and session
\* of a lesson are there, whatever was deleted (schema.prisma: the onDelete
\* rules of BatchSubjectAssignment and TimetableEntry).
THEOREM LessonsReferToRows == RegistrySpec => []RegistryTypeOK
  BY RegistryAlwaysSound, PTL DEF RegistryInv

\* One session is current at most, however many transactions run, unless the
\* last to set the flag was overtaken by another between its two statements
\* (academic-session-prisma.repository.ts:28, :99).
THEOREM CurrentIsUnique == RegistrySpec => []OneCurrentSession
  BY RegistryAlwaysSound, PTL DEF RegistryInv

=============================================================================
