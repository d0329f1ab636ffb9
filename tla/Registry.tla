------------------------------ MODULE Registry ------------------------------
(***************************************************************************)
(* The academic structure of one organization: sessions, batches,          *)
(* subjects, teachers, who teaches what (batch-subject assignments, links  *)
(* here) and the timetable.  The five services are one pattern: create,    *)
(* update, delete one or several, set the status of several.  Several are  *)
(* written in one transaction, which writes nothing when a row is missing. *)
(*                                                                         *)
(* Making a session the current one is a transaction of two statements     *)
(* under READ COMMITTED.  The first clears the flag of the rows it sees    *)
(* committed, the second sets it on the session.  Two such transactions do *)
(* not see each other, so they are two steps here.                         *)
(*                                                                         *)
(* An update DTO extends its create DTO and takes over its defaults: what  *)
(* a request leaves out of the flags is written as the default.  A change  *)
(* of name alone takes the current flag from a session and switches an     *)
(* inactive row on, like a request that says so.                           *)
(*                                                                         *)
(* A definition whose name is not used below is a faulty variant of the    *)
(* one that follows it, for the mutation runs.                             *)
(***************************************************************************)
EXTENDS Integers, FiniteSets

CONSTANTS
  Sessions, Batches, Subjects, Teachers,
  Links,     \* rows of BatchSubjectAssignment
  Entries,   \* rows of TimetableEntry
  Codes,     \* codes of sessions, batches and subjects, employee ids of teachers
  Txs,       \* transactions that make a session current
  MaxOps,    \* bound of the model: requests
  Null

ASSUME RegistryAssumption ==
  /\ MaxOps \in Nat
  /\ Null \notin Sessions \cup Batches \cup Subjects \cup Teachers \cup Codes

VARIABLES
  session, batch, subject, teacher,   \* tables: a row or NoRow for every id
  link, entry,                        \* the two tables that refer to them
  login,        \* teachers whose e-mail address has a user row
  tx,           \* transactions in flight
  overlapped,   \* the last session was made current while another one was (history)
  ops           \* requests so far (bounds the model)

people   == <<batch, subject, teacher, login>>
lessons  == <<link, entry>>
registryVars == <<session, people, lessons, tx, overlapped, ops>>

NoRow == [code |-> Null]

Row == [code : Codes, active : BOOLEAN]

SessionRow == [code : Codes, active : BOOLEAN, current : BOOLEAN]

Lesson == [batch : Batches, subject : Subjects, teacher : Teachers \cup {Null},
           session : Sessions \cup {Null}, active : BOOLEAN]

IdleTx == [pc |-> "idle", s |-> Null, row |-> NoRow, new |-> FALSE, clears |-> {},
           crossed |-> FALSE]

Tx == [pc : {"idle", "set"}, s : Sessions \cup {Null}, row : SessionRow \cup {NoRow},
       new : BOOLEAN, clears : SUBSET Sessions, crossed : BOOLEAN]

There(table) == {x \in DOMAIN table : table[x] # NoRow}

\* What a lesson refers to is there.
Refers(table) ==
  \A x \in There(table) :
    /\ table[x].batch \in There(batch) /\ table[x].subject \in There(subject)
    /\ table[x].teacher \in There(teacher) \cup {Null}
    /\ table[x].session \in There(session) \cup {Null}

RegistryTypeOK ==
  /\ session \in [Sessions -> SessionRow \cup {NoRow}]
  /\ batch \in [Batches -> Row \cup {NoRow}]
  /\ subject \in [Subjects -> Row \cup {NoRow}]
  /\ teacher \in [Teachers -> Row \cup {NoRow}]
  /\ link \in [Links -> Lesson \cup {NoRow}]
  /\ entry \in [Entries -> Lesson \cup {NoRow}]
  /\ login \subseteq Teachers
  /\ tx \in [Txs -> Tx]
  /\ \A t \in Txs : tx[t].pc = "set" => tx[t].s \in Sessions /\ tx[t].row \in SessionRow
  /\ overlapped \in BOOLEAN
  /\ ops \in Nat
  /\ Refers(link) /\ Refers(entry)

RegistryInit ==
  /\ session = [x \in Sessions |-> NoRow]
  /\ batch = [x \in Batches |-> NoRow]
  /\ subject = [x \in Subjects |-> NoRow]
  /\ teacher = [x \in Teachers |-> NoRow]
  /\ link = [x \in Links |-> NoRow]
  /\ entry = [x \in Entries |-> NoRow]
  /\ login = {}
  /\ tx = [t \in Txs |-> IdleTx]
  /\ overlapped = FALSE
  /\ ops = 0

-----------------------------------------------------------------------------
(* What the repositories do to a table. *)
Op == ops < MaxOps /\ ops' = ops + 1 /\ UNCHANGED <<tx, overlapped>>

\* The unique key: organization and code.
KeyFree(table, x, code) == \A y \in There(table) \ {x} : table[y].code # code

Inserted(table, x, row) ==
  IF x \in There(table) \/ ~KeyFree(table, x, row.code) THEN table ELSE [table EXCEPT ![x] = row]

Changed(table, x, row) ==
  IF x \notin There(table) \/ ~KeyFree(table, x, row.code) THEN table ELSE [table EXCEPT ![x] = row]

Without(table, S) == [x \in DOMAIN table |-> IF x \in S THEN NoRow ELSE table[x]]

Switched(table, S, active) ==
  [x \in DOMAIN table |-> IF x \in S THEN [table[x] EXCEPT !.active = active] ELSE table[x]]

All(S, table) == S # {} /\ S \subseteq There(table)

-----------------------------------------------------------------------------
(* Batches and subjects; their lessons go with them. *)
OfBatch(table, S) == {x \in There(table) : table[x].batch \in S}

OfSubject(table, S) == {x \in There(table) : table[x].subject \in S}

CreateBatch(x, row) ==
  /\ batch' = Inserted(batch, x, row)
  /\ Op /\ UNCHANGED <<session, subject, teacher, login, lessons>>

UpdateBatch(x, row) ==
  /\ batch' = Changed(batch, x, row)
  /\ Op /\ UNCHANGED <<session, subject, teacher, login, lessons>>

\* The lessons stay.
DropBatchesOnly(S) ==
  /\ All(S, batch)
  /\ batch' = Without(batch, S)
  /\ UNCHANGED lessons

DropBatches(S) ==
  /\ All(S, batch)
  /\ batch' = Without(batch, S)
  /\ link' = Without(link, OfBatch(link, S))
  /\ entry' = Without(entry, OfBatch(entry, S))

BulkDeleteBatches(S) ==
  DropBatches(S) /\ Op /\ UNCHANGED <<session, subject, teacher, login>>

BulkUpdateBatchStatus(S, active) ==
  /\ All(S, batch)
  /\ batch' = Switched(batch, S, active)
  /\ Op /\ UNCHANGED <<session, subject, teacher, login, lessons>>

CreateSubject(x, row) ==
  /\ subject' = Inserted(subject, x, row)
  /\ Op /\ UNCHANGED <<session, batch, teacher, login, lessons>>

UpdateSubject(x, row) ==
  /\ subject' = Changed(subject, x, row)
  /\ Op /\ UNCHANGED <<session, batch, teacher, login, lessons>>

DropSubjects(S) ==
  /\ All(S, subject)
  /\ subject' = Without(subject, S)
  /\ link' = Without(link, OfSubject(link, S))
  /\ entry' = Without(entry, OfSubject(entry, S))

BulkDeleteSubjects(S) ==
  DropSubjects(S) /\ Op /\ UNCHANGED <<session, batch, teacher, login>>

BulkUpdateSubjectStatus(S, active) ==
  /\ All(S, subject)
  /\ subject' = Switched(subject, S, active)
  /\ Op /\ UNCHANGED <<session, batch, teacher, login, lessons>>

-----------------------------------------------------------------------------
(* Teachers. *)

\* A login is made in one transaction with the teacher, and not when the
\* address has a user already: then neither is written.
CreateTeacher(x, row, createLoginAccess) ==
  /\ LET refused == createLoginAccess /\ x \in login
     IN /\ teacher' = IF refused THEN teacher ELSE Inserted(teacher, x, row)
        /\ login' = IF createLoginAccess /\ teacher' # teacher THEN login \cup {x} ELSE login
  /\ Op /\ UNCHANGED <<session, batch, subject, lessons>>

UpdateTeacher(x, row) ==
  /\ teacher' = Changed(teacher, x, row)
  /\ Op /\ UNCHANGED <<session, batch, subject, login, lessons>>

NoTeacher(table, S) ==
  [x \in DOMAIN table |->
     IF x \in There(table) /\ table[x].teacher \in S
     THEN [table[x] EXCEPT !.teacher = Null] ELSE table[x]]

DropTeachers(S) ==
  /\ All(S, teacher)
  /\ teacher' = Without(teacher, S)
  /\ link' = NoTeacher(link, S)
  /\ entry' = NoTeacher(entry, S)

\* The login stays.
BulkDeleteTeachers(S) ==
  DropTeachers(S) /\ Op /\ UNCHANGED <<session, batch, subject, login>>

BulkUpdateTeacherStatus(S, active) ==
  /\ All(S, teacher)
  /\ teacher' = Switched(teacher, S, active)
  /\ Op /\ UNCHANGED <<session, batch, subject, login, lessons>>

-----------------------------------------------------------------------------
(* Links and timetable entries. *)
Stands(row) ==
  /\ row.batch \in There(batch) /\ row.subject \in There(subject)
  /\ row.teacher \in There(teacher) \cup {Null}
  /\ row.session \in There(session) \cup {Null}

\* One link per batch, subject and session; no session is no duplicate.
LinkFree(x, row) ==
  row.session = Null \/ \A y \in There(link) \ {x} :
    <<link[y].batch, link[y].subject, link[y].session>> # <<row.batch, row.subject, row.session>>

CreateLink(x, row) ==
  /\ link[x] = NoRow /\ Stands(row) /\ LinkFree(x, row)
  /\ link' = [link EXCEPT ![x] = row]
  /\ Op /\ UNCHANGED <<session, people, entry>>

UpdateLink(x, row) ==
  /\ link[x] # NoRow /\ Stands(row) /\ LinkFree(x, row)
  /\ link' = [link EXCEPT ![x] = row]
  /\ Op /\ UNCHANGED <<session, people, entry>>

BulkDeleteLinks(S) ==
  /\ All(S, link)
  /\ link' = Without(link, S)
  /\ Op /\ UNCHANGED <<session, people, entry>>

BulkUpdateLinkStatus(S, active) ==
  /\ All(S, link)
  /\ link' = Switched(link, S, active)
  /\ Op /\ UNCHANGED <<session, people, entry>>

\* An entry that is there is updated by its id, one that is not is created.
SaveEntry(x, row) ==
  /\ Stands(row)
  /\ entry' = [entry EXCEPT ![x] = row]
  /\ Op /\ UNCHANGED <<session, people, link>>

BulkDeleteEntries(S) ==
  /\ All(S, entry)
  /\ entry' = Without(entry, S)
  /\ Op /\ UNCHANGED <<session, people, link>>

-----------------------------------------------------------------------------
(* Academic sessions. *)
Current == {x \in There(session) : session[x].current}

\* A session saved without the current flag.
CreateSession(x, row) ==
  /\ ~row.current
  /\ session' = Inserted(session, x, row)
  /\ Op /\ UNCHANGED <<people, lessons>>

UpdateSession(x, row) ==
  /\ ~row.current
  /\ session' = Changed(session, x, row)
  /\ Op /\ UNCHANGED <<people, lessons>>

\* The first statement of a request that sets the flag.
ClearCurrent(t, x, row, new) ==
  /\ ops < MaxOps
  /\ tx[t].pc = "idle"
  /\ row.current
  /\ new \/ x \in There(session)
  /\ tx' = [tx EXCEPT ![t] = [pc |-> "set", s |-> x, row |-> row, new |-> new,
              clears |-> Current \ {x}, crossed |-> FALSE]]
  /\ ops' = ops + 1
  /\ UNCHANGED <<session, people, lessons, overlapped>>

\* The second statement, when the row can be written.
Settable(t) ==
  /\ IF tx[t].new THEN tx[t].s \notin There(session) ELSE tx[t].s \in There(session)
  /\ KeyFree(session, tx[t].s, tx[t].row.code)

\* The others keep their flag.
SetWithoutClearing(t) ==
  /\ tx[t].pc = "set" /\ Settable(t)
  /\ session' = [session EXCEPT ![tx[t].s] = tx[t].row]
  /\ overlapped' = tx[t].crossed
  /\ tx' = [u \in Txs |->
       IF u = t THEN IdleTx
       ELSE IF tx[u].pc = "set" THEN [tx[u] EXCEPT !.crossed = TRUE] ELSE tx[u]]
  /\ UNCHANGED <<people, lessons, ops>>

\* The commit: the rows seen at the first statement lose the flag and the
\* session has it.
SetCurrent(t) ==
  /\ tx[t].pc = "set" /\ Settable(t)
  /\ session' = [x \in Sessions |->
       IF x = tx[t].s THEN tx[t].row
       ELSE IF x \in tx[t].clears \cap There(session) THEN [session[x] EXCEPT !.current = FALSE]
       ELSE session[x]]
  /\ overlapped' = tx[t].crossed
  /\ tx' = [u \in Txs |->
       IF u = t THEN IdleTx
       ELSE IF tx[u].pc = "set" THEN [tx[u] EXCEPT !.crossed = TRUE] ELSE tx[u]]
  /\ UNCHANGED <<people, lessons, ops>>

\* A row that is missing or a key that is taken, or the process stops.
RollBack(t) ==
  /\ tx[t].pc = "set"
  /\ tx' = [tx EXCEPT ![t] = IdleTx]
  /\ UNCHANGED <<session, people, lessons, overlapped, ops>>

NoSession(table, S) ==
  [x \in DOMAIN table |->
     IF x \in There(table) /\ table[x].session \in S
     THEN [table[x] EXCEPT !.session = Null] ELSE table[x]]

DropSessions(S) ==
  /\ All(S, session)
  /\ session' = Without(session, S)
  /\ link' = NoSession(link, S)
  /\ entry' = NoSession(entry, S)

BulkDeleteSessions(S) == DropSessions(S) /\ Op /\ UNCHANGED people

BulkUpdateSessionStatus(S, active) ==
  /\ All(S, session)
  /\ session' = Switched(session, S, active)
  /\ Op /\ UNCHANGED <<people, lessons>>

-----------------------------------------------------------------------------
RegistryNext ==
  \/ \E x \in Batches, row \in Row : CreateBatch(x, row) \/ UpdateBatch(x, row)
  \/ \E S \in SUBSET Batches :
       BulkDeleteBatches(S) \/ \E active \in BOOLEAN : BulkUpdateBatchStatus(S, active)
  \/ \E x \in Subjects, row \in Row : CreateSubject(x, row) \/ UpdateSubject(x, row)
  \/ \E S \in SUBSET Subjects :
       BulkDeleteSubjects(S) \/ \E active \in BOOLEAN : BulkUpdateSubjectStatus(S, active)
  \/ \E x \in Teachers, row \in Row :
       UpdateTeacher(x, row) \/ \E access \in BOOLEAN : CreateTeacher(x, row, access)
  \/ \E S \in SUBSET Teachers :
       BulkDeleteTeachers(S) \/ \E active \in BOOLEAN : BulkUpdateTeacherStatus(S, active)
  \/ \E x \in Links, row \in Lesson : CreateLink(x, row) \/ UpdateLink(x, row)
  \/ \E S \in SUBSET Links :
       BulkDeleteLinks(S) \/ \E active \in BOOLEAN : BulkUpdateLinkStatus(S, active)
  \/ \E x \in Entries, row \in Lesson : SaveEntry(x, row)
  \/ \E S \in SUBSET Entries : BulkDeleteEntries(S)
  \/ \E x \in Sessions, row \in SessionRow :
       \/ CreateSession(x, row) \/ UpdateSession(x, row)
       \/ \E t \in Txs, new \in BOOLEAN : ClearCurrent(t, x, row, new)
  \/ \E t \in Txs : SetCurrent(t) \/ RollBack(t)
  \/ \E S \in SUBSET Sessions :
       BulkDeleteSessions(S) \/ \E active \in BOOLEAN : BulkUpdateSessionStatus(S, active)

RegistrySpec == RegistryInit /\ [][RegistryNext]_registryVars

-----------------------------------------------------------------------------
(* Properties. *)

\* There is at most one current session, unless the last one was made current
\* while another transaction did the same
\* (academic-session-prisma.repository.ts:28, :99); the next that runs by itself
\* puts it right.
OneCurrentSession == overlapped \/ \A x, y \in Current : x = y
=============================================================================
