----------------------------- MODULE FollowUps ------------------------------
(***************************************************************************)
(* The two daily follow-ups of one organization.  Staff write attendance   *)
(* rows (AttendanceService) and fee records (FeesService).                 *)
(* AttendanceAlertAutomationService reads the absences and lates of the    *)
(* last days and writes a reminder log for every student with too many,    *)
(* FeeEscalationAutomationService writes one for every fee record that is  *)
(* past its due date with a balance.  Each is started by its cron job and  *)
(* by an endpoint, and before it writes it looks for a log it wrote in the *)
(* last Suppression days.                                                  *)
(*                                                                         *)
(* A job j is one call of processFollowUps or processEscalations.  It does *)
(* one database call per step, so jobs interleave with each other and with *)
(* the requests.  A student has at most one fee record here: a record and  *)
(* its student are the same key.                                           *)
(*                                                                         *)
(* A definition whose name is not used below is a faulty variant of the    *)
(* one that follows it, for the mutation runs.                             *)
(***************************************************************************)
EXTENDS Integers, FiniteSets

CONSTANTS
  Students,
  Jobs,             \* calls of the two services that may overlap
  Marks,            \* attendance statuses; all but ABSENT and LATE count for nothing
  FeeDueDay,        \* Students -> day: month, year and the plan's dueDay
  Window,           \* FOLLOW_UP_WINDOW_DAYS, 7 in the code
  Suppression,      \* DUPLICATE_SUPPRESSION_DAYS, 3 in the code
  AbsentThreshold,  \* 2 in the code
  LateThreshold,    \* 3 in the code
  TotalThreshold,   \* 4 in the code
  MaxDay,           \* bound of the model: the last day of the clock
  MaxWrites,        \* bound of the model: requests on attendance and fees
  MaxLogs,          \* bound of the model: follow-up logs ever written
  NoStudent

Days == 0 .. MaxDay

ASSUME FollowDayAssumption ==
  /\ MaxDay \in Nat
  /\ Window \in Nat /\ Suppression \in Nat
  /\ FeeDueDay \in [Students -> Int]

ASSUME FollowCountAssumption ==
  /\ AbsentThreshold \in Nat /\ LateThreshold \in Nat /\ TotalThreshold \in Nat
  /\ MaxLogs \in Nat /\ MaxWrites \in Nat

ASSUME FollowNullAssumption == NoStudent \notin Students /\ "NONE" \notin Marks

VARIABLES
  day,        \* the clock, in days
  enrolled,   \* students with a row
  mark,       \* status of the attendance row of a student and a day, NONE without a row
  record,     \* the fee record of a student: NONE, OPEN (unsettled status and
              \* a balance) or SETTLED
  fired,      \* kinds whose cron job has started today
  job,        \* the running jobs: program counter and locals
  logs,       \* reminder logs that the look of their kind can find
  nextLog,    \* id of the next log
  writes,     \* requests so far (bounds the model)
  forgotten   \* students whose log was edited, detached or deleted since the
              \* job began (history)

calendar == <<day, fired>>
desk  == <<enrolled, mark, record, writes>>
book  == <<logs, nextLog>>
followVars == <<day, enrolled, mark, record, fired, job, logs, nextLog, writes, forgotten>>

Kinds == {"attendance", "fee"}

Log == [id : Nat, kind : Kinds, student : Students, day : Int, raced : BOOLEAN]

\* next takes a candidate and looks for a recent log, insert writes one.
\* all is the list as read, raced says that another job wrote the log of the
\* candidate in hand after this one had looked (history).
Job == [pc : {"idle", "next", "insert"}, kind : Kinds, cron : BOOLEAN, day : Int,
        all : SUBSET Students, todo : SUBSET Students,
        cur : Students \cup {NoStudent}, raced : BOOLEAN]

IdleJob == [pc |-> "idle", kind |-> "fee", cron |-> FALSE, day |-> 0,
            all |-> {}, todo |-> {}, cur |-> NoStudent, raced |-> FALSE]

FollowTypeOK ==
  /\ day \in Int
  /\ enrolled \subseteq Students
  /\ mark \in [Students \X Days -> Marks \cup {"NONE"}]
  /\ record \in [Students -> {"NONE", "OPEN", "SETTLED"}]
  /\ fired \subseteq Kinds
  /\ job \in [Jobs -> Job]
  /\ logs \subseteq Log
  /\ nextLog \in Nat
  /\ writes \in Nat
  /\ forgotten \in [Jobs -> SUBSET Students]
  /\ \A j \in Jobs : job[j].pc = "insert" => job[j].cur \in Students

FollowInit ==
  /\ day = 0
  /\ enrolled = Students
  /\ mark = [p \in Students \X Days |-> "NONE"]
  /\ record = [s \in Students |-> "NONE"]
  /\ fired = {}
  /\ job = [j \in Jobs |-> IdleJob]
  /\ logs = {}
  /\ nextLog = 0
  /\ writes = 0
  /\ forgotten = [j \in Jobs |-> {}]

-----------------------------------------------------------------------------
(* Requests on attendance rows and fee records. *)
Write ==
  /\ writes < MaxWrites
  /\ writes' = writes + 1
  /\ UNCHANGED <<calendar, job, book, forgotten>>

Recorded(p) == mark[p] # "NONE"

\* One row, or several of a day in one transaction; a row that is there
\* already violates the unique key and nothing is written.
MarkAttendance(S, d, m) ==
  /\ S # {} /\ S \subseteq enrolled
  /\ \A s \in S : ~Recorded(<<s, d>>)
  /\ mark' = [p \in DOMAIN mark |-> IF p \in S \X {d} THEN m ELSE mark[p]]
  /\ Write
  /\ UNCHANGED <<enrolled, record>>

\* The update may move the row to another student or day and change its status.
UpdateAttendance(p, q, m) ==
  /\ Recorded(p)
  /\ p = q \/ ~Recorded(q)
  /\ q[1] \in enrolled
  /\ mark' = [mark EXCEPT ![p] = "NONE", ![q] = m]
  /\ Write
  /\ UNCHANGED <<enrolled, record>>

\* bulkUpdateStatus; all rows exist or nothing is written.
UpdateManyStatus(P, m) ==
  /\ P # {} /\ \A p \in P : Recorded(p)
  /\ mark' = [p \in DOMAIN mark |-> IF p \in P THEN m ELSE mark[p]]
  /\ Write
  /\ UNCHANGED <<enrolled, record>>

DeleteAttendance(P) ==
  /\ P # {} /\ \A p \in P : Recorded(p)
  /\ mark' = [p \in DOMAIN mark |-> IF p \in P THEN "NONE" ELSE mark[p]]
  /\ Write
  /\ UNCHANGED <<enrolled, record>>

CreateRecord(s, st) ==
  /\ s \in enrolled
  /\ record[s] = "NONE"
  /\ record' = [record EXCEPT ![s] = st]
  /\ Write
  /\ UNCHANGED <<enrolled, mark>>

UpdateRecord(s, st) ==
  /\ record[s] # "NONE"
  /\ record' = [record EXCEPT ![s] = st]
  /\ Write
  /\ UNCHANGED <<enrolled, mark>>

\* A job that has begun no longer finds these logs.
Forget(L) ==
  /\ logs' = logs \ L
  /\ forgotten' = [j \in Jobs |->
       IF job[j].pc = "idle" THEN forgotten[j]
       ELSE forgotten[j] \cup {l.student : l \in {x \in L : x.kind = job[j].kind}}]

\* The logs of the record stay, with feeRecordId set to null.
DeleteRecords(S) ==
  /\ writes < MaxWrites
  /\ S # {} /\ \A s \in S : record[s] # "NONE"
  /\ record' = [s \in Students |-> IF s \in S THEN "NONE" ELSE record[s]]
  /\ Forget({l \in logs : l.kind = "fee" /\ l.student \in S})
  /\ writes' = writes + 1
  /\ UNCHANGED <<calendar, enrolled, mark, job, nextLog>>

\* Attendance rows, fee records and logs go with the student.
RemoveStudent(s) ==
  /\ writes < MaxWrites
  /\ s \in enrolled
  /\ enrolled' = enrolled \ {s}
  /\ mark' = [p \in DOMAIN mark |-> IF p[1] = s THEN "NONE" ELSE mark[p]]
  /\ record' = [record EXCEPT ![s] = "NONE"]
  /\ Forget({l \in logs : l.student = s})
  /\ writes' = writes + 1
  /\ UNCHANGED <<calendar, job, nextLog>>

\* RemindersService.update rewrites the message or the key, delete drops the row.
EditOrDeleteLogs(L) ==
  /\ writes < MaxWrites
  /\ L # {} /\ L \subseteq logs
  /\ Forget(L)
  /\ writes' = writes + 1
  /\ UNCHANGED <<calendar, enrolled, mark, record, job, nextLog>>

-----------------------------------------------------------------------------
(* What the two services look for. *)
Rows(s, m) == {d \in Days : mark[<<s, d>>] = m /\ day - Window <= d /\ d <= day}

\* shouldTriggerFollowUp
ShouldTriggerFollowUp(s) ==
  LET absent == Cardinality(Rows(s, "ABSENT"))
      late   == Cardinality(Rows(s, "LATE"))
  IN \/ absent >= AbsentThreshold
     \/ late >= LateThreshold
     \/ absent + late >= TotalThreshold

\* isEscalationDue: at nine on the due day, which a run may be before or after.
IsEscalationDue(s, afterNine) ==
  /\ record[s] = "OPEN"
  /\ FeeDueDay[s] < day \/ (afterNine /\ FeeDueDay[s] = day)

\* The look compares days alone and so misses the day it starts from.
RemindedLater(j, s) ==
  \E l \in logs : l.kind = job[j].kind /\ l.student = s /\ l.day > job[j].day - Suppression

\* existingReminder: createdAt on or after midnight Suppression days before the job began.
Reminded(j, s) ==
  \E l \in logs : l.kind = job[j].kind /\ l.student = s /\ l.day >= job[j].day - Suppression

-----------------------------------------------------------------------------
(* The jobs. *)
Start(j, kind, cron, S) ==
  /\ job[j].pc = "idle"
  /\ cron => kind \notin fired
  /\ fired' = IF cron THEN fired \cup {kind} ELSE fired
  /\ job' = [job EXCEPT ![j] = [IdleJob EXCEPT !.pc = "next", !.kind = kind,
               !.cron = cron, !.day = day, !.all = S, !.todo = S]]
  /\ UNCHANGED <<day, desk, book, forgotten>>

ProcessFollowUps(j, cron) ==
  Start(j, "attendance", cron, {s \in enrolled : ShouldTriggerFollowUp(s)})

\* The cron job runs at eight, before the hour at which a fee falls due.
ProcessEscalations(j, cron) ==
  \E afterNine \in BOOLEAN :
    /\ cron => ~afterNine
    /\ Start(j, "fee", cron, {s \in enrolled : IsEscalationDue(s, afterNine)})

\* The first candidate with a recent log ends the job's list.
LookBreaks(j) ==
  /\ job[j].pc = "next"
  /\ \E s \in job[j].todo :
       job' = [job EXCEPT ![j].todo = IF Reminded(j, s) THEN {} ELSE @ \ {s},
                          ![j].pc = IF Reminded(j, s) THEN "next" ELSE "insert",
                          ![j].cur = IF Reminded(j, s) THEN NoStudent ELSE s,
                          ![j].raced = FALSE]
  /\ UNCHANGED <<calendar, desk, book, forgotten>>

Look(j) ==
  /\ job[j].pc = "next"
  /\ \E s \in job[j].todo :
       job' = [job EXCEPT ![j].todo = @ \ {s},
                          ![j].pc = IF Reminded(j, s) THEN "next" ELSE "insert",
                          ![j].cur = IF Reminded(j, s) THEN NoStudent ELSE s,
                          ![j].raced = FALSE]
  /\ UNCHANGED <<calendar, desk, book, forgotten>>

\* Jobs that have looked for the same key and are about to write it too.
AlsoWriting(i, j) ==
  job[i].pc = "insert" /\ job[i].kind = job[j].kind /\ job[i].cur = job[j].cur

WriteLog(j) ==
  /\ nextLog < MaxLogs
  /\ logs' = logs \cup {[id |-> nextLog, kind |-> job[j].kind, student |-> job[j].cur,
                         day |-> day, raced |-> job[j].raced]}
  /\ nextLog' = nextLog + 1
  /\ job' = [i \in Jobs |->
       IF i = j THEN [job[j] EXCEPT !.pc = "next", !.cur = NoStudent]
       ELSE IF AlsoWriting(i, j) THEN [job[i] EXCEPT !.raced = TRUE] ELSE job[i]]
  /\ UNCHANGED <<calendar, desk, forgotten>>

\* An exception leaves the loop: the rest of the list is not looked at.
Abandon(j) ==
  /\ job' = [job EXCEPT ![j] = IdleJob]
  /\ forgotten' = [forgotten EXCEPT ![j] = {}]
  /\ UNCHANGED <<calendar, desk, book>>

InsertFollowUp(j) ==
  /\ job[j].pc = "insert" /\ job[j].kind = "attendance"
  /\ job[j].cur \in enrolled
  /\ WriteLog(j)

\* RemindersService.create finds the student and writes the log for the actor.
InsertEscalation(j) ==
  /\ job[j].pc = "insert" /\ job[j].kind = "fee"
  /\ record[job[j].cur] # "NONE"
  /\ ~job[j].cron
  /\ WriteLog(j)

\* The student or the record is gone, or the actor of the cron job, which is
\* no uuid, is refused by the column.
InsertRefused(j) ==
  /\ job[j].pc = "insert"
  /\ \/ job[j].cur \notin enrolled
     \/ job[j].kind = "fee" /\ (record[job[j].cur] = "NONE" \/ job[j].cron)
  /\ Abandon(j)

\* The list is done and the audit row written; that of the scheduled
\* escalation is refused like its logs, but then the job is over too.
Finish(j) ==
  /\ job[j].pc = "next" /\ job[j].todo = {}
  /\ Abandon(j)

StopJob(j) == job[j].pc # "idle" /\ Abandon(j)

NextMorning ==
  /\ day < MaxDay
  /\ day' = day + 1
  /\ fired' = {}
  /\ UNCHANGED <<desk, job, book, forgotten>>

-----------------------------------------------------------------------------
FollowRequest ==
  \/ \E S \in SUBSET Students, d \in Days, m \in Marks : MarkAttendance(S, d, m)
  \/ \E p, q \in DOMAIN mark, m \in Marks : UpdateAttendance(p, q, m)
  \/ \E P \in SUBSET DOMAIN mark, m \in Marks : UpdateManyStatus(P, m)
  \/ \E P \in SUBSET DOMAIN mark : DeleteAttendance(P)
  \/ \E s \in Students, st \in {"OPEN", "SETTLED"} : CreateRecord(s, st) \/ UpdateRecord(s, st)
  \/ \E S \in SUBSET Students : DeleteRecords(S)
  \/ \E s \in Students : RemoveStudent(s)
  \/ \E L \in SUBSET logs : EditOrDeleteLogs(L)

FollowStep(j) ==
  \/ \E cron \in BOOLEAN : ProcessFollowUps(j, cron) \/ ProcessEscalations(j, cron)
  \/ Look(j) \/ InsertFollowUp(j) \/ InsertEscalation(j) \/ InsertRefused(j)
  \/ Finish(j) \/ StopJob(j)

FollowNext == FollowRequest \/ (\E j \in Jobs : FollowStep(j)) \/ NextMorning

FollowSpec == FollowInit /\ [][FollowNext]_followVars

-----------------------------------------------------------------------------
(* Properties. *)

\* Two logs of one kind and key within the suppression days exist only when a
\* job wrote one of them after its look, while another job had just written
\* the other: one job after the other never repeats a follow-up
\* (attendance-alert-automation.service.ts:156, fee-escalation-automation.service.ts:160).
NoRepeatedFollowUp ==
  \A l, m \in logs :
    /\ l.id < m.id
    /\ l.kind = m.kind /\ l.student = m.student
    /\ m.day - l.day <= Suppression
    => m.raced

\* A job that gets through its list leaves no student of it without a recent
\* log, whatever was corrected or deleted meanwhile, but for the logs that
\* were themselves edited or deleted (attendance-alert-automation.service.ts:149,
\* fee-escalation-automation.service.ts:157).
RunLeavesNoneOut ==
  [][\A j \in Jobs : Finish(j) =>
       \A s \in job[j].all : s \in forgotten[j] \/ Reminded(j, s)]_followVars
=============================================================================
