--------------------------- MODULE OnlineClasses ---------------------------
(***************************************************************************)
(* One online class: one timetable entry on one date.  Its session rows    *)
(* are generated from the entry, participants are pulled from the meeting  *)
(* provider, and attendance is marked from the participants' minutes.      *)
(*                                                                         *)
(*   OnlineClassesService.runAutomationCycle    generate, sync, process:   *)
(*       every 15 minutes (Cron), and on demand from its endpoint          *)
(*   syncParticipantsFromGoogle, processAttendance   the same two parts,   *)
(*       for one session, on request                                       *)
(*   OnlineClassesService.create, addParticipants, TimetablesService and   *)
(*       AttendanceService    what staff do by hand meanwhile              *)
(*                                                                         *)
(* A job runs its database and provider calls one at a time, so the calls  *)
(* of two jobs interleave, and it may die between two of them (Abort).     *)
(*                                                                         *)
(* A definition whose name is not used below is a faulty variant of the    *)
(* one that follows it, for the mutation runs.                             *)
(***************************************************************************)
EXTENDS Integers, FiniteSets

CONSTANTS
  Students,
  Visits,       \* participant sessions the provider holds for the meeting code
  Previous,     \* those of an earlier conference under the same code
  Match,        \* the students whose own or guardian e-mail a visit carries
  Stays,        \* bound of the model: minutes a visit may last
  Sessions,     \* bound of the model: ids for session rows
  Cycles,       \* automation cycles that may overlap
  Cron,         \* the one the scheduler starts
  Requests,     \* manual sync and process requests that may overlap
  HandRows,     \* bound of the model: participant rows staff may enter
  MaxEdits,     \* bound of the model: staff edits and crashes
  NoStudent, NoSession, NoVisit

Jobs == Cycles \cup Requests

\* timetable.attendanceJoinThresholdMinutes is not selected: the default holds.
Threshold == 5

\* OnlineClassParticipantSession; a visit is the key externalParticipantId:joinedAt.
Row == [visit : Visits \cup {NoVisit}, student : Students \cup {NoStudent}, minutes : Nat]

\* Attendance of a student for the batch and the date, at most one row.
Mark == [source : {"NONE", "MANUAL", "ONLINE_CLASS"}, status : {"NONE", "PRESENT", "ABSENT"},
         session : Sessions \cup {NoSession}]

Unmarked == [source |-> "NONE", status |-> "NONE", session |-> NoSession]

Presence(s) == [source |-> "ONLINE_CLASS", status |-> "PRESENT", session |-> s]

Conference == {"none", "previous", "present"}

\* OnlineClassProvider; the integration talks to the first only.
Providers == {"GOOGLE_MEET", "ZOOM"}

ASSUME JobsAssumption ==
  /\ IsFiniteSet(Cycles)
  /\ Cron \in Cycles
  /\ Cycles \cap Requests = {}

ASSUME RowsAssumption == HandRows \subseteq Row

ASSUME VisitsAssumption ==
  /\ Previous \subseteq Visits
  /\ Match \in [Visits -> SUBSET Students]
  /\ Stays \subseteq Nat \ {0}

ASSUME NullsAssumption ==
  NoStudent \notin Students /\ NoSession \notin Sessions /\ NoVisit \notin Visits

VARIABLES
  over,          \* the scheduled end is more than five minutes past
  others,        \* what the other entries and sessions do to the cycle
  entry,         \* the timetable entry
  planned,       \* its onlineClassProvider
  meet, stay,    \* the provider: whether a visit has begun and ended, its minutes
  present,       \* session rows that exist
  provider,      \* the provider each was created with
  record,        \* their externalConferenceRecordId
  processed,     \* those with attendanceProcessedAt
  rows,          \* their participant rows
  att,           \* attendance of the date
  job,           \* the jobs: program counter and locals
  generated,     \* sessions the cycles created so far (history)
  handled,       \* students whose mark staff deleted or moved (history)
  edits          \* staff edits and crashes so far (bounds the model)

world == <<over, others, entry, planned, meet, stay>>
table == <<present, provider, record, processed, rows>>
vars == <<over, others, entry, planned, meet, stay, present, provider, record, processed,
          rows, att, job, generated, handled, edits>>

(***************************************************************************)
(* pc names the next call:                                                 *)
(*   check    findFirst of the occurrence      create   createFromTimetable *)
(*   list     findAutomationCandidates         next     the loop over them, *)
(*   fetch    the provider                              with the setting    *)
(*   save     update of the session            record   the row inserts    *)
(*   fresh    getSessionOrThrow                exists   findFirst of the   *)
(*   mark     create of the attendance                  attendance, then   *)
(*                                             markAttendanceProcessed     *)
(* A snapshot is the session as the job read it.                           *)
(***************************************************************************)
Pc == {"idle", "check", "create", "list", "next", "fetch", "save", "record", "fresh",
       "exists", "mark"}

Snapshot == [session : Sessions \cup {NoSession}, record : Conference, processed : BOOLEAN,
             known : SUBSET (Visits \cup {NoVisit})]

Job == [pc : Pc, queue : SUBSET Snapshot, snap : Snapshot, record : Conference,
        found : SUBSET Row, eligible : SUBSET Row, todo : SUBSET Row, row : Row]

Only(s) == [session |-> s, record |-> "none", processed |-> FALSE, known |-> {}]

NoSnapshot == Only(NoSession)

NoRow == [visit |-> NoVisit, student |-> NoStudent, minutes |-> 0]

Idle == [pc |-> "idle", queue |-> {}, snap |-> NoSnapshot, record |-> "none",
         found |-> {}, eligible |-> {}, todo |-> {}, row |-> NoRow]

At(j, label) == job[j].pc = label

Goto(j, label) == job' = [job EXCEPT ![j].pc = label]

Finish(j) == job' = [job EXCEPT ![j] = Idle]

\* A cycle catches what goes wrong with one session and goes on with the next;
\* a request ends.
Leave(j) ==
  job' = [job EXCEPT ![j] = IF j \in Cycles THEN [Idle EXCEPT !.pc = "next", !.queue = job[j].queue]
                            ELSE Idle]

Read(s) == [session |-> s, record |-> record[s], processed |-> s \in processed,
            known |-> {r.visit : r \in rows[s]}]

\* What is left to use of a snapshot once the provider has answered.
Used(k) == [NoSnapshot EXCEPT !.session = k.session, !.processed = k.processed]

DecideAfterEnd(c, k, Q) ==
  job' = [job EXCEPT ![c] = IF k.processed \/ over
                            THEN [Idle EXCEPT !.pc = "next", !.queue = Q]
                            ELSE [Idle EXCEPT !.pc = "fresh", !.queue = Q, !.snap = Used(k)]]

\* A cycle processes a session whose snapshot was not processed once the class
\* is over, from the snapshot k and the candidates Q left.
Decide(c, k, Q) ==
  job' = [job EXCEPT ![c] = IF k.processed \/ ~over
                            THEN [Idle EXCEPT !.pc = "next", !.queue = Q]
                            ELSE [Idle EXCEPT !.pc = "fresh", !.queue = Q, !.snap = Used(k)]]

\* A sync that ends, well or not, is followed by that in a cycle only.
AfterSync(j) ==
  IF j \in Cycles THEN Decide(j, job[j].snap, job[j].queue) ELSE Finish(j)

EligibleAnyStay(R) == {r \in R : r.student # NoStudent}

\* The filter of processAttendanceForSession.
Eligible(R) == {r \in R : r.student # NoStudent /\ r.minutes >= Threshold}

TypeOK ==
  /\ over \in BOOLEAN
  /\ others \in {"quiet", "disturbing"}
  /\ entry \in {"online", "offline", "gone"}
  /\ planned \in Providers
  /\ meet \in [Visits -> {"out", "in", "left"}]
  /\ stay \in [Visits -> Nat]
  /\ present \subseteq Sessions
  /\ provider \in [Sessions -> Providers]
  /\ record \in [Sessions -> Conference]
  /\ processed \subseteq present
  /\ rows \in [Sessions -> SUBSET Row]
  /\ att \in [Students -> Mark]
  /\ \A t \in Students : att[t].session \in present \cup {NoSession}
  /\ job \in [Jobs -> Job]
  /\ generated \in Nat
  /\ handled \subseteq Students
  /\ edits \in Nat

Init ==
  /\ over = FALSE
  /\ others = "quiet"
  /\ entry = "online"
  /\ planned \in Providers
  /\ meet = [v \in Visits |-> IF v \in Previous THEN "left" ELSE "out"]
  /\ stay \in [Visits -> Stays \cup {0}]
  /\ \A v \in Visits : stay[v] = 0 <=> v \notin Previous
  /\ present = {}
  /\ provider = [s \in Sessions |-> "GOOGLE_MEET"]
  /\ record = [s \in Sessions |-> "none"]
  /\ processed = {}
  /\ rows = [s \in Sessions |-> {}]
  /\ att = [t \in Students |-> Unmarked]
  /\ job = [j \in Jobs |-> Idle]
  /\ generated = 0
  /\ handled = {}
  /\ edits = 0

-----------------------------------------------------------------------------
(* generateScheduledSessionsForDateOffsets, for this entry and date.        *)

\* The entries are selected first.  Once the class is over its date may have
\* left the two days the cycle looks at.
StartCycle(c) ==
  /\ At(c, "idle")
  /\ \/ entry = "online" /\ Goto(c, "check")
     \/ (entry # "online" \/ over) /\ Goto(c, "list")
  /\ UNCHANGED <<world, table, att, generated, handled, edits>>

CheckOccurrenceNever(c) ==
  /\ At(c, "check")
  /\ Goto(c, "create")
  /\ UNCHANGED <<world, table, att, generated, handled, edits>>

CheckOccurrence(c) ==
  /\ At(c, "check")
  /\ IF present = {} THEN Goto(c, "create") ELSE Goto(c, "list")
  /\ UNCHANGED <<world, table, att, generated, handled, edits>>

\* createFromTimetable: no unique key stops a second row for the occurrence, and
\* the provider of the row is that of the entry.
InsertSession ==
  /\ present # Sessions
  /\ LET s == CHOOSE s \in Sessions : s \notin present
     IN present' = present \cup {s} /\ provider' = [provider EXCEPT ![s] = planned]
  /\ UNCHANGED <<record, processed, rows>>

\* An entry that is gone makes the insert throw, which ends the cycle.
CreateOccurrence(c) ==
  /\ At(c, "create")
  /\ \/ /\ entry = "gone"
        /\ Finish(c)
        /\ UNCHANGED <<table, generated>>
     \/ /\ entry # "gone"
        /\ InsertSession
        /\ generated' = generated + 1
        /\ Goto(c, "list")
  /\ UNCHANGED <<world, att, handled, edits>>

\* Another entry whose session cannot be created ends the cycle before this
\* read; a hundred later sessions push this class out of the window it reads.
\* Sessions of another provider are no candidates, for the sync or the marks.
OnGoogleMeet == {s \in present : provider[s] = "GOOGLE_MEET"}

ListCandidates(c) ==
  /\ At(c, "list")
  /\ \/ job' = [job EXCEPT ![c].pc = "next", ![c].queue = {Read(s) : s \in OnGoogleMeet}]
     \/ others = "disturbing" /\ (Finish(c) \/ Goto(c, "next"))
  /\ UNCHANGED <<world, table, att, generated, handled, edits>>

\* The loop over the candidates.  OnlineClassProviderSetting decides on the sync:
\* staff may edit it between any two reads, so a read may find any value.
NextCandidate(c) ==
  /\ At(c, "next")
  /\ \/ job[c].queue = {} /\ Finish(c)
     \/ \E q \in job[c].queue :
          \/ job' = [job EXCEPT ![c].pc = "fetch", ![c].queue = @ \ {q}, ![c].snap = q]
          \/ Decide(c, q, job[c].queue \ {q})
  /\ UNCHANGED <<world, table, att, generated, handled, edits>>

-----------------------------------------------------------------------------
(* syncParticipantsForSession and GoogleMeetProvider.syncParticipants.      *)

\* The endpoint refuses a session of another provider.
StartSync(r, s) ==
  /\ At(r, "idle")
  /\ s \in OnGoogleMeet
  /\ job' = [job EXCEPT ![r].pc = "fetch", ![r].snap = Read(s)]
  /\ UNCHANGED <<world, table, att, generated, handled, edits>>

Begun == \E v \in Visits \ Previous : meet[v] # "out"

\* resolveConferenceRecord: the one stored, else the latest with this code.
Resolved(k) ==
  IF k.record # "none" THEN k.record
  ELSE IF Begun THEN "present"
  ELSE IF Previous # {} THEN "previous" ELSE "none"

Attended(c) == {v \in Visits : meet[v] # "out" /\ (v \in Previous <=> c = "previous")}

\* What the provider tells of a visit: no end yet means no minutes, and the
\* e-mail picks the first student it finds.
RowsOf(v) ==
  {[visit |-> v, student |-> t, minutes |-> stay[v]] :
     t \in IF Match[v] = {} THEN {NoStudent} ELSE Match[v]}

FetchParticipants(j) ==
  /\ At(j, "fetch")
  /\ LET k == job[j].snap
         c == Resolved(k)
     IN \/ AfterSync(j)      \* the setting is off, or the provider fails
        \/ /\ c # "none"
           /\ \E F \in SUBSET UNION {RowsOf(v) : v \in Attended(c) \ k.known} :
                /\ \A v \in Attended(c) \ k.known : Cardinality(F \cap RowsOf(v)) = 1
                /\ job' = [job EXCEPT ![j].pc = "save", ![j].snap = Used(k), ![j].record = c,
                                     ![j].found = F]
  /\ UNCHANGED <<world, table, att, generated, handled, edits>>

SaveConference(j) ==
  /\ At(j, "save")
  /\ LET s == job[j].snap.session
     IN IF s \in present
        THEN /\ record' = [record EXCEPT ![s] = job[j].record]
             /\ job' = [job EXCEPT ![j].pc = "record", ![j].record = "none"]
        ELSE AfterSync(j) /\ UNCHANGED record
  /\ UNCHANGED <<world, present, provider, processed, rows, att, generated, handled, edits>>

RecordParticipant(j) ==
  /\ At(j, "record")
  /\ LET s == job[j].snap.session
     IN IF job[j].found = {} \/ s \notin present
        THEN AfterSync(j) /\ UNCHANGED rows
        ELSE \E r \in job[j].found :
               /\ rows' = [rows EXCEPT ![s] = @ \cup {r}]
               /\ job' = [job EXCEPT ![j].found = @ \ {r}]
  /\ UNCHANGED <<world, present, provider, record, processed, att, generated, handled, edits>>

-----------------------------------------------------------------------------
(* processAttendanceForSession.                                             *)

\* The participants as they are now, and the ones that count.  The entry is
\* read next: it exists as long as its session does.
Begin(j, s) ==
  job' = [job EXCEPT ![j].pc = "exists", ![j].snap = Only(s),
                     ![j].eligible = Eligible(rows[s]), ![j].todo = Eligible(rows[s])]

ReadFresh(c) ==
  /\ At(c, "fresh")
  /\ IF job[c].snap.session \in present THEN Begin(c, job[c].snap.session) ELSE Leave(c)
  /\ UNCHANGED <<world, table, att, generated, handled, edits>>

\* The endpoint asks neither for the end of the class nor for a first time, nor
\* for the provider.
StartProcess(r, s) ==
  /\ At(r, "idle")
  /\ s \in present
  /\ Begin(r, s)
  /\ UNCHANGED <<world, table, att, generated, handled, edits>>

CheckMark(j) ==
  /\ At(j, "exists")
  /\ \E r \in job[j].todo :
       IF att[r.student] # Unmarked
       THEN job' = [job EXCEPT ![j].todo = @ \ {r}]
       ELSE job' = [job EXCEPT ![j].pc = "mark", ![j].row = r]
  /\ UNCHANGED <<world, table, att, generated, handled, edits>>

CreateMarkUpserting(j) ==
  /\ At(j, "mark")
  /\ job[j].snap.session \in present
  /\ att' = [att EXCEPT ![job[j].row.student] = Presence(job[j].snap.session)]
  /\ job' = [job EXCEPT ![j].pc = "exists", ![j].todo = @ \ {job[j].row},
                                  ![j].row = NoRow]
  /\ UNCHANGED <<world, table, generated, handled, edits>>

CreateMarkUnlinked(j) ==
  /\ At(j, "mark")
  /\ att[job[j].row.student] = Unmarked
  /\ att' = [att EXCEPT ![job[j].row.student] = Presence(job[j].snap.session)]
  /\ job' = [job EXCEPT ![j].pc = "exists", ![j].todo = @ \ {job[j].row},
                                  ![j].row = NoRow]
  /\ UNCHANGED <<world, table, generated, handled, edits>>

\* The unique key on student, batch and date, and the reference to the session,
\* make the create throw when either changed since the check.
CreateMark(j) ==
  /\ At(j, "mark")
  /\ LET s == job[j].snap.session
         t == job[j].row.student
     IN IF att[t] = Unmarked /\ s \in present
        THEN /\ att' = [att EXCEPT ![t] = Presence(s)]
             /\ job' = [job EXCEPT ![j].pc = "exists", ![j].todo = @ \ {job[j].row},
                                  ![j].row = NoRow]
        ELSE Leave(j) /\ UNCHANGED att
  /\ UNCHANGED <<world, table, generated, handled, edits>>

MarkAttendanceProcessedEarly(j) ==
  /\ At(j, "exists")
  /\ processed' = processed \cup ({job[j].snap.session} \cap present)
  /\ Leave(j)
  /\ UNCHANGED <<world, present, provider, record, rows, att, generated, handled, edits>>

\* After the loop; a session that is gone makes the update throw.
MarkAttendanceProcessed(j) ==
  /\ At(j, "exists")
  /\ job[j].todo = {}
  /\ processed' = processed \cup ({job[j].snap.session} \cap present)
  /\ Leave(j)
  /\ UNCHANGED <<world, present, provider, record, rows, att, generated, handled, edits>>

-----------------------------------------------------------------------------
(* Staff.                                                                   *)
Edit == edits < MaxEdits /\ edits' = edits + 1

\* OnlineClassesService.create; the bound leaves ids for the cycles.
CreateByHand ==
  /\ Edit
  /\ entry # "gone"
  /\ Cardinality(present) < Cardinality(Sessions) - Cardinality(Cycles)
  /\ InsertSession
  /\ UNCHANGED <<world, att, job, generated, handled>>

AddParticipant(s, r) ==
  /\ Edit
  /\ s \in present
  /\ rows' = [rows EXCEPT ![s] = @ \cup {r}]
  /\ UNCHANGED <<world, present, provider, record, processed, att, job, generated, handled>>

\* TimetablesService.update of isActive, deliveryMode or onlineClassProvider; the
\* sessions that are there keep their provider.
UpdateEntry(x, p) ==
  /\ Edit
  /\ entry # "gone"
  /\ entry' = x
  /\ planned' = p
  /\ UNCHANGED <<over, others, meet, stay, table, att, job, generated, handled>>

\* Deleting the entry deletes its sessions and their participants; marks stay
\* and lose their reference.
DeleteEntry ==
  /\ Edit
  /\ entry # "gone"
  /\ entry' = "gone"
  /\ present' = {}
  /\ provider' = [s \in Sessions |-> "GOOGLE_MEET"]
  /\ record' = [s \in Sessions |-> "none"]
  /\ processed' = {}
  /\ rows' = [s \in Sessions |-> {}]
  /\ att' = [t \in Students |-> [att[t] EXCEPT !.session = NoSession]]
  /\ UNCHANGED <<over, others, planned, meet, stay, job, generated, handled>>

\* AttendanceService: one or many in a transaction, all or none.
CreateAttendance(T, x) ==
  /\ Edit
  /\ T # {}
  /\ \A t \in T : att[t] = Unmarked
  /\ att' = [t \in Students |-> IF t \in T
                                THEN [source |-> "MANUAL", status |-> x, session |-> NoSession]
                                ELSE att[t]]
  /\ UNCHANGED <<world, table, job, generated, handled>>

UpdateStatus(T, x) ==
  /\ Edit
  /\ T # {}
  /\ \A t \in T : att[t] # Unmarked
  /\ att' = [t \in Students |-> IF t \in T THEN [att[t] EXCEPT !.status = x] ELSE att[t]]
  /\ UNCHANGED <<world, table, job, generated, handled>>

\* UpdateAttendanceDto also carries the student: the row keeps source and session.
MoveAttendance(t, u) ==
  /\ Edit
  /\ att[t] # Unmarked
  /\ att[u] = Unmarked
  /\ att' = [att EXCEPT ![u] = att[t], ![t] = Unmarked]
  /\ handled' = handled \cup {t, u}
  /\ UNCHANGED <<world, table, job, generated>>

DeleteAttendance(T) ==
  /\ Edit
  /\ T # {}
  /\ \A t \in T : att[t] # Unmarked
  /\ att' = [t \in Students |-> IF t \in T THEN Unmarked ELSE att[t]]
  /\ handled' = handled \cup T
  /\ UNCHANGED <<world, table, job, generated>>

-----------------------------------------------------------------------------
(* The world outside the program.                                           *)
Join(v) ==
  /\ meet[v] = "out"
  /\ meet' = [meet EXCEPT ![v] = "in"]
  /\ UNCHANGED <<over, others, entry, planned, stay, table, att, job, generated, handled, edits>>

LeaveMeeting(v, m) ==
  /\ meet[v] = "in"
  /\ meet' = [meet EXCEPT ![v] = "left"]
  /\ stay' = [stay EXCEPT ![v] = m]
  /\ UNCHANGED <<over, others, entry, planned, table, att, job, generated, handled, edits>>

End ==
  /\ ~over
  /\ over' = TRUE
  /\ UNCHANGED <<others, entry, planned, meet, stay, table, att, job, generated, handled, edits>>

\* Other classes fill the window of a hundred, or one of them cannot be created.
Disturb ==
  /\ Edit
  /\ others = "quiet"
  /\ others' = "disturbing"
  /\ UNCHANGED <<over, entry, planned, meet, stay, table, att, job, generated, handled>>

\* A call inside one of the two catches of the loop fails.
Fail(j) ==
  /\ Edit
  /\ \/ job[j].pc \in {"save", "record"} /\ AfterSync(j)
     \/ job[j].pc \in {"fresh", "exists", "mark"} /\ Leave(j)
  /\ UNCHANGED <<world, table, att, generated, handled>>

\* The process dies, or a call outside the catches fails.
Abort(j) ==
  /\ Edit
  /\ ~At(j, "idle")
  /\ Finish(j)
  /\ UNCHANGED <<world, table, att, generated, handled>>

CycleStep(c) ==
  \/ CheckOccurrence(c) \/ CreateOccurrence(c) \/ ListCandidates(c)
  \/ NextCandidate(c) \/ ReadFresh(c)

JobStep(j) ==
  \/ FetchParticipants(j) \/ SaveConference(j) \/ RecordParticipant(j)
  \/ CheckMark(j) \/ CreateMark(j) \/ MarkAttendanceProcessed(j)

StaffStep ==
  \/ CreateByHand
  \/ \E s \in Sessions, r \in HandRows : AddParticipant(s, r)
  \/ \E x \in {"online", "offline"}, p \in Providers : UpdateEntry(x, p)
  \/ DeleteEntry
  \/ \E T \in SUBSET Students, x \in {"PRESENT", "ABSENT"} :
       CreateAttendance(T, x) \/ UpdateStatus(T, x)
  \/ \E t, u \in Students : MoveAttendance(t, u)
  \/ \E T \in SUBSET Students : DeleteAttendance(T)

WorldStep ==
  \/ \E v \in Visits : Join(v)
  \/ \E v \in Visits, m \in Stays : LeaveMeeting(v, m)
  \/ End
  \/ Disturb

Next ==
  \/ \E c \in Cycles : StartCycle(c) \/ CycleStep(c)
  \/ \E r \in Requests, s \in Sessions : StartSync(r, s) \/ StartProcess(r, s)
  \/ \E j \in Jobs : JobStep(j) \/ Fail(j) \/ Abort(j)
  \/ StaffStep
  \/ WorldStep

Spec == Init /\ [][Next]_vars

\* The scheduler starts the cycle every fifteen minutes, and a cycle that is
\* not killed goes on.
Fairness == WF_vars(StartCycle(Cron)) /\ WF_vars(CycleStep(Cron) \/ JobStep(Cron))

FairSpec == Spec /\ Fairness

-----------------------------------------------------------------------------
(* Properties.                                                              *)

\* A presence the automation wrote, and staff did not move, is backed by a
\* participant row of that student in that session which passes the threshold:
\* no join, snapshot or race lets one be written from something else.
\* (online-classes.service.ts processAttendanceForSession)
PresenceBacked ==
  \A t \in Students \ handled :
    (att[t].source = "ONLINE_CLASS" /\ att[t].session # NoSession) =>
      \E r \in rows[att[t].session] : r.student = t /\ r.minutes >= Threshold

\* An existing mark is changed or removed by staff only: the automation that
\* races a teacher loses.  (processAttendanceForSession, attendance unique key)
TeachersMarkStays ==
  [][\A t \in Students : att[t] # Unmarked /\ att'[t] # att[t] => edits' = edits + 1]_vars

\* A session is marked processed only when every eligible participant the job
\* read has a mark, unless staff took it away: a failure halfway never counts
\* as done.  (markAttendanceProcessed after the loop)
ProcessedCoversEligible ==
  [][\A j \in Jobs :
       At(j, "exists") /\ ~(processed' \subseteq processed) /\ job'[j] # job[j] =>
         \A r \in job[j].eligible : att[r.student] # Unmarked \/ r.student \in handled]_vars

\* Nothing but the check keeps an occurrence single, over however many runs: the
\* cycles never create more sessions for it than there are cycles that overlap.
\* (generateScheduledSessionsForDateOffsets)
SessionsPerOccurrence == generated <= Cardinality(Cycles)

\* Once a class on Google Meet is over its session is processed, as long as the
\* other entries neither fail the cycle nor crowd this class out of its window,
\* however two cycles overlap and jobs fail.  (runAutomationCycle)
ClassIsProcessed ==
  \A s \in Sessions :
    (s \in OnGoogleMeet /\ over) ~> (s \in processed \/ s \notin present \/ others # "quiet")

\* What the design notes say of automatic presence: it needs the student's own
\* visit to this class, long enough.  (ONLINE_CLASSES_DESIGN.md, Product Rules)
PresentWasThere ==
  \A t \in Students \ handled :
    att[t].source = "ONLINE_CLASS" =>
      \/ \E v \in Visits \ Previous : t \in Match[v] /\ stay[v] >= Threshold
      \/ \E r \in HandRows : r.student = t

=============================================================================
