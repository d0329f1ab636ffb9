------------------------------ MODULE Seeding ------------------------------
(* The seed script prisma/seed.ts: it brings the default academy and the    *)
(* role permissions up to date, then empties and rebuilds two demonstration *)
(* organizations, one call to the database at a time and in no transaction. *)
(* It is written to be run again, after a run that was stopped or refused   *)
(* too, and the office may write to the same tables while it works.         *)
(*                                                                          *)
(* One row of a table stands for all that one step of the script writes     *)
(* there.  A behaviour follows one demonstration organization, `part`: the  *)
(* two share no row.  GrantUnrevoked, a faulty variant of GrantAll, is used *)
(* by no definition.                                                        *)
EXTENDS Naturals, Sequences, FiniteSets

CONSTANTS MaxRuns, MaxStops, MaxWrites,  \* bounds: runs, interrupted runs, writes of the office
          Touched                        \* the tables of the organization the office writes to

ASSUME SeedingAssumption == MaxRuns \in Nat /\ MaxStops \in Nat /\ MaxWrites \in Nat

VARIABLES part, at, rows, elsewhere, grants, active, outcome, disturbed, runs, stops, writes
seedVars == <<part, at, rows, elsewhere, grants, active, outcome, disturbed, runs, stops, writes>>

\* part        the demonstration organization this behaviour follows
\* at          the step of the script a run is about to take, 0 when none runs
\* rows        for each table, whose rows it holds (Makers)
\* elsewhere   another organization has a user with an e-mail of the seed
\* grants      the permissions of each role
\* active      which of Doors are active: their people may sign in
\* outcome     how the last run ended
\* disturbed   (history) the office wrote since the last run started

-----------------------------------------------------------------------------
(* Tables, and what a row of each refers to                                 *)

\* "new" rows are of the run that works or worked last, "old" ones of an earlier run; the
\* office's rows carry a key of the seed ("taken") or one of their own ("staff").
Makers == {"old", "new", "taken", "staff"}

\* The references that take a row with the row they name (onDelete: Cascade).
Cascades ==
  {<<"userRole", "user">>, <<"portalAccount", "student">>, <<"studentDocument", "student">>,
   <<"studentBatch", "student">>, <<"studentBatch", "batch">>,
   <<"batchSubject", "batch">>, <<"batchSubject", "subject">>,
   <<"timetable", "batch">>, <<"timetable", "subject">>,
   <<"feePlan", "student">>, <<"feeRecord", "student">>, <<"feeRecord", "feePlan">>,
   <<"attendance", "student">>, <<"attendance", "batch">>,
   <<"exam", "batch">>, <<"examSubject", "exam">>, <<"examSubject", "subject">>,
   <<"examResult", "exam">>, <<"examResult", "student">>, <<"examResult", "batch">>,
   <<"examResultItem", "examResult">>, <<"examResultItem", "examSubject">>,
   <<"examResultItem", "subject">>,
   <<"assignment", "batch">>, <<"assignment", "subject">>,
   <<"submission", "assignment">>, <<"submission", "student">>,
   <<"assessment", "batch">>, <<"assessment", "subject">>,
   <<"question", "assessment">>, <<"question", "subject">>, <<"option", "question">>,
   <<"attempt", "assessment">>, <<"attempt", "student">>,
   <<"answer", "attempt">>, <<"answer", "question">>,
   <<"assessmentResult", "assessment">>, <<"assessmentResult", "attempt">>,
   <<"assessmentResult", "student">>,
   <<"classSession", "timetable">>, <<"classSession", "batch">>, <<"classSession", "subject">>,
   <<"participant", "classSession">>, <<"reminderLog", "student">>,
   <<"reminderRule", "reminderTemplate">>, <<"reminderSchedule", "reminderRule">>,
   <<"reminderSchedule", "reminderTemplate">>, <<"reminderSchedule", "student">>,
   <<"defaultRule", "defaultTemplate">>}

\* The references a deleted row leaves empty (onDelete: SetNull): the row stays.
Loose ==
  {<<"batchSubject", "session">>, <<"batchSubject", "teacher">>, <<"timetable", "session">>,
   <<"timetable", "teacher">>, <<"exam", "session">>, <<"exam", "teacher">>,
   <<"examResult", "session">>, <<"assignment", "session">>, <<"assignment", "teacher">>,
   <<"submission", "teacher">>, <<"assessment", "session">>, <<"assessment", "teacher">>,
   <<"answer", "teacher">>, <<"answer", "option">>, <<"classSession", "session">>,
   <<"classSession", "teacher">>, <<"participant", "student">>, <<"feePlan", "batch">>,
   <<"feeRecord", "batch">>, <<"studentDocument", "user">>, <<"asset", "user">>,
   <<"reminderLog", "feeRecord">>, <<"reminderLog", "user">>,
   <<"reminderSchedule", "feeRecord">>, <<"reminderSchedule", "reminderLog">>}

\* resetDemoOrganizationData: what it empties, in its order.
ResetOrder ==
  <<"participant", "classSession", "attendance", "reminderSchedule", "reminderLog",
    "feeRecord", "feePlan", "examResultItem", "examResult", "examSubject", "submission",
    "assignment", "assessmentResult", "answer", "attempt", "option", "question", "assessment",
    "exam", "timetable", "batchSubject", "portalAccount", "studentBatch", "studentDocument",
    "asset", "billing", "automationRun", "student", "teacher", "subject", "session", "batch",
    "reminderRule", "reminderTemplate", "reminderSetting", "classSetting", "user">>

\* Mail, announcements and the like belong to the organization and are never emptied.
Kept == {"mail"}
DefaultTables == {"defaultUser", "defaultSetting", "defaultTemplate", "defaultRule"}
Tables == {ResetOrder[i] : i \in DOMAIN ResetOrder} \cup {"userRole"} \cup Kept \cup DefaultTables

\* The unique keys of the schema that a row of the seed occupies.
Keyed == {"user", "userRole", "session", "batch", "subject", "teacher", "batchSubject",
          "student", "studentBatch", "portalAccount", "feeRecord", "attendance", "exam",
          "examSubject", "examResult", "examResultItem", "assignment", "submission",
          "assessment", "attempt", "answer", "assessmentResult", "reminderTemplate",
          "reminderSchedule", "reminderSetting", "classSetting"}

References(t) == {p \in Tables : <<t, p>> \in Cascades \cup Loose}

\* The tables that lose every row with table t: all rows of one organization hang on its own.
\* (References chain over at most four tables, so two doublings close the relation.)
Doubled(R) == R \cup {<<g[1][1], g[2][2]>> : g \in {x \in R \X R : x[1][2] = x[2][1]}}
Falls == Doubled(Doubled(Cascades))
Emptied(r, t) == [u \in Tables |-> IF u = t \/ <<u, t>> \in Falls THEN {} ELSE r[u]]

-----------------------------------------------------------------------------
(* The script                                                               *)

Delete(t) == [op |-> "delete", on |-> t]
Create(t) == [op |-> "create", on |-> t]
Upsert(t) == [op |-> "upsert", on |-> t]
Open(d) == [op |-> "open", on |-> d]
Grant(r, p) == [op |-> "grant", on |-> r, permission |-> p]

\* Permissions by who holds them: the super administrator only, the office, the portals.
Permissions == {"settings", "work", "portal"}
Roles == {"SUPER_ADMIN", "ADMIN", "STAFF", "ACADEMIC_COORDINATOR", "TEACHER",
          "STUDENT", "PARENT"}
SeedGrants ==
  [r \in Roles |-> CASE r = "SUPER_ADMIN"             -> {"settings", "work", "portal"}
                     [] r = "ADMIN"                   -> {"work", "portal"}
                     [] r \in {"STUDENT", "PARENT"}   -> {"portal"}
                     [] OTHER                         -> {"work"}]

\* A role the super administrator made: the script does not know it.
Custom == "CUSTOM"

\* What the script switches on again: two organizations and the default administrator.
Doors == {"defaultOrganization", "defaultAdmin", "organization"}

\* The default organization, and the permissions and roles nothing ever deletes.
Opening == <<Open("defaultOrganization")>>

Grants ==
  <<Grant("SUPER_ADMIN", "settings"), Grant("SUPER_ADMIN", "work"), Grant("SUPER_ADMIN", "portal"),
    Grant("ADMIN", "work"), Grant("ADMIN", "portal"), Grant("STAFF", "work"),
    Grant("ACADEMIC_COORDINATOR", "work"), Grant("TEACHER", "work"),
    Grant("STUDENT", "portal"), Grant("PARENT", "portal")>>

\* Faulty variant of GrantAll: nothing is revoked first.
GrantUnrevoked == Grants

\* The permissions of all roles are revoked, and those of each seeded role granted one by one.
GrantAll == <<[op |-> "revoke", on |-> Custom]>> \o Grants

\* The default academy is only ever updated, except for its three rules, deleted by name.
DefaultAdmins == <<Upsert("defaultUser"), Open("defaultAdmin")>>
DefaultReminders ==
  <<Upsert("defaultSetting"), Upsert("defaultTemplate"),
    [op |-> "deleteNamed", on |-> "defaultRule"], Create("defaultRule")>>

\* resetDemoOrganizationData, one deleteMany a step.
Reset == [i \in DOMAIN ResetOrder |-> Delete(ResetOrder[i])]

\* seedDemoOrganization after the reset, up to the class it teaches.
DemoOffice ==
  <<Create("user"), Create("userRole"), Create("reminderSetting"), Create("session"),
    Create("batch"), Create("subject"), Create("teacher")>>
DemoTeaching == <<Create("batchSubject"), Create("timetable")>>
DemoPupils == <<Create("student"), Create("studentBatch"), Create("feePlan"),
                Create("feeRecord"), Create("attendance")>>
DemoMarks == <<Create("exam"), Create("examSubject"), Create("examResult"),
               Create("examResultItem"), Create("portalAccount"), Create("reminderTemplate")>>

\* seedNorthfieldLearningHub after the reset.
NorthfieldOffice ==
  <<Create("user"), Create("userRole"), Create("billing"), Create("reminderSetting"),
    Create("classSetting"), Create("session")>>
NorthfieldSubjects == <<Create("batch"), Create("subject")>>
NorthfieldTeaching == <<Create("teacher"), Create("batchSubject"), Create("timetable")>>
NorthfieldPupils == <<Create("student"), Create("studentBatch"), Create("portalAccount"),
                      Create("feePlan"), Create("feeRecord"), Create("attendance")>>
NorthfieldPapers == <<Create("studentDocument"), Create("asset"), Create("reminderTemplate"),
                      Create("reminderRule"), Create("reminderLog"), Create("reminderSchedule")>>
NorthfieldClasses == <<Create("classSession"), Create("participant")>>
NorthfieldMarks == <<Create("exam"), Create("examSubject"), Create("examResult"),
                     Create("examResultItem"), Create("assignment"), Create("submission")>>
\* An assessment is created with its questions and their options in one call.
Quiz == [op |-> "createQuiz", on |-> "assessment"]
NorthfieldQuiz == <<Quiz>>
NorthfieldWriting == <<Quiz>>
NorthfieldAnswers == <<Create("attempt"), Create("answer"), Create("assessmentResult")>>
NorthfieldReviews == <<Create("attempt"), Create("answer"), Create("assessmentResult")>>

\* main: what a run does for the followed organization.
Prepare == Opening \o GrantAll \o DefaultAdmins \o DefaultReminders \o <<Open("organization")>>
Rebuild(p) ==
  IF p = "demo" THEN DemoOffice \o DemoTeaching \o DemoPupils \o DemoMarks
  ELSE NorthfieldOffice \o NorthfieldSubjects \o NorthfieldTeaching \o NorthfieldPupils \o
       NorthfieldPapers \o NorthfieldClasses \o NorthfieldMarks \o NorthfieldQuiz \o
       NorthfieldWriting \o NorthfieldAnswers \o NorthfieldReviews
ScriptOf(p) == Prepare \o Reset \o Rebuild(p)
DemoScript == ScriptOf("demo")
NorthfieldScript == ScriptOf("northfield")
Script == IF part = "demo" THEN DemoScript ELSE NorthfieldScript

SeedInit ==
  /\ part \in {"demo", "northfield"} /\ at = 0
  /\ rows = [t \in Tables |-> {}] /\ elsewhere = FALSE
  /\ grants = [r \in Roles \cup {Custom} |-> {}] /\ active = {}
  /\ outcome = "none" /\ disturbed = FALSE
  /\ runs = 0 /\ stops = 0 /\ writes = 0

-----------------------------------------------------------------------------
(* A run                                                                    *)

\* The operator starts the script; the rows it finds are an earlier run's.
StartRun ==
  /\ at = 0 /\ runs < MaxRuns
  /\ at' = 1 /\ runs' = runs + 1 /\ outcome' = "running" /\ disturbed' = FALSE
  /\ rows' = [t \in Tables |-> IF "new" \in rows[t] THEN (rows[t] \ {"new"}) \cup {"old"}
                               ELSE rows[t]]
  /\ UNCHANGED <<part, elsewhere, grants, active, stops, writes>>

\* The tables a creating step writes.
Written(s) == IF s.op = "createQuiz" THEN {"assessment", "question", "option"} ELSE {s.on}

\* A key of the seed is taken, or a row whose id the run remembers is gone.
Refused(s) ==
  \/ /\ s.op \in {"create", "createQuiz"}
     /\ \E t \in Written(s) :
          \/ t \in Keyed /\ rows[t] \cap {"old", "taken"} # {}
          \/ t = "user" /\ elsewhere
          \/ \E p \in References(t) \ Written(s) : "new" \notin rows[p]
  \/ s.op = "grant" /\ s.permission \in grants[s.on]

RowsAfter(s) ==
  CASE s.op = "delete" -> Emptied(rows, s.on)
    [] s.op = "deleteNamed" -> [rows EXCEPT ![s.on] = @ \cap {"staff"}]
    [] s.op = "upsert" -> [rows EXCEPT ![s.on] = (@ \cap {"staff"}) \cup {"new"}]
    [] s.op \in {"create", "createQuiz"} ->
         [t \in Tables |-> IF t \in Written(s) THEN rows[t] \cup {"new"} ELSE rows[t]]
    [] OTHER -> rows

\* One call to the database; the last one ends the run.
SeedStep ==
  /\ at # 0 /\ ~Refused(Script[at])
  /\ rows' = RowsAfter(Script[at])
  /\ grants' = CASE Script[at].op = "revoke" -> [r \in DOMAIN grants |-> {}]
                 [] Script[at].op = "grant"  ->
                      [grants EXCEPT ![Script[at].on] = @ \cup {Script[at].permission}]
                 [] OTHER -> grants
  /\ active' = active \cup (IF Script[at].op = "open" THEN {Script[at].on} ELSE {})
  /\ IF at = Len(Script) THEN at' = 0 /\ outcome' = "done" ELSE at' = at + 1 /\ outcome' = outcome
  /\ UNCHANGED <<part, elsewhere, disturbed, runs, stops, writes>>

\* The database refuses the call: the script ends with status 1.
RefuseRun ==
  /\ at # 0 /\ Refused(Script[at])
  /\ at' = 0 /\ outcome' = "refused"
  /\ UNCHANGED <<part, rows, elsewhere, grants, active, disturbed, runs, stops, writes>>

\* The process or the connection dies: what was written stays.
StopRun ==
  /\ at # 0 /\ stops < MaxStops
  /\ at' = 0 /\ outcome' = "stopped" /\ stops' = stops + 1
  /\ UNCHANGED <<part, rows, elsewhere, grants, active, disturbed, runs, writes>>

-----------------------------------------------------------------------------
(* The office, through the application                                      *)

OfficeWrites ==
  /\ writes < MaxWrites /\ writes' = writes + 1 /\ disturbed' = TRUE
  /\ UNCHANGED <<part, at, outcome, runs, stops>>

\* A row of the office's own, or one with a key of the seed while that key is free.
AddRow(t, m) ==
  /\ OfficeWrites /\ m \in {"staff", "taken"} /\ m \notin rows[t]
  /\ m = "taken" => t \in Keyed /\ rows[t] \cap {"old", "new"} = {}
  /\ \A p \in References(t) : rows[p] # {}
  /\ rows' = [rows EXCEPT ![t] = @ \cup {m}]
  /\ UNCHANGED <<elsewhere, grants, active>>

\* The rows of a table are deleted from its page, and what hangs on them.
ClearRows(t) ==
  /\ OfficeWrites /\ rows[t] # {}
  /\ rows' = Emptied(rows, t)
  /\ UNCHANGED <<elsewhere, grants, active>>

\* Another organization enters a user under an e-mail of the seed, while it is free, or
\* deletes that user.
MoveEmail ==
  /\ OfficeWrites
  /\ elsewhere \/ rows["user"] \cap {"old", "new", "taken"} = {}
  /\ elsewhere' = ~elsewhere
  /\ UNCHANGED <<rows, grants, active>>

\* The super administrator sets what a role may do (RolesService.update).
SetRole(r, ps) ==
  /\ OfficeWrites /\ grants[r] # ps
  /\ grants' = [grants EXCEPT ![r] = ps]
  /\ UNCHANGED <<rows, elsewhere, active>>

\* An organization or the default administrator is deactivated.
Close(d) ==
  /\ OfficeWrites /\ d \in active
  /\ active' = active \ {d}
  /\ UNCHANGED <<rows, elsewhere, grants>>

SeedNext ==
  \/ StartRun \/ SeedStep \/ RefuseRun \/ StopRun
  \/ \E t \in Touched, m \in Makers : AddRow(t, m)
  \/ \E t \in Touched : ClearRows(t)
  \/ MoveEmail
  \/ \E r \in {"ADMIN", Custom}, ps \in {{}, {"work"}} : SetRole(r, ps)
  \/ \E d \in Doors : Close(d)

SeedSpec == SeedInit /\ [][SeedNext]_seedVars

-----------------------------------------------------------------------------
SeedTypeOK ==
  /\ part \in {"demo", "northfield"} /\ at \in 0 .. Len(Script)
  /\ rows \in [Tables -> SUBSET Makers] /\ elsewhere \in BOOLEAN
  /\ grants \in [Roles \cup {Custom} -> SUBSET Permissions] /\ active \subseteq Doors
  /\ outcome \in {"none", "running", "done", "refused", "stopped"} /\ disturbed \in BOOLEAN
  /\ runs \in 0 .. MaxRuns /\ stops \in 0 .. MaxStops /\ writes \in 0 .. MaxWrites

\* What a script creates.
MadeBy(s) == UNION {IF s[i].op \in {"create", "createQuiz", "upsert"} THEN Written(s[i]) ELSE {}
                      : i \in DOMAIN s}
Rebuilt == {ResetOrder[i] : i \in DOMAIN ResetOrder} \cup {"userRole"}

\* The script may be run again whatever became of earlier runs and of the demonstration
\* organization since (seed.ts, main and resetDemoOrganizationData): a run nobody's writes
\* disturbed is refused only while another organization holds an e-mail of the seed, and one
\* that ends leaves its own rows and nothing else of the organization's work, every seeded
\* role with its permissions, no other role with any, and all doors open.
RerunRestores ==
  /\ outcome = "refused" => disturbed \/ elsewhere
  /\ outcome = "done" /\ ~disturbed =>
       /\ \A t \in Rebuilt : rows[t] = IF t \in MadeBy(Script) THEN {"new"} ELSE {}
       /\ \A t \in DefaultTables : "new" \in rows[t] /\ "old" \notin rows[t]
       /\ \A r \in Roles : grants[r] = SeedGrants[r]
       /\ grants[Custom] = {} /\ active = Doors

=============================================================================
