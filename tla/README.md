# Verification of the education management backend

The backend is a multi-tenant NestJS service over one PostgreSQL database (Prisma). Every
handler is an `async` method that awaits one database call after another, rarely inside a
transaction and never under a lock, and seven cron jobs run the same services next to the
HTTP requests. What goes wrong in such a program goes wrong between two awaits. This
project models those parts of it where the order of the awaits decides the outcome,
checks them with TLC on small instances, and proves safety properties for every
instance with TLAPS.

Paths below are relative to the repository; `modules/` stands for `src/modules/`.

## 1. Inventory

### Parts that are modelled

| Part | State it keeps | Operations | What is hard | What makes it correct |
|---|---|---|---|---|
| Staff authentication (`modules/auth`, token and login-event rows) | `RefreshToken` (user, revokedAt, expiresAt, parent), `UserLoginEvent` | login, refresh, me, logout, revokeSession | rotation is find, revoke, insert; the rate limiter counts before it records; a handler may die between | a session that was renewed has ended, one token has few successors, wrong passwords per window are bounded, a bar lets in no more than those already past the check, a lockout ends |
| Fee reminders (`modules/fees`, `modules/reminders`) | `FeeRecord`, `ReminderSchedule`, `ReminderProviderSetting`, `ReminderLog` | create, update and delete a record, synchronise its schedules, process due schedules (cron every 10 minutes and an endpoint) | runs overlap; rows are taken without a condition on their status; the sync uses the record it read first | a bounded number of deliveries per arming, no pending reminder of a settled record without a cause, a switched-off channel sends only what was past the check, due reminders are taken |
| Daily follow-ups (`fee-escalation-automation.service.ts`, `attendance-alert-automation.service.ts`) | attendance rows, fee records, `ReminderLog` | two jobs (cron and endpoint each) that list candidates, look for a recent log and write one; the requests on marks, records and logs | look and insert are separate; runs overlap; the scheduled escalation may write no log at all | no follow-up is repeated without a race, nobody on a finished list is left out |
| Notice campaigns (`ai.service.ts` 690, 1296, `notice-campaign-automation.service.ts`, portal acknowledgements) | `Announcement`, portal accounts, acknowledgements | schedule, publish what is due, acknowledge, enable and delete accounts | each tick fails after its first campaign; ticks overlap or die; an acknowledgement names any key and kind | every due campaign is published in the end and none before; receipts exceed targets only by those of disabled accounts and those for no notice of the account's audience |
| Online assessments (`modules/portal` attempt operations, `modules/assessments`) | `Assessment`, questions, `AssessmentAttempt`, `AssessmentAnswer`, `AssessmentResult` | start, save, submit, review; replace the paper, change limit and window, delete | a save, a submit and a review each read first and write later | attempts in sequence, one open, never reopened, within the limit; attempt and result agree; the score is the sum of the grades |
| Exams, results, assignments and the report card (`modules/exams`, `modules/exam-results`, `modules/assignments`, `portal.service.ts` 600) | `Exam`, `ExamSubject`, `StudentExamResult` and its items, `Assignment`, `AssignmentSubmission` | replace the papers of an exam, enter and change results, publish, delete; save, submit and review a submission; compute the card | children are deleted and inserted again while another request does the same; totals are stored beside the items; an item names a paper and a subject, and neither is checked against the exam | total, percentage and grade follow from the items but for named causes; the stored percentage and the card agree where items name their papers' subjects |
| Tenant subscription and limits (`modules/organizations`, `common/services/organization-access.service.ts`, creation paths of users and students) | `Organization` billing columns, counted rows | platform edit, tenant settings edit, hourly lapse job, module check, limit check, insert, delete | count then insert; the settings edit writes back billing columns it read; the lapse writes by id | limits overshot only by concurrent grants, the tenant's standing moves only for a cause, an expired trial lapses |
| Users (`modules/users`) | `User`, `UserRole` | create, update, delete and change the status of one or several | rank is judged on rows read before the write | whoever changes a user could have given that user's roles, but for a promotion in between |
| Students and portal accounts (`modules/students`, `modules/portal-auth`) | `Student`, `PortalAccount` with one refresh hash | create, import, update, delete, status; account upsert; login, impersonation, refresh, logout | student, student account and parent account are written one by one; a session is stored after its check; a student keeps an address as typed, the account in lower case, and null empties only the former | an account has its student's address in lower case but for named causes; a session is stored only for a login or a refresh that showed the one it replaces |
| Academic structure (`modules/academic-sessions`, `batches`, `subjects`, `teachers`, `batch-subject-assignments`, `timetables`) | the six tables and what they refer to | create, update, delete, status, one and several; make a session current | the cascades of a deletion; two transactions that make a session current do not see each other | what a lesson refers to is there; one current session unless two overlapped |
| Mail (`modules/mail`) | conversations, messages, recipients with their marks | draft, edit, send, reply, marks, the folders and their unread counts | an edit or a second send that passed its check before the send; five queries over two rows draw the line between folders; the sender is stored as the account spells it, recipients in lower case, and each query compares one or the other | a sent mail stands; a conversation is stamped with its newest message; folders and counts agree but for mails between two spellings of one address |
| AI assistance (`modules/ai`) | review queue items, audit rows | list and save the queue; answer a request on the own key or the trial | two tabs replace the queue in transactions that do not see each other; the limit counts audit rows | a saved queue holds what the tab gave and what others committed meanwhile |
| Online classes (`modules/online-classes`, `modules/attendance`, `modules/timetables`) | `TimetableEntry`, `OnlineClassSession`, `OnlineClassParticipantSession`, `Attendance` | generate sessions, sync participants from Google Meet, mark attendance, mark processed; staff create sessions and participants, edit and delete marks and entries | the cycle works from snapshots while staff edit; no unique key on an occurrence; one failure may end a loop; sessions of another provider than Google Meet are never candidates | a presence has a participant row behind it, staff marks win, a processed session has all its marks, a finished class on Google Meet is processed |
| Seed script (`prisma/seed.ts`) | every table of two demonstration organizations, role permissions | a run of some 120 calls in no transaction; edits of the office meanwhile | a run may be stopped anywhere and is run again over what is there | a run that nobody disturbs restores everything, whatever earlier runs left |

### Parts that are not, or only in part

| Part | Why, or what is left out |
|---|---|
| Fee plans, reminder rules, templates and provider forms | rows written and read one at a time |
| Reports, dashboards, listings, activity logs | they only read; the weekly report job logs what it aggregated. That audit rows carry no organization is in AiDesk |
| Roles | permissions of roles are in Seeding; creating a role writes one row nobody holds yet |
| AI text | prompts, provider calls, templates and queue summaries: I/O |
| Payment proofs, media, inquiries, health | one row or one file per call |
| Controllers | routing and permission decorators |
| Guards, filters, interceptors, utilities | stateless; decisions they take appear as guards of the modelled actions |
| Configuration and bootstrap | run once, before the first modelled step |

### How the parts interact

* Shared rows, not messages: `FeesService` writes a fee record and then calls
  `ReminderAutomationService`, which reads it again; the cron reads the schedules that
  leaves. `OnlineClassesService` writes `Attendance`, which teachers write too and the
  follow-ups count. The report card reads results, assessments and submissions.
* `OrganizationAccessService` is called by the guard of every tenant request and by the
  creation paths, and reads the row `OrganizationsService` and the hourly job write.
* Cron jobs: reminders every 10 minutes, online classes and notice campaigns every 15, the
  subscription sync hourly, attendance follow-ups at 7, fee escalation at 8, reports on
  Mondays. Nest starts a cron callback whether or not the previous one has ended.
* Audit rows are inserted last in most handlers. `AuditLog.actorUserId` and
  `ReminderLog.sentByUserId` are UUID columns, so an automation that passes a name instead
  makes the insert throw; where that changes what follows it is part of the model.
* `ReportCards` composes with `Examinations` and reads its state. The other components share
  no variable: rows two of them touch (a fee record, a student, a mark) are abstracted in one
  as the edits the other makes.

## 2. Conventions of the modules

* One Prisma call is one step: PostgreSQL runs a statement, and a `$transaction` that writes,
  atomically. Where two transactions that overlap would see it (READ COMMITTED), their
  statements are steps of their own: the current session, the items of an exam result, the AI
  review queue. Everything between two awaits may interleave with other actors.
* A request, run or job is a record of its program counter and the locals it carries over an
  await, and becomes idle when the handler returns or throws. `Abort`, `Stop...` and the like
  end one between two steps: the process died, or the call threw.
* `prisma/schema.prisma` is the source of keys, defaults and cascades.
* Auxiliary history (always marked so) records what the properties compare with, and no guard
  of an action reads it.
* A definition that no other one uses is a faulty variant of the definition after it, kept to
  confirm that the property aimed at it can fail.
* `Foo.tla` is the component, `MCFoo.tla` and `*.cfg` the instances for TLC, `FooProofs.tla`
  the theorems. `AutomationProofs`, `MarksProofs`, `PlatformProofs`, `DeskProofs` and
  `AccessProofs` hold those of several components, one section each. Names follow the source.
* Some MC modules hold several components that do not interact. A behaviour is then one
  `scene`, chosen by `Init`, in which only that component moves: the run is the union of the
  components' runs, and a property of one component is checked where it moves.

## 3. Modules and what they correspond to

**AuthSessions** (`auth.service.ts`, `user-prisma.repository.ts`). `row`, `owner`, `parent`,
`expired` are the refresh-token table; `failed` and `blocked` count the login events inside
the window per address; `user` and `org` are what administration edits; `req` the handlers.
`find`, `reject`, `block`, `lookup`, `rotate`, `store`, `answer`, `strike` are the awaits of
login, refresh, me, logout and revokeSession, in source order. The e-mail that is typed, the
form it is canonicalised to and the form that is stored are kept apart, because events are
written under both. **SessionLedger** is the abstract table: sessions are opened, renewed only
after their end and for the same holder, and never come back. `ImplementsLedger` maps the
rows to it.

**ReminderAutomation** (`reminder-automation.service.ts`, `fees.service.ts`, the schedule
calls of `reminder-prisma.repository.ts`). `status` and `at` are `ReminderSchedule` rows,
one per rule and record; `run` the calls of `processDueSchedules`, `hnd` the fee requests.
A runner takes up to `Limit` earliest rows, then per row marks it PROCESSING, reads the
provider setting, and delivers or skips. `Deliver` is followed by `CompleteFailed` alone,
because the log insert with the sender `system-automation` is refused by the UUID column:
this is the first finding below.

**FollowUps** (`fee-escalation-automation.service.ts`, `attendance-alert-automation.service.ts`,
the writes of `attendance.service.ts`, `fees.service.ts` and of reminder logs). A job lists
its candidates in `Start`, takes the first off its list in `Look`, which asks for a log of the
last `Suppression` days, and writes one in `InsertFollowUp` or `InsertEscalation`; `InsertRefused`
is the scheduled escalation, whose actor is no UUID. Marks, records and logs change under it.

**NoticeCampaigns** (`ai.service.ts`, `notice-campaign-automation.service.ts`,
`portal.service.ts`). `notice` holds the campaigns, `receipts` who acknowledged what, `account`
the portal accounts; a tick selects due campaigns, publishes one, and ends in `AuditRefused`.
`AcknowledgeItem` asks only for an active account: key, kind and title are the client's, so
receipts may name a campaign that is not out or for others, or no campaign (`OtherKeys`).
`Targets` and `ReceiptsWithinTargets` are the delivery analytics, `CampaignAnalytics` the counts
of campaigns beside them.

**AssessmentAttempts** (`portal.service.ts` attempt operations, `assessments.service.ts`
and its repository). `attempt`, `content`, `grade`, `result` are the rows of one student at
one assessment; a save, submit or review reads in one step and writes in another.
**AttemptBook** is the abstract promise, `ImplementsBook` the mapping.

**Examinations** (`exams.service.ts`, `exam-results.service.ts` and their repositories) and
**ReportCards** (`assignments.service.ts`, `portal.service.ts`), which extends it. An exam has
papers, a result its items and its own total, percentage and grade. An item names a paper and a
subject as the payload has them: neither is checked against the exam, and an update may move a
result to another exam or student. A change of a result reads, deletes the items it sees and
inserts its own, in two steps. `ReportCards` adds assignments and submissions and computes the
card of a student from results, submissions and the percentages assessments yield. The card
groups items by the subject they name, as `portal.service.ts` 629 does.

**TenantSubscription** (`organizations.service.ts`, its repository and lapse job,
`organization-access.service.ts`, the creation paths of users and students). The billing
columns, the day, the counted rows, and the jobs. `PlatformUpdate` writes what the update
DTO carries, `SettingsStep` writes back the status and trial end it read, `LapseTrials`
writes by id, `CountSeats` decides on the limit one await before `TakeSeats` inserts.

**Seeding** (`prisma/seed.ts`, `schema.prisma`). `rows` says whose rows each table holds, `at`
the step of the script a run is at; `Prepare`, `Reset` and `Rebuild` are the script as a
sequence of deletes, creates and upserts, with the cascades and unique keys of the schema. A
run may be refused by a key or stopped anywhere, and the office writes meanwhile.

**PortalAccess** (`students.service.ts`, `portal-auth.service.ts`, `student-prisma.repository.ts`).
`student`, `account` and the refresh hash (`token`) of each account; a request to the office or
the portal takes one step per call, so a student, the student's account and the parents' are
written one after another.

**StaffDirectory** (`users.service.ts`, `user-prisma.repository.ts`). `member` the users with
their roles; a desk first checks the rank on the rows it reads and then writes.

**Registry** (`academic-sessions`, `batches`, `subjects`, `teachers`,
`batch-subject-assignments`, `timetables`). Six tables with their references; every operation of
the five services is an action with the cascades of the schema. Making a session current is two
steps (`ClearCurrent`, `SetCurrent`), every other write one.

**MailDesk** (`mail.service.ts`). `msg` the messages, `rcpt` their recipient rows, `own` the
marks of the sender, `last` the moment a conversation carries. `Check` is
`assertEditableDraft`, `UpdateDraft` and `SendDraft` the writes by id after it,
`StampConversation` the last call of every send. `Folder` is the query behind each folder,
`CountedUnread` the count beside it, `Shown` what the list returns. The sender's address is kept
as its account spells it and recipients' in lower case; each query and each mark compares the
spelling the code has at that line, so two accounts that differ in capitals are two senders and
one recipient.

**AiDesk** (`ai.service.ts`, `audit-log-prisma.repository.ts`). The review queue of one user:
a tab lists it, edits it and saves it whole; `OpenSave`, `DeleteItem`, `PutItem`, `CommitSave`
are the statements of that transaction with its locks. The answers: `ResolveContext` chooses the
own key or the trial, whose limit is the count of audit rows of the organization.

**OnlineClasses** (`online-classes.service.ts`, its repository, `google-meet.provider.ts`,
writes of `attendance` and `timetables`). One timetable entry and one date. `meet` and `stay`
are the meeting at the provider (external); `present`, `record`, `processed`, `rows` the session
and participant rows; `att` the attendance of the date. A job walks `check, create, list, next,
fetch, save, record, fresh, exists, mark`; a manual request enters at `fetch` or at `exists`. A
session has the provider its entry had when it was created; only those on Google Meet are
candidates of the cycle, and the sync endpoint refuses the others. Of the other tenants only
what they do to this class is kept: `others` may end the cycle or fill its window of 100
sessions.

The MC modules: `MCAuthSessions`, `MCOnlineClasses`, `MCReminderAutomation`,
`MCAssessmentAttempts` and `MCTenantSubscription` hold constants of one component. Five modules
hold scenes: `MCProgress` (reminders, notices), `MCDesk` (follow-ups, mail, registry,
reminders), `MCMarks` (attempts, cards), `MCPlatform` (tenant, seed), `MCPortal` (attempts,
portal accounts, directory, review queue, answers).

## 4. Runs

| Run | Instance | What it shows |
|---|---|---|
| `auth_sessions` | 2 requests, 3 sessions, 1 user | `RotationFanOut`, `BarLetsNoMoreIn` and the refinement of `SessionLedger`, under every interleaving, revocation, deletion and crash |
| `auth_limiter` | 2 requests, mixed-case address, every organization state, limit 2 | `GuessBudget`: wrong passwords per window; `LockoutEnds` |
| `progress` | 2 runners, 2 rules, read limit 1; 2 ticks, 2 campaigns, 1 pupil, 1 key that names no campaign | `DueIsTaken` although a run takes only the earliest row and may stop; `DueIsPublished` although each tick fails after one campaign; `NoticesSound`: no notice is out early, receipts exceed targets only by those of a disabled account or for no published notice of its audience |
| `desk` | 2 of each actor; follow-ups: 2 students, 2 days, 2 writes, 2 logs; mail: 2 messages, 2 people, one of them under an account in capitals; registry: 2 sessions, 1 of every other table, 4 requests; reminders: 1 record, 2 due days, the switch | `NoRepeatedFollowUp`, `RunLeavesNoneOut`; `SentMailStands`, `StampIsNewest`, `FoldersAgree`; `OneCurrentSession`; `SentPerArming`, `SettledIsCancelled`, `SwitchLetsNoMoreOut` |
| `marks` | attempts: 1 attempt, 3 questions in 2 papers, penalty above a mark; exams: 2 exams, 2 papers, 2 subjects, 1 result, 5 lists of items, 3 requests; courses: 1 assignment, 1 submission | `ResultWithinTotal`, `ScoreIsSumOfGrades`; `ResultIsConsistent`, `CardFollowsResults` |
| `platform` | 2 requests and the cron job, imports of 1 and 2, 2 days, 1 platform edit; 3 runs of the seed, 1 stop, 1 write of the office | `SeatsBounded`, `StandingMovesForCause`, `ExpiredTrialLapses`; `RerunRestores` |
| `portal` | 2 requests; 2 attempts with limits 1 and 2; 2 students, 3 addresses of which two are spellings of one, 3 tokens; 2 users; 2 queue items, 4 saves | `AttemptLimit`, `ResultMatchesStatus`, the refinement of `AttemptBook`; `AccountFollowsStudent`, `SessionStoredForCause`; `ChangedWithinRank`; `SaveReplacesQueue` |
| `online_classes` | 2 students, 3 sessions, 1 visit, 1 edit; in one scene the cron's cycle and 1 request, in the other 2 cycles | `PresenceBacked`, `SessionsPerOccurrence`, `TeachersMarkStays`, `ProcessedCoversEligible`, `ClassIsProcessed` |
| `reminder_log` (violation) | 1 of each | a delivered reminder ends FAILED: `DeliveredIsNotFailed` fails |
| `assessment_late_save` (violation) | 2 requests, 1 question | an answer is written after submission: `OnlyInProgressUpdated` fails |
| `online_previous_meeting` (violation) | 1 cycle, this meeting and an earlier one | a participant of the earlier meeting is marked present: `PresentWasThere` fails |
| `ai_trial_limit` (violation) | 1 asker, limit 1, 3 questions | a trial over its daily limit is still answered: `TrialLimitHolds` fails |

A type invariant is checked where it says more than the types: `TypeOK` of the online classes (a
mark refers to a session that is there), `CardTypeOK` and `RegistryTypeOK` (what a row refers to
is there), and `NoticesSound`, of which it is a part. The type invariants of the other
components are proved, and the proofs of their properties rest on them.

### Bounds, and why they are enough

* Two actors per role. The races are between a read and a write of two actors, and where a
  proof exists it lifts the safety results to any number.
* Three session ids let one token be rotated twice or a rotation be rotated again; two
  attempts let a start overlap the submission of the one before; three refresh tokens let a
  login and a refresh follow the one a logout ended.
* `Limit`, `MaxFailedLogins` and the attempt limits are small so that they are reached. 50,
  5 and the like add states, not behaviours. `BlockedBound` caps events nothing reads back
  beyond the limit.
* `Horizon`, `MaxTime`, `MaxDay`: the days in which something can become due or expire, and one
  more where the day after matters. Two days of follow-ups let a log of the first count for or
  against the second. One absence is enough to be a candidate there (`AbsentThreshold` 1):
  thresholds count per mark status and the count of rows is data; lates take no other path.
* `MaxEdits`, `MaxChanges`, `MaxWrites`, `MaxStops`: edits, crashes and disturbances in one run.
  Liveness is checked for finitely many disturbances, which is also its meaning: with failures
  for ever nothing is promised.
* `MaxOps`, `MaxExamOps`, `MaxRequests`, `MaxSaves`, `MaxAsks`, `MaxClock`, `MaxLogs`: how many
  requests start in a behaviour. They let two overlap and one more follow, which is what the
  properties relate; a state in which they are used up may rest.
* Three runs of the seed: one that is stopped or refused, one over what it left, and one that
  nobody disturbs.
* Online classes have two scenes: one cycle beside a request and staff, and two cycles that
  overlap while nobody joins or asks. In the second both create the occurrence, which is what
  `SessionsPerOccurrence` counts; three session rows leave room for one staff adds.
* One pupil acknowledges notices, and one made-up key: the pupil is of the audience of some
  notices and not of others. The proof has any accounts of both types.
* Addresses: one pair that differs only in capitals, and in `portal` a third of its own. More
  spellings of one address are as far from the lower-case form as one.
* `marks` has three scenes: attempts; exams whose papers and subjects change; and assignments
  and submissions beside results. The first request of the last two creates a result. The five
  lists of items are none, one, two for two subjects and two that name one subject, and as
  papers may be of either subject each is right for some exams and wrong for others.
* Symmetry is used in runs without liveness, for actors and rows which no definition orders. In
  `portal` students and the queue's items are the same model values and permuted together.
* `CHECK_DEADLOCK FALSE` in the assessment runs (once the assessment is deleted the modelled
  part may rest for good) and in `desk`, `marks` and `portal`, whose requests are counted.

### Fairness

* `AuthSessions`: weak fairness of `EventLeavesWindow`, that is, of the clock. Handlers may
  stop anywhere.
* `ReminderAutomation`: weak fairness of starting a run (the scheduler) and of the steps of a
  run; strong fairness of taking a row, because a crash disables it, and the process does not
  crash at that point of every run.
* `NoticeCampaigns`: weak fairness of each tick, which the scheduler starts again every fifteen
  minutes and which goes on once it runs. Nothing is assumed of the clock: what is promised is
  promised to a campaign that is due.
* `TenantSubscription`: weak fairness of the select, strong fairness of the write after it, for
  the same reason as the reminders.
* `OnlineClasses`: weak fairness of starting the cron's cycle and of its steps; crashes are
  among the finitely many edits.

No fairness is assumed of requests: a client may never call. A module of scenes asks for the
fairness of the component whose scene it is.

## 5. Theorems

Every theorem is of the form `Spec => ...` for all values of the constants that satisfy the
named assumptions: finite sets of actors, rows of a paper, questions, accounts and campaigns
(all are tables), null values outside their sets, constants of their types, positive limits.
Nothing is assumed of `Touched`, the tables the office writes to while the seed works.

| Module | Inductive invariant, and why it is needed | Theorems |
|---|---|---|
| `AuthSessionsProofs` | handlers name existing sessions of their user, and a refresh about to store has already ended its parent; without it nothing ties the row written to the one ended. For the bar: sessions opened and requests past the check, counted together, do not grow while it stands | `TypeCorrect`, `ParentsEnd`, `LimiterBudget`, `RotationBounded`, `BarHolds`, `Refinement` |
| `AutomationProofs`, reminders | a pending row is undelivered, a runner's row is not in its batch again, outside the neglected records one handler at a time arms only unsettled records; for the switch, the count of a row grows only by a delivery, which takes a runner off those about to deliver, and none joins them while it is off | `TypeCorrect`, `DeliveryBounded`, `SettlementCancels`, `SwitchHolds` |
| `AutomationProofs`, notices | `NoticeInv`: what is published was due, and so is what a tick has taken, which it publishes without looking again; whoever left a receipt still has an account. The receipts no target stands for are a set of their own, and the rest inject into the targets | `NoticesAlwaysSound` |
| `MarksProofs`, attempts | attempts below an existing one have ended, a start's number is within the highest limit, and what a request read still holds while it works alone | `TypeCorrect`, `LimitHolds`, `ResultsAgree`, `ScoresAddUp`, `Refinement` |
| `MarksProofs`, totals | `MarksInv`: the stored total is that of the paper in force, every answer and grade belongs to it and is within its marks, and a submission or review under way carries a score within the total it read. Without the last a stale write could break the bound | `ResultsWithin` |
| `MarksProofs`, results | `ExamInv`: no two papers of an exam have a subject in common; a request whose papers nobody changed has the full marks and the papers of its exam, and the items it saw kept are there. Of items nothing is needed: paper and subject are the payload's | `ExamsTyped`, `ResultsConsistent` |
| `MarksProofs`, card | `CardInv`: the above and the types of assignments and submissions; that the stored percentage lies between those of the exam is then arithmetic on sums, for items that are `InOrder`, one per subject and of the exam's papers | `CardsTyped`, `CardsFollowResults` |
| `PlatformProofs`, tenant | among the requests granted seats one found room counting the others at their largest; what a job that is not crossed will write keeps the standing | `TypeCorrect`, `LimitsHold`, `StandingMoves` |
| `PlatformProofs`, seed | `SeedInv`: where an undisturbed run stands after its first steps, whatever it began with: which defaults are renewed, which roles have been granted what, which doors are open, which tables are empty and which hold the run's rows alone | `SeedTyped`, `RerunRestoresAlways` |
| `OnlineClassesProofs` | a job that processes holds rows that pass the filter and are still in the table, and those it is through with have a mark; sessions created plus cycles about to create are at most the cycles | `TypeCorrect`, `PresencesBacked`, `OccurrencesBounded`, `MarksStay`, `ProcessedCovers` |
| `DeskProofs`, review queue | an open save has put what is no longer left as given and nothing else; whatever is listed it is to delete, has deleted, has in its payload, or another tab committed it | `AiTypeCorrect`, `SavesReplace` |
| `DeskProofs`, follow-ups | logs are numbered and dated in order; a job about to write would still find no recent log, or was overtaken; those a job is through with have a log or were forgotten. The insert alone says nothing of what the look saw | `FollowTypeCorrect`, `FollowUpsNotRepeated`, `ListsAreCovered` |
| `DeskProofs`, mail | a request about to write a sent mail knows that it raced; an undisturbed conversation has one stamp to come at most, and that covers its newest message | `MailTypeCorrect`, `SentStands`, `ConversationsStamped` |
| `DeskProofs`, folders | `OwnRowsUnmarked`: of a mail to oneself only the sender's columns ever take a mark. Without it a count over recipient rows and a list over both would part. Recipients are in lower case, senders are not, and mails that come from another spelling are set aside (`Respelled`) | `FoldersStayApart` |
| `RegistryProofs` | a transaction nobody overtook has seen every current session; what a row refers to is there | `LessonsReferToRows`, `CurrentIsUnique` |
| `AccessProofs`, directory | what a check judged still holds until the row changes, and the change marks the request | `DirectoryTypeCorrect`, `ChangesWithinRank` |
| `AccessProofs`, portal | an uncrossed update holds what it wrote of its student's addresses, an upsert the addresses as they stand, an uncrossed login or refresh an allowed account and the session stored; an account that differs is in drift or an update of it is pending | `PortalTypeCorrect`, `AccountsFollowStudents`, `SessionsForCause` |

Each proof shows that `Init` gives the invariant, that each action keeps it (one lemma per
action or group, one step per conjunct it touches), and combines the two. The counting
bounds rest on cardinality lemmas of the library, the two refinements on the step lemma that
every action is an abstract action or a stutter.

Sums over the questions of a paper need an induction over a finite set. The library's
induction theorem takes an operator, so `GrowsToAll` derives it for a property given as a set
of sets: proper inclusion is well-founded on the subsets of a finite set, and a minimal subset
without the property would have a smaller one. `MarksProofs` starts from it with the sum of a
set and one more element, the sum over a union, and that sums keep an order.

The seed is proved in two halves. The static one computes the script: each of the 19 steps
before the deletions, the 37 deletions, and what each rebuilding step writes and refers to
(`DemoInOrder`, `NorthfieldInOrder`: a row is made after what it refers to). The other shows
that a step leads from one stage of `RunInv` to the next, that an undisturbed run is not
refused at any stage, and that the last stage is what `RerunRestores` states.

`ParentsEnd` (a renewed session has ended) and the type theorems whose row in `PROJECT.json` names
no property state definitions no run lists.

### Only model-checked

The properties of the passing runs that no theorem states are the five liveness properties,
`LockoutEnds`, `DueIsTaken`, `DueIsPublished`, `ExpiredTrialLapses` and `ClassIsProcessed`.
Fairness and `ENABLED` are beyond the prover. The four properties that are violated are
refuted by TLC, which is all a counterexample needs.

### Findings

* `reminder_log`: the automation never records a delivery, and reports it as failed.
* `assessment_late_save`: answers of a submitted attempt can be replaced, although the code
  says only attempts in progress can be updated.
* `online_previous_meeting`: a session synced before its meeting begins takes the conference of
  the class before, and keeps it.
* `ai_trial_limit`: the rows the daily limit counts are written without an organization, so the
  count is always zero and the limit never refuses.

What holds only in a weaker form is stated in the weaker form: an overlap may deliver a
reminder once per run, rotate a token once per request, overshoot a limit by what was granted
together, create an occurrence once per cycle, write a follow-up twice, leave two sessions
current, change a sent mail; a request past its check opens a session for somebody barred since,
or delivers on a channel switched off since. Without overlap each becomes the strict one.
Three properties set aside what the code lets clients write or does not follow: receipts for no
notice (`Uncalled`), items that are not `InOrder`, accounts of a student whose address was
emptied.

## 6. Abstractions

* Time is days or a flag, money settled or open, marks small integers, messages nothing.
* Passwords and tokens are right or wrong: hashing and signatures are not modelled.
* One organization, one timetable entry and date (`OnlineClasses`), one assessment and student
  (`AssessmentAttempts`), one user's review queue (`AiDesk`): the modelled statements are keyed
  by these ids. Where other tenants matter (a loop that ends, a window that fills, an e-mail of
  the seed that is taken) they are a nondeterministic disturbance.
* `attendanceJoinThresholdMinutes` is 5: the code selects only the id of the timetable entry, so
  the configured value never arrives. Link edits, alert flags and run rows are left out.
* A row of the seed stands for all a step of the script writes to a table.
* The class rank on the report card orders the overall percentages and is left out; averages are
  whole per cents.
* The audit insert after a successful write is left out where it cannot change what follows.

### Noted while reading, without a property

Facts of one line, or promises the code does not make, that a reader of the models should
know. Paths as above.

* `auth.service.ts` 130: a session stored before an event insert that fails is held by nobody
  until it expires; 152: a refresh past its lookup stores a session after a logout.
  `users.service.ts` 92: deactivation revokes no session row, so a reactivated user goes on with
  the old token.
* `reminder-automation.service.ts` 67: a stop leaves a row PROCESSING, which nothing reads; 129:
  the catch block throws too when the row is gone, and the rest of the batch waits for the next
  run. `reminder-prisma.repository.ts` 568: a row armed again during its delivery is overwritten
  when that ends. `fees.service.ts` 93: a deleted record leaves its schedules without one, and
  they are delivered with zero amounts.
* `fee-escalation-automation.service.ts` 182: the scheduled run never writes a follow-up; only
  the endpoint does. `attendance-alert-automation.service.ts` 272: the total threshold never
  decides.
* `assessment-prisma.repository.ts` 357 and `assignments.service.ts`: the reviewer's user id goes
  into a foreign key to `Teacher`, so a review is refused unless the ids coincide.
  `portal.service.ts` 1682: save and submit look neither at the duration nor at the window; 1521:
  a save turns a reviewed submission into a draft.
* The update DTOs are partial create DTOs and keep their initialisers: an update that leaves out
  `status`, `isCurrent` or `isActive` writes the default (`create-organization.dto.ts` 38, the
  five services of the academic structure). `organizations.service.ts` 49: a tenant is created
  before its templates, in transactions of their own.
* `mail.service.ts`: sending a stored draft does not look at its recipients. 652, 669, 786, 935:
  senders are stored as spelled, recipients and the actor of a folder in lower case, so for an
  account with capitals the sent and drafts folders are empty and a mail to itself is in the
  inbox; 990, 1046: it finds and marks no mail that it only received.
* `portal.service.ts` 1085: an acknowledgement is not compared with what is shown, so the read
  rate counts receipts for anything; 629: items are grouped by the subject the payload gave.
  `exam-result-prisma.repository.ts` 29, 104: an item's paper may be another exam's.
* `students.service.ts` 76, 83: emptying an address leaves the account with the old one.
* `online-classes.service.ts` 722: a session created with another provider than Google Meet is
  never processed.
* `online-classes.service.ts` 321, 536, 572: a session processed during the class is not
  processed again by the cycle, the sync writes back the link it read, and the configured
  threshold is never selected. `schema.prisma` 1165: a mark with a time of day has another key.
* `portal-auth.service.ts` 204: accounts are looked up over all organizations; the stored
  expiry of a refresh hash is never read.
* `audit-log-prisma.repository.ts`: audit rows never carry an organization, so the usage report
  and an organization's activity log are empty too.
* `package.json` 14 and 24 call `prisma db seed`, but no seed command is configured; `README.md`
  308 and `DEPLOYMENT.md` 116 tell the reader to run it. `prisma/seed.ts`: a run takes their
  permissions from roles an office made, and reactivates the default administrator and
  organizations.

## 7. Plan

Done, in the order of the plan: sessions, reminders, attempts, the tenant, online classes;
then the jobs and requests around them (follow-ups, campaigns, mail, academic structure, the
assistant, users, portal access, exams and the card, the seed); then the proofs of all of
them, so that every safety property of a passing run is a theorem. What is left:

* the parts of liveness that are safety: that a step which is owed stays possible until it is
  taken (a due campaign stays due until it is published, an expired trial until it lapses);
* the abstract promise of the mail folders and of the notice campaigns as modules of their
  own, with refinements like those of `SessionLedger` and `AttemptBook`;
* a composition of enrolment, timetables, attendance and fees over one student's rows, so that
  an edit which is a step of the environment in one module is an action of another;
* fee plans and reminder rules, when an operation on them spans more than one call.
