------------------------- MODULE TenantSubscription -------------------------
(***************************************************************************)
(* One tenant organization: the columns of its row that decide whether the *)
(* tenant may be used, what it is allowed to hold, and who writes them.    *)
(*                                                                         *)
(*   OrganizationSubscriptionSyncService   lapses expired trials, from the *)
(*       hourly cron and from every organization read of the platform      *)
(*   OrganizationsService.update           the platform's edit             *)
(*   OrganizationsService.updateCurrent    the tenant's settings edit,     *)
(*       which writes back the billing columns it read                     *)
(*   OrganizationAccessService             access, module and limit checks *)
(*   UsersService.create, StudentsService.create and importCsv             *)
(*       take seats after a check of the limit                             *)
(*                                                                         *)
(* A job runs its database calls one at a time, so the calls of two jobs   *)
(* interleave, and it may die between two of them (Abort).                 *)
(*                                                                         *)
(* A definition whose name is not used below is a faulty variant of the    *)
(* one that follows it, for the mutation runs.                             *)
(***************************************************************************)
EXTENDS Integers, FiniteSets

CONSTANTS
  Requests,        \* HTTP handlers that may run at the same time
  Cron,            \* the hourly job of the process
  Payloads,        \* edits the platform may send
  ImportSizes,     \* numbers of rows a CSV import may ask for
  MaxBatch,        \* bound of the model: largest import
  MaxTime,         \* bound of the model: days
  MaxChanges       \* bound of the model: platform edits

SubscriptionStatus == {"TRIAL", "ACTIVE", "PAST_DUE", "SUSPENDED", "CANCELLED"}

OrganizationModule == {"USERS", "STUDENTS", "SETTINGS"}

\* The tables whose rows count against a limit, named by the module they need.
SeatKinds == {"USERS", "STUDENTS"}

Jobs == Requests \cup {Cron}

\* What UpdateOrganizationDto carries once validated.  Status, trial length,
\* limits and modules always arrive: the initializers of CreateOrganizationDto
\* fill in what the body leaves out, and the trial end is computed from them.
Payload == [isActive : BOOLEAN, subscription : SubscriptionStatus, trialEndsAt : Nat,
            limit : [SeatKinds -> Nat \ {0}], modules : SUBSET OrganizationModule]

ASSUME JobsAssumption == IsFiniteSet(Requests) /\ Requests # {} /\ Cron \notin Requests

ASSUME PayloadAssumption == Payloads \subseteq Payload

ASSUME SizeAssumption ==
  /\ MaxBatch \in Nat \ {0}
  /\ ImportSizes \subseteq 1..MaxBatch

VARIABLES
  isActive, subscription, trialEndsAt, limit, modules,   \* the organizations row
  now,         \* the clock, in days
  seats,       \* rows of users and of students
  job,         \* the jobs: program counter and locals
  edits,       \* platform edits so far (bounds the model)
  topLimit,    \* largest limit ever in force (history)
  crossed      \* jobs whose values are older than an edit, or than a write
               \* of values that were (history)

billing == <<isActive, subscription, trialEndsAt, limit, modules>>
vars == <<isActive, subscription, trialEndsAt, limit, modules, now, seats, job, edits, topLimit,
          crossed>>

(***************************************************************************)
(* pc names the next database call:                                        *)
(*   enabled   assertModuleEnabled                                         *)
(*   config    the organization row of the limit check                     *)
(*   count     the count of the limit check                                *)
(*   create    the insert (one row, or the import's transaction)           *)
(*   existing  findUniqueOrThrow of OrganizationPrismaRepository.update    *)
(*   write     the update of OrganizationPrismaRepository.update           *)
(*   lapse     the updateMany of expireTrials                              *)
(***************************************************************************)
Pc == {"idle", "enabled", "config", "count", "create", "existing", "write", "lapse"}

Job == [pc : Pc, kind : OrganizationModule, size : 1..MaxBatch, cap : Nat,
        subscription : SubscriptionStatus, trialEndsAt : Nat]

Idle == [pc |-> "idle", kind |-> "SETTINGS", size |-> 1, cap |-> 0,
         subscription |-> "TRIAL", trialEndsAt |-> 0]

At(j, label) == job[j].pc = label

Goto(j, label) == job' = [job EXCEPT ![j].pc = label]

Finish(j) == job' = [job EXCEPT ![j] = Idle]

TypeOK ==
  /\ isActive \in BOOLEAN
  /\ subscription \in SubscriptionStatus
  /\ trialEndsAt \in Nat
  /\ limit \in [SeatKinds -> Nat \ {0}]
  /\ modules \in SUBSET OrganizationModule
  /\ now \in Nat
  /\ seats \in [SeatKinds -> Nat]
  /\ job \in [Jobs -> Job]
  /\ edits \in Nat
  /\ topLimit \in [SeatKinds -> Nat \ {0}]
  /\ crossed \subseteq Jobs

Init ==
  /\ \E p \in Payloads :
       /\ isActive = p.isActive
       /\ subscription = p.subscription
       /\ trialEndsAt = p.trialEndsAt
       /\ limit = p.limit
       /\ modules = p.modules
       /\ topLimit = p.limit
  /\ now = 0
  /\ seats = [k \in SeatKinds |-> 0]
  /\ job = [j \in Jobs |-> Idle]
  /\ edits = 0
  /\ crossed = {}

-----------------------------------------------------------------------------
(* OrganizationAccessService.                                               *)
TrialOver == subscription = "TRIAL" /\ trialEndsAt < now

Accessible ==
  /\ isActive
  /\ subscription \notin {"PAST_DUE", "SUSPENDED", "CANCELLED"}
  /\ ~TrialOver

Admits(k) == Accessible /\ k \in modules

(***************************************************************************)
(* Taking a seat: UsersService.create, StudentsService.create (one row)    *)
(* and importCsv (the rows that passed the file's own checks).  The guard  *)
(* lets a SUPER_ADMIN, who may create users of any tenant, pass.           *)
(***************************************************************************)
StartSeats(r, k, n) ==
  /\ At(r, "idle")
  /\ Admits(k) \/ k = "USERS"
  /\ n = 1 \/ (k = "STUDENTS" /\ n \in ImportSizes)
  /\ job' = [job EXCEPT ![r].pc = "enabled", ![r].kind = k, ![r].size = n]
  /\ UNCHANGED <<billing, now, seats, edits, topLimit, crossed>>

CheckModule(r) ==
  /\ At(r, "enabled")
  /\ IF Admits(job[r].kind) THEN Goto(r, "config") ELSE Finish(r)
  /\ UNCHANGED <<billing, now, seats, edits, topLimit, crossed>>

ReadLimit(r) ==
  /\ At(r, "config")
  /\ IF Accessible
     THEN job' = [job EXCEPT ![r].pc = "count", ![r].cap = limit[job[r].kind]]
     ELSE Finish(r)
  /\ UNCHANGED <<billing, now, seats, edits, topLimit, crossed>>

CountSeatsOffByOne(r) ==
  /\ At(r, "count")
  /\ IF seats[job[r].kind] <= job[r].cap THEN Goto(r, "create") ELSE Finish(r)
  /\ UNCHANGED <<billing, now, seats, edits, topLimit, crossed>>

CountSeats(r) ==
  /\ At(r, "count")
  /\ IF seats[job[r].kind] + job[r].size <= job[r].cap THEN Goto(r, "create") ELSE Finish(r)
  /\ UNCHANGED <<billing, now, seats, edits, topLimit, crossed>>

\* An import drops the rows that already exist, after the limit was checked.
TakeSeats(r) ==
  /\ At(r, "create")
  /\ \E m \in 0..job[r].size :
       /\ job[r].size = 1 => m = 1 \/ job[r].kind = "STUDENTS"
       /\ seats' = [seats EXCEPT ![job[r].kind] = @ + m]
  /\ Finish(r)
  /\ UNCHANGED <<billing, now, edits, topLimit, crossed>>

\* delete and bulkDelete of users and students: every id must be found.
ReleaseSeats(k, n) ==
  /\ n \in 1..seats[k]
  /\ seats' = [seats EXCEPT ![k] = @ - n]
  /\ UNCHANGED <<billing, now, job, edits, topLimit, crossed>>

-----------------------------------------------------------------------------
(* Writers of the billing columns.                                          *)

\* Jobs between their read and their write of the row.
Writing == {j \in Jobs : job[j].pc \in {"write", "lapse"}}

\* History: the write of a crossed job makes every other pending write crossed.
Spread(j) == crossed' = IF j \in crossed THEN Writing \ {j} ELSE crossed

\* The platform's edit: every billing column comes from the payload.
PlatformUpdate(p) ==
  /\ edits < MaxChanges
  /\ isActive' = p.isActive
  /\ subscription' = p.subscription
  /\ trialEndsAt' = p.trialEndsAt
  /\ limit' = p.limit
  /\ modules' = p.modules
  /\ topLimit' = [k \in SeatKinds |-> IF p.limit[k] > topLimit[k] THEN p.limit[k] ELSE topLimit[k]]
  /\ edits' = edits + 1
  /\ crossed' = Writing
  /\ UNCHANGED <<now, seats, job>>

\* The tenant's edit of its settings, admitted by the guard.
StartSettings(r) ==
  /\ At(r, "idle")
  /\ Admits("SETTINGS")
  /\ Goto(r, "existing")
  /\ UNCHANGED <<billing, now, seats, edits, topLimit, crossed>>

ReadExisting(r) ==
  /\ At(r, "existing")
  /\ job' = [job EXCEPT ![r].pc = "write", ![r].subscription = subscription,
                        ![r].trialEndsAt = trialEndsAt]
  /\ UNCHANGED <<billing, now, seats, edits, topLimit, crossed>>

\* resolveBillingFields with the trial counted anew from the present day.
WriteSettingsRestartingTrial(r) ==
  /\ At(r, "write")
  /\ subscription' = job[r].subscription
  /\ trialEndsAt' = now + 1
  /\ Finish(r)
  /\ Spread(r)
  /\ UNCHANGED <<isActive, limit, modules, now, seats, edits, topLimit>>

\* resolveBillingFields copies status and trial end from the row read before;
\* the other columns are absent from the payload and left alone.
WriteSettings(r) ==
  /\ At(r, "write")
  /\ subscription' = job[r].subscription
  /\ trialEndsAt' = job[r].trialEndsAt
  /\ Finish(r)
  /\ Spread(r)
  /\ UNCHANGED <<isActive, limit, modules, now, seats, edits, topLimit>>

SelectExpiredTrialsLate(j) ==
  /\ At(j, "idle")
  /\ subscription = "TRIAL" /\ trialEndsAt > now
  /\ Goto(j, "lapse")
  /\ UNCHANGED <<billing, now, seats, edits, topLimit, crossed>>

\* expireTrials: the select that finds the tenant, then the update by id.
SelectExpiredTrials(j) ==
  /\ At(j, "idle")
  /\ TrialOver
  /\ Goto(j, "lapse")
  /\ UNCHANGED <<billing, now, seats, edits, topLimit, crossed>>

LapseTrials(j) ==
  /\ At(j, "lapse")
  /\ subscription' = "PAST_DUE"
  /\ Finish(j)
  /\ Spread(j)
  /\ UNCHANGED <<isActive, trialEndsAt, limit, modules, now, seats, edits, topLimit>>

Tick ==
  /\ now < MaxTime
  /\ now' = now + 1
  /\ UNCHANGED <<billing, seats, job, edits, topLimit, crossed>>

\* The process dies, or the call fails.
Abort(j) ==
  /\ ~At(j, "idle")
  /\ Finish(j)
  /\ crossed' = crossed \ {j}
  /\ UNCHANGED <<billing, now, seats, edits, topLimit>>

SeatStep(r) == CheckModule(r) \/ ReadLimit(r) \/ CountSeats(r) \/ TakeSeats(r)

SettingsStep(r) == StartSettings(r) \/ ReadExisting(r) \/ WriteSettings(r)

Next ==
  \/ \E r \in Requests :
       \/ \E k \in SeatKinds, n \in 1..MaxBatch : StartSeats(r, k, n)
       \/ SeatStep(r)
       \/ SettingsStep(r)
  \/ \E k \in SeatKinds, n \in 1..MaxBatch : ReleaseSeats(k, n)
  \/ \E p \in Payloads : PlatformUpdate(p)
  \/ \E j \in Jobs : SelectExpiredTrials(j) \/ LapseTrials(j) \/ Abort(j)
  \/ Tick

Spec == Init /\ [][Next]_vars

\* The scheduler keeps firing the hourly job, and a process that is restarted
\* does not die between the two calls of every one of its runs.
Fairness == WF_vars(SelectExpiredTrials(Cron)) /\ SF_vars(LapseTrials(Cron))

FairSpec == Spec /\ Fairness

-----------------------------------------------------------------------------
(* Properties.                                                              *)

\* The check counts, the insert comes later: a limit can be overshot, but only
\* by what the other requests in flight were granted at the same time.
\* (organization-access.service.ts, users.service.ts, students.service.ts)
SeatsBounded ==
  \A k \in SeatKinds :
    seats[k] <= topLimit[k] + (Cardinality(Requests) - 1) * MaxBatch

\* The standing of the tenant: an expired trial counts as PAST_DUE whether or
\* not the job has already written it.
Standing == IF TrialOver THEN "PAST_DUE" ELSE subscription

\* Only a platform edit, the end of a trial, or a write that crosses a platform
\* edit changes the standing.  The settings edit, which writes the whole billing
\* block back, and the job, which writes by id, never revive a lapsed tenant nor
\* close an open one by themselves, however they interleave.
\* (organization-prisma.repository.ts, organization-subscription-sync.service.ts)
StandingMovesForCause ==
  [][Standing' # Standing =>
       \/ edits' # edits
       \/ now' # now /\ Standing' = "PAST_DUE"
       \/ \E j \in crossed : job'[j].pc = "idle"]_vars

\* An expired trial does not stay a trial: the job takes it to PAST_DUE unless
\* the platform edits the tenant first.
\* (organization-subscription-sync.service.ts)
ExpiredTrialLapses == TrialOver ~> ~TrialOver

=============================================================================
