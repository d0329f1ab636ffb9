------------------------- MODULE ReminderAutomation -------------------------
(***************************************************************************)
(* Automatic fee reminders: FeesService writes fee records and has         *)
(* ReminderAutomationService arm or cancel their ReminderSchedule rows,    *)
(* and processDueSchedules, started by cron and by an endpoint, takes due  *)
(* rows and delivers them.  One organization.                              *)
(*                                                                         *)
(* A runner w is one call of processDueSchedules, a handler h one request  *)
(* on a fee record; both run one database call at a time, interleave with  *)
(* each other, and may stop between two calls.  Nothing keeps two runners  *)
(* or two handlers apart.                                                  *)
(*                                                                         *)
(* A definition whose name is not used below is a faulty variant of the    *)
(* one that follows it, for the mutation runs.                             *)
(***************************************************************************)
EXTENDS Integers, FiniteSets

CONSTANTS
  Fees,         \* ids of fee records, each of a student of its own
  Rules,        \* reminder rules with a FEE_DUE or FEE_OVERDUE trigger
  Trigger,      \* Rules -> {"FEE_DUE", "FEE_OVERDUE"}
  Offset,       \* Rules -> Int: offsetDays
  Channel,      \* Rules -> channel of the rule's template
  Settings,     \* provider settings the organization may choose
  Runners,      \* calls of processDueSchedules that may overlap
  Handlers,     \* fee requests that may overlap
  DueDays,      \* due dates a fee record may be given
  Limit,        \* schedules read by one call, 50 in the code
  Horizon,      \* bound of the model: the last day of the clock
  NoFee, NoSchedule

Channels == {Channel[r] : r \in Rules}

Setting == [auto : BOOLEAN, on : SUBSET Channels]

Schedules == Rules \X Fees

ASSUME RuleAssumption ==
  /\ Trigger \in [Rules -> {"FEE_DUE", "FEE_OVERDUE"}]
  /\ Offset \in [Rules -> Int]
  /\ DueDays \subseteq Int

ASSUME SettingAssumption == Settings \subseteq Setting

ASSUME RunnerAssumption == IsFiniteSet(Runners)

ASSUME BoundAssumption == Limit \in Nat \ {0} /\ Horizon \in Nat

ASSUME NullAssumption == NoFee \notin Fees /\ NoSchedule \notin Schedules

VARIABLES
  today,      \* the clock, in days
  setting,    \* ReminderProviderSetting row
  fee,        \* status of a fee record: open (PENDING, PARTIAL, OVERDUE),
              \* settled (PAID, WAIVED), none before and deleted after its row
  due,        \* its due date: year, month and the plan's dueDay
  status,     \* ReminderSchedule row of a rule and a record, none without a row
  at,         \* its scheduledFor
  run,        \* the runners: program counter, rows still to do, row in hand
  hnd,        \* the handlers: program counter, record, due date read, rules to do
  sent,       \* reminders delivered for the present arming of a row (history)
  fresh,      \* rows not armed again since the runner read them (history)
  neglected   \* records whose last sync was cut short, skipped or overlapped (history)

clockVars == <<today, setting>>
feeVars   == <<fee, due>>
rowVars   == <<status, at, sent>>
vars      == <<today, setting, fee, due, status, at, run, hnd, sent, fresh, neglected>>

Status == {"none", "PENDING", "PROCESSING", "FAILED", "SKIPPED", "CANCELLED"}

(***************************************************************************)
(* Program counters.  A runner: next takes a row, read the setting, then   *)
(* skip or deliver it and fail it (completeSchedule SKIPPED or FAILED).    *)
(* A handler: setting, record, then cancel or arm.                         *)
(***************************************************************************)
Runner == [pc : {"idle", "next", "read", "skip", "deliver", "fail"},
           batch : SUBSET Schedules, cur : Schedules \cup {NoSchedule}]

Handler == [pc : {"idle", "setting", "record", "cancel", "arm"},
            fee : Fees \cup {NoFee}, due : Int, rules : SUBSET Rules]

IdleRunner == [pc |-> "idle", batch |-> {}, cur |-> NoSchedule]

IdleHandler == [pc |-> "idle", fee |-> NoFee, due |-> 0, rules |-> {}]

HasRow(w) == run[w].pc \in {"read", "skip", "deliver", "fail"}

Busy(h) == hnd[h].pc # "idle"

TypeOK ==
  /\ today \in Int
  /\ setting \in Setting
  /\ fee \in [Fees -> {"none", "open", "settled", "deleted"}]
  /\ due \in [Fees -> Int]
  /\ status \in [Schedules -> Status]
  /\ at \in [Schedules -> Int]
  /\ run \in [Runners -> Runner]
  /\ hnd \in [Handlers -> Handler]
  /\ sent \in [Schedules -> Nat]
  /\ fresh \in [Runners -> SUBSET Schedules]
  /\ neglected \subseteq Fees
  /\ \A w \in Runners : HasRow(w) => run[w].cur \in Schedules
  /\ \A h \in Handlers : Busy(h) => hnd[h].fee \in Fees

Init ==
  /\ today = 0
  /\ setting \in Settings
  /\ fee = [f \in Fees |-> "none"]
  /\ due = [f \in Fees |-> 0]
  /\ status = [s \in Schedules |-> "none"]
  /\ at = [s \in Schedules |-> 0]
  /\ run = [w \in Runners |-> IdleRunner]
  /\ hnd = [h \in Handlers |-> IdleHandler]
  /\ sent = [s \in Schedules |-> 0]
  /\ fresh = [w \in Runners |-> {}]
  /\ neglected = {}

-----------------------------------------------------------------------------
(* processDueSchedules *)
DueSchedulesToday == {s \in Schedules : status[s] = "PENDING" /\ at[s] = today}

DueSchedulesAnyStatus ==
  {s \in Schedules : status[s] \in {"PENDING", "PROCESSING"} /\ at[s] <= today}

DueSchedules == {s \in Schedules : status[s] = "PENDING" /\ at[s] <= today}

\* The earliest rows, Limit of them or all there are.
FirstDue(B) ==
  /\ B \subseteq DueSchedules
  /\ Cardinality(B) <= Limit
  /\ B = DueSchedules \/ Cardinality(B) = Limit
  /\ \A b \in B, s \in DueSchedules \ B : at[b] <= at[s]

\* The order inside a batch, earliest first, is left open.
FindDueSchedules(w) ==
  /\ run[w].pc = "idle"
  /\ \E B \in SUBSET DueSchedules \ {{}} :
       /\ FirstDue(B)
       /\ run' = [run EXCEPT ![w] = [pc |-> "next", batch |-> B, cur |-> NoSchedule]]
       /\ fresh' = [fresh EXCEPT ![w] = B]
  /\ UNCHANGED <<clockVars, feeVars, rowVars, hnd, neglected>>

StopLoop(w) ==
  /\ run' = [run EXCEPT ![w] = IdleRunner]
  /\ fresh' = [fresh EXCEPT ![w] = {}]

\* After a row: the next one, or the end of the loop.
NextRow(w) ==
  IF run[w].batch = {}
  THEN StopLoop(w)
  ELSE /\ run' = [run EXCEPT ![w].pc = "next", ![w].cur = NoSchedule]
       /\ UNCHANGED fresh

\* An update that finds no row throws, and so does the completeSchedule of the
\* catch block: the rest of the batch is dropped.
MarkScheduleProcessing(w) ==
  /\ run[w].pc = "next"
  /\ \E s \in run[w].batch :
       \/ /\ status[s] = "none"
          /\ StopLoop(w)
          /\ UNCHANGED status
       \/ /\ status[s] # "none"
          /\ status' = [status EXCEPT ![s] = "PROCESSING"]
          /\ run' = [run EXCEPT ![w] =
               [pc |-> "read", batch |-> run[w].batch \ {s}, cur |-> s]]
          /\ UNCHANGED fresh
  /\ UNCHANGED <<clockVars, feeVars, at, sent, hnd, neglected>>

MayDeliverByChannel(s) == Channel[s[1]] \in setting.on

MayDeliver(s) == setting.auto /\ Channel[s[1]] \in setting.on

ReadProviderSetting(w) ==
  /\ run[w].pc = "read"
  /\ run' = [run EXCEPT ![w].pc = IF MayDeliver(run[w].cur) THEN "deliver" ELSE "skip"]
  /\ UNCHANGED <<clockVars, feeVars, rowVars, hnd, fresh, neglected>>

CompleteSkipped(w) ==
  LET s == run[w].cur IN
  /\ run[w].pc = "skip"
  /\ IF status[s] = "none"
     THEN StopLoop(w) /\ UNCHANGED status
     ELSE NextRow(w) /\ status' = [status EXCEPT ![s] = "SKIPPED"]
  /\ UNCHANGED <<clockVars, feeVars, at, sent, hnd, neglected>>

\* The message goes out, or the provider reports a failure.  Its ReminderLog is
\* then inserted with sentByUserId 'system-automation', which the uuid column
\* refuses: the catch block always follows, and SENT is never written.
Deliver(w) ==
  LET s == run[w].cur IN
  /\ run[w].pc = "deliver"
  /\ sent' = IF s \in fresh[w] THEN [sent EXCEPT ![s] = @ + 1] ELSE sent
  /\ run' = [run EXCEPT ![w].pc = "fail"]
  /\ UNCHANGED <<clockVars, feeVars, status, at, hnd, fresh, neglected>>

\* A database call before the row is completed fails, also the one that takes it,
\* or the provider delivers nothing.
FailRow(w) ==
  /\ \/ /\ run[w].pc \in {"read", "skip", "deliver"}
        /\ run' = [run EXCEPT ![w].pc = "fail"]
     \/ /\ run[w].pc = "next"
        /\ \E s \in run[w].batch :
             run' = [run EXCEPT ![w] =
               [pc |-> "fail", batch |-> run[w].batch \ {s}, cur |-> s]]
  /\ UNCHANGED <<clockVars, feeVars, rowVars, hnd, fresh, neglected>>

CompleteFailed(w) ==
  LET s == run[w].cur IN
  /\ run[w].pc = "fail"
  /\ IF status[s] = "none"
     THEN StopLoop(w) /\ UNCHANGED status
     ELSE NextRow(w) /\ status' = [status EXCEPT ![s] = "FAILED"]
  /\ UNCHANGED <<clockVars, feeVars, at, sent, hnd, neglected>>

\* The process stops, or a failure escapes the catch block.
StopRunner(w) ==
  /\ run[w].pc # "idle"
  /\ StopLoop(w)
  /\ UNCHANGED <<clockVars, feeVars, rowVars, hnd, neglected>>

-----------------------------------------------------------------------------
(* FeesService: the record is written, then its schedules are synchronised. *)
OthersOn(h, f) == {g \in Handlers \ {h} : hnd[g].fee = f}

StartSync(h, f) ==
  /\ hnd' = [hnd EXCEPT ![h] = [pc |-> "setting", fee |-> f, due |-> 0, rules |-> {}]]
  /\ neglected' = IF OthersOn(h, f) = {} THEN neglected ELSE neglected \cup {f}

EndSync(h) == hnd' = [hnd EXCEPT ![h] = IdleHandler]

\* createRecord and updateRecord: any status and due date a request may carry.
WriteRecord(h, f) ==
  /\ ~Busy(h)
  /\ fee[f] # "deleted"
  /\ \E st \in {"open", "settled"} : fee' = [fee EXCEPT ![f] = st]
  /\ \E d \in DueDays : due' = [due EXCEPT ![f] = d]
  /\ StartSync(h, f)
  /\ UNCHANGED <<clockVars, rowVars, run, fresh>>

SyncReadSetting(h) ==
  /\ hnd[h].pc = "setting"
  /\ \/ /\ setting.auto
        /\ hnd' = [hnd EXCEPT ![h].pc = "record"]
        /\ UNCHANGED neglected
     \/ /\ ~setting.auto
        /\ EndSync(h)
        /\ neglected' = neglected \cup {hnd[h].fee}
  /\ UNCHANGED <<clockVars, feeVars, rowVars, run, fresh>>

\* A record past its due date takes the overdue rules, otherwise the due ones;
\* only rules that are active, with an active template, come back.
SyncReadRecord(h) ==
  LET f == hnd[h].fee
      trigger == IF due[f] <= today THEN "FEE_OVERDUE" ELSE "FEE_DUE" IN
  /\ hnd[h].pc = "record"
  /\ \/ /\ fee[f] = "deleted"
        /\ EndSync(h)
     \/ /\ fee[f] = "settled"
        /\ hnd' = [hnd EXCEPT ![h].pc = "cancel"]
     \/ /\ fee[f] = "open"
        /\ \E R \in SUBSET {r \in Rules : Trigger[r] = trigger} :
             IF R = {}
             THEN EndSync(h)
             ELSE hnd' = [hnd EXCEPT ![h].pc = "arm", ![h].due = due[f], ![h].rules = R]
  /\ UNCHANGED <<clockVars, feeVars, rowVars, run, fresh, neglected>>

SchedulesOf(f) == Rules \X {f}

CancelSchedulesButPending(h) ==
  LET f == hnd[h].fee IN
  /\ hnd[h].pc = "cancel"
  /\ status' = [s \in Schedules |->
       IF s \in SchedulesOf(f) /\ status[s] \in {"PROCESSING", "FAILED"} /\ fee[f] # "deleted"
       THEN "CANCELLED" ELSE status[s]]
  /\ EndSync(h)
  /\ neglected' = IF OthersOn(h, f) = {} THEN neglected \ {f} ELSE neglected
  /\ UNCHANGED <<clockVars, feeVars, at, sent, run, fresh>>

\* One updateMany over the PENDING and FAILED rows of the record; the rows of a
\* deleted record no longer name it.  The payment confirmation that may follow is
\* delivered, its log is refused like a reminder's, and the request fails.
CancelSchedules(h) ==
  LET f == hnd[h].fee IN
  /\ hnd[h].pc = "cancel"
  /\ status' = [s \in Schedules |->
       IF s \in SchedulesOf(f) /\ status[s] \in {"PENDING", "FAILED"} /\ fee[f] # "deleted"
       THEN "CANCELLED" ELSE status[s]]
  /\ EndSync(h)
  /\ neglected' = IF OthersOn(h, f) = {} THEN neglected \ {f} ELSE neglected
  /\ UNCHANGED <<clockVars, feeVars, at, sent, run, fresh>>

\* upsertSchedule: whatever the row was, it is PENDING again.  The foreign key
\* refuses a row for a deleted record.
UpsertSchedule(h) ==
  LET f == hnd[h].fee IN
  /\ hnd[h].pc = "arm"
  /\ \/ /\ fee[f] = "deleted"
        /\ EndSync(h)
        /\ UNCHANGED <<rowVars, fresh>>
     \/ /\ fee[f] # "deleted"
        /\ \E r \in hnd[h].rules :
             /\ \A q \in hnd[h].rules : Offset[r] <= Offset[q]
             /\ status' = [status EXCEPT ![<<r, f>>] = "PENDING"]
             /\ at' = [at EXCEPT ![<<r, f>>] = hnd[h].due + Offset[r]]
             /\ sent' = [sent EXCEPT ![<<r, f>>] = 0]
             /\ fresh' = [w \in Runners |-> fresh[w] \ {<<r, f>>}]
             /\ IF hnd[h].rules = {r}
                THEN EndSync(h)
                ELSE hnd' = [hnd EXCEPT ![h].rules = @ \ {r}]
  /\ UNCHANGED <<clockVars, feeVars, run, neglected>>

StopHandler(h) ==
  /\ Busy(h)
  /\ EndSync(h)
  /\ neglected' = neglected \cup {hnd[h].fee}
  /\ UNCHANGED <<clockVars, feeVars, rowVars, run, fresh>>

-----------------------------------------------------------------------------
(* The rest of the organization *)

\* deleteRecord, bulkDeleteRecords: the rows stay, without their record.
DeleteRecord(f) ==
  /\ fee[f] \in {"open", "settled"}
  /\ fee' = [fee EXCEPT ![f] = "deleted"]
  /\ UNCHANGED <<clockVars, due, rowVars, run, hnd, fresh, neglected>>

\* The record and the rows of a deleted student cascade.
DeleteStudent(f) ==
  /\ fee[f] # "none"
  /\ fee' = [fee EXCEPT ![f] = "deleted"]
  /\ status' = [s \in Schedules |-> IF s \in SchedulesOf(f) THEN "none" ELSE status[s]]
  /\ UNCHANGED <<clockVars, due, at, sent, run, hnd, fresh, neglected>>

UpsertProviderSetting ==
  /\ setting' \in Settings \ {setting}
  /\ UNCHANGED <<today, feeVars, rowVars, run, hnd, fresh, neglected>>

NextDay ==
  /\ today < Horizon
  /\ today' = today + 1
  /\ UNCHANGED <<setting, feeVars, rowVars, run, hnd, fresh, neglected>>

-----------------------------------------------------------------------------
RunnerStep(w) ==
  \/ FindDueSchedules(w)
  \/ MarkScheduleProcessing(w)
  \/ ReadProviderSetting(w)
  \/ CompleteSkipped(w)
  \/ Deliver(w)
  \/ FailRow(w)
  \/ CompleteFailed(w)
  \/ StopRunner(w)

HandlerStep(h) ==
  \/ \E f \in Fees : WriteRecord(h, f)
  \/ SyncReadSetting(h)
  \/ SyncReadRecord(h)
  \/ CancelSchedules(h)
  \/ UpsertSchedule(h)
  \/ StopHandler(h)

Environment ==
  \/ \E f \in Fees : DeleteRecord(f) \/ DeleteStudent(f)
  \/ UpsertProviderSetting
  \/ NextDay

Next ==
  \/ \E w \in Runners : RunnerStep(w)
  \/ \E h \in Handlers : HandlerStep(h)
  \/ Environment

Spec == Init /\ [][Next]_vars

(* Cron keeps starting runners, a runner that is not stopped goes on, and the  *)
(* process does not stop at every single run before its first row.             *)
Fairness ==
  \A w \in Runners :
    /\ WF_vars(FindDueSchedules(w))
    /\ SF_vars(MarkScheduleProcessing(w))
    /\ WF_vars(ReadProviderSetting(w) \/ CompleteSkipped(w) \/ Deliver(w)
                 \/ CompleteFailed(w))

FairSpec == Spec /\ Fairness

-----------------------------------------------------------------------------
(* Properties *)

\* Runners that may still deliver a row for its present arming.
Holders(s) ==
  {w \in Runners :
     /\ s \in fresh[w]
     /\ \/ s \in run[w].batch
        \/ run[w].cur = s /\ run[w].pc \in {"read", "deliver"}}

\* A row is not delivered again unless it is armed again: overlapping runs, which
\* nothing keeps apart, may each deliver it once, and a run that follows does not.
SentPerArming ==
  \A s \in Schedules : sent[s] + Cardinality(Holders(s)) <= Cardinality(Runners)

\* What a switched-off automation or channel still sends is what was past the
\* check before: while it stays off, every delivery uses up a runner that had read
\* the setting when it was on, and no other takes its place
\* (reminder-automation.service.ts:73).
Delivering(s) == {w \in Runners : run[w].pc = "deliver" /\ run[w].cur = s}

SwitchLetsNoMoreOut ==
  [][\A s \in Schedules :
       ~setting.auto \/ Channel[s[1]] \notin setting.on
         => sent'[s] + Cardinality(Delivering(s)')
              <= sent[s] + Cardinality(Delivering(s))]_vars

\* A paid or waived record keeps a pending reminder only while its request is at
\* work, or after a sync that was cut short, found automation off, or overlapped.
SettledIsCancelled ==
  \A s \in Schedules :
    fee[s[2]] = "settled" /\ status[s] = "PENDING" =>
      \/ s[2] \in neglected
      \/ \E h \in Handlers : hnd[h].fee = s[2]

Waiting(s) == status[s] = "PENDING" /\ at[s] <= today

\* When no more fee requests come, every due reminder is taken by some run.
DueIsTaken ==
  <>[](\A h \in Handlers : ~Busy(h)) =>
    \A s \in Schedules : Waiting(s) ~> ~Waiting(s)

\* A reminder that went out is not reported as failed.
DeliveredIsNotFailed ==
  \A s \in Schedules : sent[s] > 0 => status[s] # "FAILED"

=============================================================================
