-------------------------- MODULE AutomationProofs --------------------------
(***************************************************************************)
(* Theorems about the two jobs that work off a queue: ReminderAutomation,  *)
(* for every set of records, rules, runners and handlers, and              *)
(* NoticeCampaigns, for every set of campaigns, accounts and ticks.        *)
(***************************************************************************)
EXTENDS ReminderAutomation, NoticeCampaigns, FiniteSetTheorems, TLAPS

(***************************************************************************)
(* The inductive invariant.  A pending row has not been delivered for its  *)
(* present arming; a runner that has taken a row which was not armed again *)
(* since has made it PROCESSING, and does not find it in its batch again.  *)
(* Outside the neglected records a record has one handler at a time, and   *)
(* that handler arms only a record that is not settled.                    *)
(***************************************************************************)
RowsUnsent == \A s \in Schedules : status[s] = "PENDING" => sent[s] = 0

RowInHand ==
  \A w \in Runners :
    /\ HasRow(w) => run[w].cur \notin run[w].batch
    /\ run[w].pc \in {"read", "skip", "deliver"} /\ run[w].cur \in fresh[w] =>
         status[run[w].cur] # "PENDING"

HandlersApart ==
  /\ \A h \in Handlers : ~Busy(h) => hnd[h].fee = NoFee
  /\ \A g, h \in Handlers :
       Busy(g) /\ hnd[g].fee = hnd[h].fee /\ hnd[g].fee \notin neglected => g = h
  /\ \A h \in Handlers :
       hnd[h].pc = "arm" /\ fee[hnd[h].fee] = "settled" => hnd[h].fee \in neglected

IInv == TypeOK /\ RowsUnsent /\ RowInHand /\ SentPerArming /\ HandlersApart
             /\ SettledIsCancelled

(***************************************************************************)
(* Type correctness, by the table a step writes.                           *)
(***************************************************************************)

\* The values the steps give to a runner are runners.
LEMMA RunnerValues ==
  ASSUME NEW w \in Runners, TypeOK
  PROVE  /\ IdleRunner \in Runner
         /\ \A B \in SUBSET Schedules :
              [pc |-> "next", batch |-> B, cur |-> NoSchedule] \in Runner
         /\ \A label \in {"read", "skip", "deliver", "fail"} :
              [run[w] EXCEPT !.pc = label] \in Runner
         /\ \A label \in {"read", "fail"}, s \in Schedules :
              [pc |-> label, batch |-> run[w].batch \ {s}, cur |-> s] \in Runner
         /\ [run[w] EXCEPT !.pc = "next", !.cur = NoSchedule] \in Runner
<1> DEFINE x == run[w]
<1>1. x \in Runner
  BY DEF TypeOK
<1> HIDE DEF x
<1> QED
  BY <1>1 DEF Runner, IdleRunner, x

\* A step of a runner keeps the table of runners.
LEMMA RunnersTyped ==
  ASSUME TypeOK, NEW w \in Runners, RunnerStep(w)
  PROVE  /\ run' \in [Runners -> Runner]
         /\ fresh' \in [Runners -> SUBSET Schedules]
         /\ \A v \in Runners : HasRow(v)' => run'[v].cur \in Schedules
<1> DEFINE Goal == /\ run' \in [Runners -> Runner]
                   /\ fresh' \in [Runners -> SUBSET Schedules]
                   /\ \A v \in Runners : HasRow(v)' => run'[v].cur \in Schedules
<1>1. ASSUME NEW x \in Runner, run' = [run EXCEPT ![w] = x],
             x.pc \in {"read", "skip", "deliver", "fail"} => x.cur \in Schedules,
             \/ fresh' = fresh
             \/ \E B \in SUBSET Schedules : fresh' = [fresh EXCEPT ![w] = B]
      PROVE  Goal
  BY <1>1 DEF TypeOK, HasRow
<1>2. run[w] \in Runner /\ run[w].batch \subseteq Schedules
  BY DEF TypeOK, Runner
<1>3. CASE StopLoop(w)
  BY <1>1, <1>3, RunnerValues DEF StopLoop, IdleRunner
<1>4. CASE NextRow(w)
  <2>1. CASE run[w].batch # {}
    <3>1. run' = [run EXCEPT ![w] = [run[w] EXCEPT !.pc = "next", !.cur = NoSchedule]]
      BY <1>4, <2>1 DEF NextRow
    <3>2. [run[w] EXCEPT !.pc = "next", !.cur = NoSchedule].pc = "next"
      BY <1>2 DEF Runner
    <3> QED
      BY <1>1, <1>4, <2>1, <3>1, <3>2, RunnerValues DEF NextRow
  <2> QED
    BY <1>3, <1>4, <2>1 DEF NextRow
<1>5. CASE FindDueSchedules(w)
  <2>1. PICK B \in SUBSET DueSchedules :
          /\ run' = [run EXCEPT ![w] = [pc |-> "next", batch |-> B, cur |-> NoSchedule]]
          /\ fresh' = [fresh EXCEPT ![w] = B]
    BY <1>5 DEF FindDueSchedules
  <2>2. B \in SUBSET Schedules
    BY DEF DueSchedules
  <2>3. [pc |-> "next", batch |-> B, cur |-> NoSchedule].pc = "next"
    BY DEF IdleRunner
  <2> QED
    BY <1>1, <2>1, <2>2, <2>3, RunnerValues
<1>6. ASSUME NEW s \in Schedules, NEW label \in {"read", "fail"}, fresh' = fresh,
             run' = [run EXCEPT ![w] =
               [pc |-> label, batch |-> run[w].batch \ {s}, cur |-> s]]
      PROVE  Goal
  BY <1>1, <1>6, RunnerValues
<1>7. ASSUME NEW label \in {"read", "skip", "deliver", "fail"}, HasRow(w), fresh' = fresh,
             run' = [run EXCEPT ![w].pc = label]
      PROVE  Goal
  <2>1. [run[w] EXCEPT !.pc = label].cur \in Schedules
    BY <1>2, <1>7 DEF TypeOK, Runner
  <2> QED
    BY <1>1, <1>7, <2>1, RunnerValues
<1>8. CASE MarkScheduleProcessing(w)
  BY <1>2, <1>3, <1>6, <1>8 DEF MarkScheduleProcessing
<1>9. CASE FailRow(w)
  BY <1>2, <1>6, <1>7, <1>9 DEF FailRow, HasRow
<1>10. CASE ReadProviderSetting(w) \/ Deliver(w)
  BY <1>7, <1>10 DEF ReadProviderSetting, Deliver, HasRow
<1> QED
  BY <1>3, <1>4, <1>5, <1>8, <1>9, <1>10
     DEF RunnerStep, CompleteSkipped, CompleteFailed, StopRunner

\* A step of a handler keeps the table of handlers.
LEMMA HandlersTyped ==
  ASSUME TypeOK, NEW h \in Handlers, HandlerStep(h)
  PROVE  /\ hnd' \in [Handlers -> Handler]
         /\ \A g \in Handlers : Busy(g)' => hnd'[g].fee \in Fees
<1> DEFINE Goal == /\ hnd' \in [Handlers -> Handler]
                   /\ \A g \in Handlers : Busy(g)' => hnd'[g].fee \in Fees
<1>1. ASSUME NEW x \in Handler, hnd' = [hnd EXCEPT ![h] = x],
             x.pc # "idle" => x.fee \in Fees
      PROVE  Goal
  BY <1>1 DEF TypeOK, Busy
<1>2. hnd[h] \in Handler
  BY DEF TypeOK
<1>3. CASE EndSync(h)
  <2>1. IdleHandler \in Handler /\ IdleHandler.pc = "idle"
    BY DEF IdleHandler, Handler
  <2> QED
    BY <1>1, <1>3, <2>1 DEF EndSync
<1>4. ASSUME NEW f \in Fees, WriteRecord(h, f)
      PROVE  Goal
  <2> DEFINE x == [pc |-> "setting", fee |-> f, due |-> 0, rules |-> {}]
  <2>1. x \in Handler /\ x.fee \in Fees
    BY DEF Handler
  <2>2. hnd' = [hnd EXCEPT ![h] = x]
    BY <1>4 DEF WriteRecord, StartSync
  <2> HIDE DEF x
  <2>3. hnd' \in [Handlers -> Handler] /\ \A g \in Handlers : Busy(g)' => hnd'[g].fee \in Fees
    BY <1>1, <2>1, <2>2
  <2> QED
    BY <2>3
<1>5. ASSUME NEW label \in {"record", "cancel"}, Busy(h), hnd' = [hnd EXCEPT ![h].pc = label]
      PROVE  Goal
  <2>1. /\ [hnd[h] EXCEPT !.pc = label] \in Handler
        /\ [hnd[h] EXCEPT !.pc = label].fee \in Fees
    BY <1>2, <1>5 DEF Handler, TypeOK
  <2> QED
    BY <1>1, <1>5, <2>1
<1>6. ASSUME NEW d \in Int, NEW R \in SUBSET Rules, Busy(h),
             hnd' = [hnd EXCEPT ![h].pc = "arm", ![h].due = d, ![h].rules = R]
      PROVE  Goal
  <2>1. /\ [hnd[h] EXCEPT !.pc = "arm", !.due = d, !.rules = R] \in Handler
        /\ [hnd[h] EXCEPT !.pc = "arm", !.due = d, !.rules = R].fee \in Fees
    BY <1>2, <1>6 DEF Handler, TypeOK
  <2> QED
    BY <1>1, <1>6, <2>1
<1>7. ASSUME NEW r \in Rules, Busy(h), hnd' = [hnd EXCEPT ![h].rules = @ \ {r}]
      PROVE  Goal
  <2> DEFINE x == [hnd[h] EXCEPT !.rules = hnd[h].rules \ {r}]
  <2>1. x \in Handler /\ x.fee \in Fees
    BY <1>2, <1>7 DEF Handler, TypeOK
  <2>2. hnd' = [hnd EXCEPT ![h] = x]
    BY <1>7
  <2> HIDE DEF x
  <2> QED
    BY <1>1, <2>1, <2>2
<1>8. CASE SyncReadSetting(h)
  BY <1>3, <1>5, <1>8 DEF SyncReadSetting, Busy
<1>9. CASE SyncReadRecord(h)
  <2>1. due[hnd[h].fee] \in Int
    BY <1>9 DEF SyncReadRecord, TypeOK, Busy
  <2> QED
    BY <1>3, <1>5, <1>6, <1>9, <2>1 DEF SyncReadRecord, Busy
<1>10. CASE UpsertSchedule(h)
  <2>1. hnd[h].rules \subseteq Rules
    BY <1>2 DEF Handler
  <2> QED
    BY <1>3, <1>7, <1>10, <2>1 DEF UpsertSchedule, Busy
<1> QED
  BY <1>3, <1>4, <1>8, <1>9, <1>10 DEF HandlerStep, CancelSchedules, StopHandler

\* One step keeps every type.
LEMMA TypeStep ==
  ASSUME TypeOK, [Next]_vars
  PROVE  TypeOK'
<1> USE DEF clockVars, feeVars, rowVars
<1>1. ASSUME NEW w \in Runners, RunnerStep(w)
      PROVE  TypeOK'
  <2>1. UNCHANGED <<today, setting, fee, due, at, hnd, neglected>>
    BY <1>1 DEF RunnerStep, FindDueSchedules, MarkScheduleProcessing, ReadProviderSetting,
       CompleteSkipped, Deliver, FailRow, CompleteFailed, StopRunner
  <2>2. status' \in [Schedules -> Status]
    BY <1>1 DEF RunnerStep, FindDueSchedules, MarkScheduleProcessing, ReadProviderSetting,
       CompleteSkipped, Deliver, FailRow, CompleteFailed, StopRunner, TypeOK, Status
  <2>3. sent' \in [Schedules -> Nat]
    <3>1. CASE Deliver(w)
      <4>1. \A s \in fresh[w] : s \in Schedules /\ sent[s] + 1 \in Nat
        BY DEF TypeOK
      <4> QED
        BY <3>1, <4>1 DEF Deliver, TypeOK
    <3> QED
      BY <1>1, <3>1 DEF RunnerStep, FindDueSchedules, MarkScheduleProcessing,
         ReadProviderSetting, CompleteSkipped, FailRow, CompleteFailed, StopRunner, TypeOK
  <2> QED
    BY <1>1, <2>1, <2>2, <2>3, RunnersTyped DEF TypeOK, Busy
<1>2. ASSUME NEW h \in Handlers, HandlerStep(h)
      PROVE  TypeOK'
  <2>1. UNCHANGED <<today, setting, run>>
    BY <1>2 DEF HandlerStep, WriteRecord, SyncReadSetting, SyncReadRecord,
       CancelSchedules, UpsertSchedule, StopHandler
  <2>2. hnd[h].due \in Int /\ hnd[h].rules \subseteq Rules
    BY DEF TypeOK, Handler
  <2>3. /\ fee' \in [Fees -> {"none", "open", "settled", "deleted"}]
        /\ due' \in [Fees -> Int]
    BY <1>2, RuleAssumption DEF HandlerStep, WriteRecord, SyncReadSetting, SyncReadRecord,
       CancelSchedules, UpsertSchedule, StopHandler, TypeOK
  <2>4. /\ status' \in [Schedules -> Status]
        /\ at' \in [Schedules -> Int]
        /\ sent' \in [Schedules -> Nat]
        /\ fresh' \in [Runners -> SUBSET Schedules]
    <3>1. CASE UNCHANGED <<status, at, sent, fresh>>
      BY <3>1 DEF TypeOK
    <3>2. CASE CancelSchedules(h)
      BY <3>2 DEF CancelSchedules, TypeOK, Status
    <3>3. CASE UpsertSchedule(h) /\ fee[hnd[h].fee] # "deleted"
      <4>1. PICK r \in Rules :
              /\ status' = [status EXCEPT ![<<r, hnd[h].fee>>] = "PENDING"]
              /\ at' = [at EXCEPT ![<<r, hnd[h].fee>>] = hnd[h].due + Offset[r]]
              /\ sent' = [sent EXCEPT ![<<r, hnd[h].fee>>] = 0]
              /\ fresh' = [w \in Runners |-> fresh[w] \ {<<r, hnd[h].fee>>}]
        BY <2>2, <3>3 DEF UpsertSchedule
      <4>2. hnd[h].due + Offset[r] \in Int
        BY <2>2, RuleAssumption
      <4> QED
        BY <4>1, <4>2 DEF TypeOK, Status
    <3> QED
      BY <1>2, <3>1, <3>2, <3>3 DEF HandlerStep, WriteRecord, SyncReadSetting,
         SyncReadRecord, UpsertSchedule, StopHandler
  <2>5. neglected' \subseteq Fees
    <3>1. CASE UNCHANGED neglected \/ CancelSchedules(h)
      BY <3>1 DEF CancelSchedules, TypeOK
    <3>2. CASE SyncReadSetting(h) \/ StopHandler(h)
      BY <3>2 DEF SyncReadSetting, StopHandler, TypeOK, Busy
    <3>3. ASSUME NEW f \in Fees, WriteRecord(h, f)
          PROVE  neglected' \subseteq Fees
      BY <3>3 DEF WriteRecord, StartSync, TypeOK
    <3> QED
      BY <1>2, <3>1, <3>2, <3>3 DEF HandlerStep, SyncReadRecord, UpsertSchedule
  <2> QED
    BY <1>2, <2>1, <2>3, <2>4, <2>5, HandlersTyped DEF TypeOK, HasRow
<1>3. CASE Environment
  BY <1>3, SettingAssumption DEF Environment, DeleteRecord, DeleteStudent,
     UpsertProviderSetting, NextDay, TypeOK, Status, HasRow, Busy
<1>4. CASE UNCHANGED vars
  BY <1>4 DEF vars, TypeOK, HasRow, Busy
<1> QED
  BY <1>1, <1>2, <1>3, <1>4 DEF Next

(***************************************************************************)
(* Rows and the runners that hold them.                                    *)
(***************************************************************************)

\* The holders of a row are finitely many.
LEMMA HoldersFinite ==
  ASSUME NEW s \in Schedules
  PROVE  /\ IsFiniteSet(Holders(s))
         /\ Cardinality(Holders(s)) \in Nat
         /\ Cardinality(Holders(s)) <= Cardinality(Runners)
         /\ Cardinality(Runners) \in Nat
<1>1. Holders(s) \subseteq Runners
  BY DEF Holders
<1> QED
  BY <1>1, RunnerAssumption, FS_Subset, FS_CardinalityType

\* One step keeps pending rows unsent, and taken rows not pending.
LEMMA RowsStep ==
  ASSUME IInv, [Next]_vars
  PROVE  RowsUnsent' /\ RowInHand'
<1> USE DEF clockVars, feeVars, rowVars
<1>1. TypeOK /\ RowsUnsent /\ RowInHand
  BY DEF IInv
<1>2. ASSUME NEW w \in Runners, StopLoop(w), UNCHANGED sent,
             \A s \in Schedules : status'[s] = "PENDING" => status[s] = "PENDING"
      PROVE  RowsUnsent' /\ RowInHand'
  BY <1>1, <1>2 DEF StopLoop, IdleRunner, RowsUnsent, RowInHand, HasRow, TypeOK
<1>3. ASSUME NEW w \in Runners, NextRow(w), UNCHANGED sent,
             \A s \in Schedules : status'[s] = "PENDING" => status[s] = "PENDING"
      PROVE  RowsUnsent' /\ RowInHand'
  <2>1. CASE run[w].batch # {}
    <3>1. ASSUME NEW v \in Runners
          PROVE  v # w => run'[v] = run[v]
      BY <1>1, <1>3, <2>1 DEF NextRow, TypeOK
    <3>2. run'[w].pc = "next"
      BY <1>1, <1>3, <2>1 DEF NextRow, TypeOK, Runner
    <3>3. fresh' = fresh
      BY <1>3, <2>1 DEF NextRow
    <3> QED
      BY <1>1, <1>3, <3>1, <3>2, <3>3 DEF RowsUnsent, RowInHand, HasRow, TypeOK
  <2> QED
    BY <1>2, <1>3, <2>1 DEF NextRow
<1>4. ASSUME NEW w \in Runners, RunnerStep(w)
      PROVE  RowsUnsent' /\ RowInHand'
  <2> DEFINE s == run[w].cur
  <2>1. run[w] \in Runner /\ (HasRow(w) => s \in Schedules)
    BY <1>1 DEF TypeOK
  <2>2. CASE FindDueSchedules(w)
    BY <1>1, <2>2 DEF FindDueSchedules, IdleRunner, RowsUnsent, RowInHand, HasRow, TypeOK
  <2>3. CASE MarkScheduleProcessing(w)
    <3>1. PICK b \in run[w].batch :
            \/ StopLoop(w) /\ UNCHANGED status
            \/ /\ status' = [status EXCEPT ![b] = "PROCESSING"]
               /\ run' = [run EXCEPT ![w] =
                    [pc |-> "read", batch |-> run[w].batch \ {b}, cur |-> b]]
               /\ UNCHANGED fresh
      BY <2>3 DEF MarkScheduleProcessing
    <3>2. b \in Schedules /\ UNCHANGED sent
      BY <2>1, <2>3 DEF Runner, MarkScheduleProcessing
    <3>3. CASE StopLoop(w) /\ UNCHANGED status
      BY <1>2, <3>2, <3>3
    <3>4. CASE ~(StopLoop(w) /\ UNCHANGED status)
      <4>1. /\ run'[w].pc = "read"
            /\ run'[w].cur = b
            /\ run'[w].batch = run[w].batch \ {b}
            /\ \A v \in Runners : v # w => run'[v] = run[v]
            /\ \A x \in Schedules : status'[x] = IF x = b THEN "PROCESSING" ELSE status[x]
            /\ UNCHANGED fresh
        BY <1>1, <3>1, <3>2, <3>4 DEF TypeOK
      <4>2. RowsUnsent'
        BY <1>1, <3>2, <4>1 DEF RowsUnsent
      <4>3. RowInHand'
        BY <1>1, <3>2, <4>1 DEF RowInHand, HasRow, TypeOK
      <4> QED
        BY <4>2, <4>3
    <3> QED
      BY <3>1, <3>3, <3>4
  <2>4. CASE ReadProviderSetting(w)
    <3>1. run[w].pc = "read"
      BY <2>4 DEF ReadProviderSetting
    <3>2. /\ \A v \in Runners : run'[v].cur = run[v].cur /\ run'[v].batch = run[v].batch
          /\ \A v \in Runners : v # w => run'[v].pc = run[v].pc
          /\ UNCHANGED <<status, sent, fresh>>
      BY <1>1, <2>1, <2>4 DEF ReadProviderSetting, TypeOK, Runner
    <3> QED
      BY <1>1, <3>1, <3>2 DEF RowsUnsent, RowInHand, HasRow
  <2>5. CASE Deliver(w)
    <3>1. run[w].pc = "deliver" /\ s \in Schedules
      BY <2>1, <2>5 DEF Deliver, HasRow
    <3>2. /\ \A v \in Runners : run'[v].cur = run[v].cur /\ run'[v].batch = run[v].batch
          /\ \A v \in Runners : v # w => run'[v].pc = run[v].pc
          /\ run'[w].pc = "fail"
          /\ UNCHANGED <<status, fresh>>
      BY <1>1, <2>1, <2>5 DEF Deliver, TypeOK, Runner
    <3>3. RowInHand'
      BY <1>1, <3>1, <3>2 DEF RowInHand, HasRow
    <3>4. RowsUnsent'
      BY <1>1, <2>5, <3>1, <3>2 DEF Deliver, RowsUnsent, RowInHand, TypeOK
    <3> QED
      BY <3>3, <3>4
  <2>6. CASE FailRow(w) /\ run[w].pc # "next"
    <3>1. /\ \A v \in Runners : run'[v].cur = run[v].cur /\ run'[v].batch = run[v].batch
          /\ \A v \in Runners : v # w => run'[v].pc = run[v].pc
          /\ run'[w].pc = "fail"
          /\ UNCHANGED <<status, sent, fresh>>
      BY <1>1, <2>1, <2>6 DEF FailRow, TypeOK, Runner
    <3> QED
      BY <1>1, <2>6, <3>1 DEF RowsUnsent, RowInHand, HasRow, FailRow
  <2>7. CASE FailRow(w) /\ run[w].pc = "next"
    BY <1>1, <2>7 DEF FailRow, RowsUnsent, RowInHand, HasRow, TypeOK
  <2>8. CASE CompleteSkipped(w) \/ CompleteFailed(w)
    <3>1. s \in Schedules
      BY <2>1, <2>8 DEF CompleteSkipped, CompleteFailed, HasRow
    <3>2. /\ StopLoop(w) \/ NextRow(w)
          /\ UNCHANGED sent
          /\ \A x \in Schedules : status'[x] = "PENDING" => status[x] = "PENDING"
      BY <1>1, <2>8, <3>1 DEF CompleteSkipped, CompleteFailed, TypeOK
    <3> QED
      BY <1>2, <1>3, <3>2
  <2>9. CASE StopRunner(w)
    BY <1>2, <2>9 DEF StopRunner
  <2> QED
    BY <1>4, <2>2, <2>3, <2>4, <2>5, <2>6, <2>7, <2>8, <2>9 DEF RunnerStep
<1>5. ASSUME NEW h \in Handlers, HandlerStep(h)
      PROVE  RowsUnsent' /\ RowInHand'
  <2>1. run' = run
    BY <1>5 DEF HandlerStep, WriteRecord, SyncReadSetting, SyncReadRecord,
       CancelSchedules, UpsertSchedule, StopHandler
  <2>2. CASE UNCHANGED <<status, sent, fresh>>
    BY <1>1, <2>1, <2>2 DEF RowsUnsent, RowInHand, HasRow
  <2>3. CASE CancelSchedules(h)
    BY <1>1, <2>1, <2>3 DEF CancelSchedules, RowsUnsent, RowInHand, HasRow, TypeOK
  <2>4. CASE UpsertSchedule(h) /\ fee[hnd[h].fee] # "deleted"
    <3>1. PICK x \in Schedules :
            /\ status' = [status EXCEPT ![x] = "PENDING"]
            /\ sent' = [sent EXCEPT ![x] = 0]
            /\ fresh' = [w \in Runners |-> fresh[w] \ {x}]
      <4>1. hnd[h].rules \subseteq Rules /\ hnd[h].fee \in Fees
        BY <1>1, <2>4 DEF UpsertSchedule, TypeOK, Busy, Handler
      <4>2. \A r \in Rules : <<r, hnd[h].fee>> \in Schedules
        BY <4>1 DEF Schedules
      <4> QED
        BY <2>4, <4>1, <4>2 DEF UpsertSchedule
    <3> QED
      BY <1>1, <2>1, <3>1 DEF RowsUnsent, RowInHand, HasRow, TypeOK
  <2> QED
    BY <1>5, <2>2, <2>3, <2>4 DEF HandlerStep, WriteRecord, SyncReadSetting,
       SyncReadRecord, UpsertSchedule, StopHandler
<1>6. CASE Environment \/ UNCHANGED vars
  BY <1>1, <1>6 DEF Environment, DeleteRecord, DeleteStudent, UpsertProviderSetting,
     NextDay, vars, RowsUnsent, RowInHand, HasRow, TypeOK
<1> QED
  BY <1>4, <1>5, <1>6 DEF Next

\* One step keeps the bound on deliveries.  A runner becomes a holder of a row only
\* when it finds it pending, hence not delivered yet.
LEMMA SentStep ==
  ASSUME IInv, [Next]_vars
  PROVE  SentPerArming'
<1> USE DEF clockVars, feeVars, rowVars
<1>1. TypeOK /\ RowsUnsent /\ RowInHand /\ SentPerArming
  BY DEF IInv
<1> SUFFICES ASSUME NEW s \in Schedules
             PROVE  sent'[s] + Cardinality(Holders(s)') <= Cardinality(Runners)
  BY DEF SentPerArming
<1>2. /\ sent[s] \in Nat
      /\ sent[s] + Cardinality(Holders(s)) <= Cardinality(Runners)
      /\ IsFiniteSet(Holders(s))
      /\ Cardinality(Holders(s)) \in Nat
      /\ Cardinality(Runners) \in Nat
  BY <1>1, HoldersFinite DEF TypeOK, SentPerArming
<1>3. IsFiniteSet(Holders(s)') /\ Cardinality(Holders(s)') <= Cardinality(Runners)
      /\ Cardinality(Holders(s)') \in Nat
  <2>1. Holders(s)' \subseteq Runners
    BY DEF Holders
  <2> QED
    BY <2>1, RunnerAssumption, FS_Subset, FS_CardinalityType
<1>4. ASSUME Holders(s)' \subseteq Holders(s), sent'[s] = sent[s]
      PROVE  sent'[s] + Cardinality(Holders(s)') <= Cardinality(Runners)
  <2>1. Cardinality(Holders(s)') <= Cardinality(Holders(s))
    BY <1>2, <1>4, FS_Subset
  <2> QED
    BY <1>2, <1>3, <1>4, <2>1
<1>5. ASSUME sent'[s] = 0
      PROVE  sent'[s] + Cardinality(Holders(s)') <= Cardinality(Runners)
  BY <1>3, <1>5
<1>6. ASSUME NEW w \in Runners, StopLoop(w), UNCHANGED sent
      PROVE  Holders(s)' \subseteq Holders(s) /\ sent'[s] = sent[s]
  BY <1>1, <1>6 DEF StopLoop, IdleRunner, Holders, TypeOK
<1>7. ASSUME NEW w \in Runners, NextRow(w), UNCHANGED sent
      PROVE  Holders(s)' \subseteq Holders(s) /\ sent'[s] = sent[s]
  <2>1. CASE run[w].batch # {}
    <3>1. /\ \A v \in Runners : v # w => run'[v] = run[v]
          /\ run'[w].pc = "next"
          /\ run'[w].batch = run[w].batch
          /\ UNCHANGED fresh
      BY <1>1, <1>7, <2>1 DEF NextRow, TypeOK, Runner
    <3> QED
      BY <1>7, <3>1 DEF Holders
  <2> QED
    BY <1>6, <1>7, <2>1 DEF NextRow
<1>8. ASSUME NEW w \in Runners, RunnerStep(w)
      PROVE  sent'[s] + Cardinality(Holders(s)') <= Cardinality(Runners)
  <2>1. run[w] \in Runner
    BY <1>1 DEF TypeOK
  <2>2. CASE FindDueSchedules(w)
    <3>1. PICK B \in SUBSET DueSchedules :
            /\ run' = [run EXCEPT ![w] = [pc |-> "next", batch |-> B, cur |-> NoSchedule]]
            /\ fresh' = [fresh EXCEPT ![w] = B]
            /\ UNCHANGED <<status, sent>>
      BY <2>2 DEF FindDueSchedules
    <3>2. /\ run'[w].pc = "next" /\ run'[w].batch = B /\ fresh'[w] = B
          /\ \A v \in Runners : v # w => run'[v] = run[v] /\ fresh'[v] = fresh[v]
      BY <1>1, <3>1 DEF IdleRunner, TypeOK
    <3>3. CASE s \in B
      <4>1. status[s] = "PENDING"
        BY <3>1, <3>3 DEF DueSchedules
      <4> QED
        BY <1>1, <1>5, <3>1, <4>1 DEF RowsUnsent
    <3>4. CASE s \notin B
      BY <1>4, <3>1, <3>2, <3>4 DEF Holders
    <3> QED
      BY <3>3, <3>4
  <2>3. CASE MarkScheduleProcessing(w)
    <3>1. PICK b \in run[w].batch :
            \/ StopLoop(w)
            \/ /\ run' = [run EXCEPT ![w] =
                    [pc |-> "read", batch |-> run[w].batch \ {b}, cur |-> b]]
               /\ UNCHANGED fresh
      BY <2>3 DEF MarkScheduleProcessing
    <3>2. UNCHANGED sent
      BY <2>3 DEF MarkScheduleProcessing
    <3>3. CASE StopLoop(w)
      BY <1>4, <1>6, <3>2, <3>3
    <3>4. CASE ~StopLoop(w)
      <4>1. /\ run'[w].batch \subseteq run[w].batch /\ run'[w].cur \in run[w].batch
            /\ \A v \in Runners : v # w => run'[v] = run[v]
            /\ UNCHANGED fresh
        BY <1>1, <3>1, <3>4 DEF TypeOK
      <4>2. Holders(s)' \subseteq Holders(s)
        BY <4>1 DEF Holders
      <4> QED
        BY <1>4, <3>2, <4>2
    <3> QED
      BY <3>3, <3>4
  <2>4. CASE Deliver(w)
    <3>1. /\ \A v \in Runners : run'[v].cur = run[v].cur /\ run'[v].batch = run[v].batch
          /\ \A v \in Runners : v # w => run'[v].pc = run[v].pc
          /\ run[w].pc = "deliver" /\ run'[w].pc = "fail"
          /\ UNCHANGED fresh
      BY <1>1, <2>1, <2>4 DEF Deliver, TypeOK, Runner
    <3>2. Holders(s)' \subseteq Holders(s)
      BY <3>1 DEF Holders
    <3>3. CASE run[w].cur = s /\ s \in fresh[w]
      <4>1. w \in Holders(s) /\ w \notin Holders(s)'
        BY <1>1, <3>1, <3>3 DEF Holders, RowInHand, HasRow
      <4>2. Holders(s)' \subseteq Holders(s) \ {w}
        BY <3>2, <4>1
      <4>3. Cardinality(Holders(s)') <= Cardinality(Holders(s)) - 1
        <5>1. /\ IsFiniteSet(Holders(s) \ {w})
              /\ Cardinality(Holders(s) \ {w}) = Cardinality(Holders(s)) - 1
          BY <1>2, <4>1, FS_RemoveElement
        <5>2. Cardinality(Holders(s)') <= Cardinality(Holders(s) \ {w})
          BY <4>2, <5>1, FS_Subset
        <5> QED
          BY <5>1, <5>2
      <4>4. sent'[s] = sent[s] + 1
        BY <1>1, <2>4, <3>3 DEF Deliver, TypeOK
      <4> QED
        BY <1>2, <1>3, <4>3, <4>4
    <3>4. CASE ~(run[w].cur = s /\ s \in fresh[w])
      <4>1. sent'[s] = sent[s]
        BY <1>1, <2>4, <3>4 DEF Deliver, TypeOK
      <4> QED
        BY <1>4, <3>2, <4>1
    <3> QED
      BY <3>3, <3>4
  <2>5. CASE ReadProviderSetting(w) \/ (FailRow(w) /\ run[w].pc # "next")
    <3>1. /\ \A v \in Runners : run'[v].cur = run[v].cur /\ run'[v].batch = run[v].batch
          /\ \A v \in Runners : v # w => run'[v].pc = run[v].pc
          /\ run[w].pc \in {"read", "skip", "deliver"}
          /\ run'[w].pc \in {"skip", "deliver", "fail"}
          /\ run'[w].pc = "deliver" => run[w].pc = "read"
          /\ UNCHANGED <<fresh, sent>>
      BY <1>1, <2>1, <2>5 DEF ReadProviderSetting, FailRow, TypeOK, Runner
    <3>2. Holders(s)' \subseteq Holders(s)
      BY <3>1 DEF Holders
    <3> QED
      BY <1>4, <3>1, <3>2
  <2>6. CASE FailRow(w) /\ run[w].pc = "next"
    <3>1. /\ run'[w].pc = "fail"
          /\ run'[w].batch \subseteq run[w].batch
          /\ \A v \in Runners : v # w => run'[v] = run[v]
          /\ UNCHANGED <<fresh, sent>>
      BY <1>1, <2>6 DEF FailRow, TypeOK
    <3>2. Holders(s)' \subseteq Holders(s)
      BY <3>1 DEF Holders
    <3> QED
      BY <1>4, <3>1, <3>2
  <2>7. CASE CompleteSkipped(w) \/ CompleteFailed(w) \/ StopRunner(w)
    <3>1. (StopLoop(w) \/ NextRow(w)) /\ UNCHANGED sent
      BY <2>7 DEF CompleteSkipped, CompleteFailed, StopRunner
    <3> QED
      BY <1>4, <1>6, <1>7, <3>1
  <2> QED
    BY <1>8, <2>2, <2>3, <2>4, <2>5, <2>6, <2>7 DEF RunnerStep
<1>9. ASSUME run' = run, UNCHANGED <<sent, fresh>>
      PROVE  sent'[s] + Cardinality(Holders(s)') <= Cardinality(Runners)
  BY <1>4, <1>9 DEF Holders
<1>10. ASSUME NEW h \in Handlers, UpsertSchedule(h)
       PROVE  sent'[s] + Cardinality(Holders(s)') <= Cardinality(Runners)
  <2>1. CASE fee[hnd[h].fee] = "deleted"
    BY <1>9, <1>10, <2>1 DEF UpsertSchedule
  <2>2. CASE fee[hnd[h].fee] # "deleted"
    <3>1. PICK x :
            /\ sent' = [sent EXCEPT ![x] = 0]
            /\ fresh' = [w \in Runners |-> fresh[w] \ {x}]
            /\ run' = run
      BY <1>10, <2>2 DEF UpsertSchedule
    <3>2. Holders(s)' \subseteq Holders(s)
      BY <3>1 DEF Holders
    <3>3. sent'[s] = 0 \/ sent'[s] = sent[s]
      BY <1>1, <3>1 DEF TypeOK
    <3> QED
      BY <1>4, <1>5, <3>2, <3>3
  <2> QED
    BY <2>1, <2>2
<1> QED
  BY <1>8, <1>9, <1>10 DEF Next, HandlerStep, WriteRecord, SyncReadSetting, SyncReadRecord,
     CancelSchedules, StopHandler, Environment, DeleteRecord, DeleteStudent,
     UpsertProviderSetting, NextDay, vars

(***************************************************************************)
(* Settled records.                                                        *)
(***************************************************************************)

\* One step keeps the handlers of a record apart, or the record neglected, and
\* leaves no pending row of a settled record without a cause.
LEMMA SettledStep ==
  ASSUME IInv, [Next]_vars
  PROVE  HandlersApart' /\ SettledIsCancelled'
<1> USE NullAssumption DEF clockVars, feeVars, rowVars
<1>1. TypeOK /\ HandlersApart /\ SettledIsCancelled
  BY DEF IInv
<1>2. \A s \in Schedules : s[2] \in Fees /\ s = <<s[1], s[2]>>
  BY DEF Schedules
<1>3. ASSUME NEW w \in Runners, RunnerStep(w)
      PROVE  HandlersApart' /\ SettledIsCancelled'
  <2>1. UNCHANGED <<fee, hnd, neglected>>
    BY <1>3 DEF RunnerStep, FindDueSchedules, MarkScheduleProcessing, ReadProviderSetting,
       CompleteSkipped, Deliver, FailRow, CompleteFailed, StopRunner
  <2>2. \A s \in Schedules : status'[s] = "PENDING" => status[s] = "PENDING"
    BY <1>1, <1>3 DEF RunnerStep, FindDueSchedules, MarkScheduleProcessing,
       ReadProviderSetting, CompleteSkipped, Deliver, FailRow, CompleteFailed, StopRunner,
       TypeOK
  <2> QED
    BY <1>1, <2>1, <2>2 DEF HandlersApart, SettledIsCancelled, Busy
<1>4. CASE Environment \/ UNCHANGED vars
  <2>1. UNCHANGED <<hnd, neglected>>
    BY <1>4 DEF Environment, DeleteRecord, DeleteStudent, UpsertProviderSetting, NextDay, vars
  <2>2. /\ \A f \in Fees : fee'[f] = "settled" => fee[f] = "settled"
        /\ \A s \in Schedules : status'[s] = "PENDING" => status[s] = "PENDING"
    BY <1>1, <1>4 DEF Environment, DeleteRecord, DeleteStudent, UpsertProviderSetting,
       NextDay, vars, TypeOK
  <2>3. \A h \in Handlers : hnd[h].pc = "arm" => hnd[h].fee \in Fees
    BY <1>1 DEF TypeOK, Busy
  <2> QED
    BY <1>1, <1>2, <2>1, <2>2, <2>3 DEF HandlersApart, SettledIsCancelled, Busy
<1>5. ASSUME NEW h \in Handlers, NEW f \in Fees, WriteRecord(h, f)
      PROVE  HandlersApart' /\ SettledIsCancelled'
  <2>1. /\ hnd'[h].pc = "setting" /\ hnd'[h].fee = f
        /\ \A g \in Handlers : g # h => hnd'[g] = hnd[g]
    BY <1>1, <1>5 DEF WriteRecord, StartSync, TypeOK
  <2>2. /\ ~Busy(h) /\ status' = status
        /\ \A x \in Fees : x # f => fee'[x] = fee[x]
    BY <1>1, <1>5 DEF WriteRecord, TypeOK
  <2>3. /\ neglected \subseteq neglected'
        /\ (\E g \in Handlers : g # h /\ hnd[g].fee = f) => f \in neglected'
        /\ neglected' \subseteq neglected \cup {f}
    BY <1>5 DEF WriteRecord, StartSync, OthersOn
  <2>4. \A g \in Handlers : hnd[g].pc = "arm" => hnd[g].fee \in Fees
    BY <1>1 DEF TypeOK, Busy
  <2>5. HandlersApart'
    BY <1>1, <2>1, <2>2, <2>3, <2>4 DEF HandlersApart, Busy
  <2>6. SettledIsCancelled'
    BY <1>1, <1>2, <2>1, <2>2, <2>3 DEF SettledIsCancelled, HandlersApart
  <2> QED
    BY <2>5, <2>6
<1>6. ASSUME NEW h \in Handlers, Busy(h), EndSync(h), UNCHANGED fee,
             \A f \in Fees : f \in neglected /\ f \notin neglected' =>
               f = hnd[h].fee /\ OthersOn(h, f) = {},
             \A s \in Schedules :
               /\ status'[s] = "PENDING" /\ s[2] # hnd[h].fee => status[s] = "PENDING"
               /\ status'[s] = "PENDING" /\ s[2] = hnd[h].fee /\ fee[s[2]] = "settled" =>
                    s[2] \in neglected'
      PROVE  HandlersApart' /\ SettledIsCancelled'
  <2>1. /\ hnd'[h].pc = "idle" /\ hnd'[h].fee = NoFee
        /\ \A g \in Handlers : g # h => hnd'[g] = hnd[g]
    BY <1>1, <1>6 DEF EndSync, IdleHandler, TypeOK
  <2>2. \A g \in Handlers : Busy(g) => hnd[g].fee \in Fees
    BY <1>1 DEF TypeOK
  <2>3. HandlersApart'
    BY <1>1, <1>6, <2>1, <2>2 DEF HandlersApart, Busy, OthersOn
  <2>4. SettledIsCancelled'
    BY <1>1, <1>2, <1>6, <2>1 DEF SettledIsCancelled, OthersOn
  <2> QED
    BY <2>3, <2>4
<1>7. ASSUME NEW h \in Handlers, Busy(h), hnd'[h].fee = hnd[h].fee,
             \A g \in Handlers : g # h => hnd'[g] = hnd[g],
             hnd'[h].pc # "idle",
             hnd'[h].pc = "arm" /\ hnd[h].pc # "arm" => fee[hnd[h].fee] # "settled",
             UNCHANGED <<fee, neglected>>,
             \A s \in Schedules :
               status'[s] = "PENDING" /\ s[2] # hnd[h].fee => status[s] = "PENDING"
      PROVE  HandlersApart' /\ SettledIsCancelled'
  <2>1. HandlersApart'
    BY <1>1, <1>7 DEF HandlersApart, Busy
  <2>2. SettledIsCancelled'
    BY <1>1, <1>2, <1>7 DEF SettledIsCancelled
  <2> QED
    BY <2>1, <2>2
<1>8. ASSUME NEW h \in Handlers, SyncReadSetting(h)
      PROVE  HandlersApart' /\ SettledIsCancelled'
  <2>1. Busy(h) /\ hnd[h] \in Handler /\ hnd[h].fee \in Fees
    BY <1>1, <1>8 DEF SyncReadSetting, Busy, TypeOK
  <2>2. CASE setting.auto
    <3>1. /\ hnd'[h].pc = "record" /\ hnd'[h].fee = hnd[h].fee
          /\ \A g \in Handlers : g # h => hnd'[g] = hnd[g]
      BY <1>1, <1>8, <2>1, <2>2 DEF SyncReadSetting, TypeOK, Handler
    <3> QED
      BY <1>7, <1>8, <2>1, <2>2, <3>1 DEF SyncReadSetting
  <2>3. CASE ~setting.auto
    BY <1>6, <1>8, <2>1, <2>3 DEF SyncReadSetting
  <2> QED
    BY <2>2, <2>3
<1>9. ASSUME NEW h \in Handlers, SyncReadRecord(h)
      PROVE  HandlersApart' /\ SettledIsCancelled'
  <2>1. Busy(h) /\ hnd[h] \in Handler
    BY <1>1, <1>9 DEF SyncReadRecord, Busy, TypeOK
  <2>2. UNCHANGED <<fee, status, neglected>>
    BY <1>9 DEF SyncReadRecord
  <2>3. CASE EndSync(h) /\ fee[hnd[h].fee] # "settled"
    BY <1>6, <2>1, <2>2, <2>3
  <2>4. CASE hnd' = [hnd EXCEPT ![h].pc = "cancel"]
    <3>1. /\ hnd'[h].pc = "cancel" /\ hnd'[h].fee = hnd[h].fee
          /\ \A g \in Handlers : g # h => hnd'[g] = hnd[g]
      BY <1>1, <2>1, <2>4 DEF TypeOK, Handler
    <3> QED
      BY <1>7, <2>1, <2>2, <3>1
  <2>5. ASSUME NEW d, NEW R, fee[hnd[h].fee] # "settled",
               hnd' = [hnd EXCEPT ![h].pc = "arm", ![h].due = d, ![h].rules = R]
        PROVE  HandlersApart' /\ SettledIsCancelled'
    <3>1. /\ hnd'[h].pc = "arm" /\ hnd'[h].fee = hnd[h].fee
          /\ \A g \in Handlers : g # h => hnd'[g] = hnd[g]
      BY <1>1, <2>1, <2>5 DEF TypeOK, Handler
    <3> QED
      BY <1>7, <2>1, <2>2, <2>5, <3>1
  <2>6. CASE fee[hnd[h].fee] = "open"
    <3>1. \/ EndSync(h)
          \/ \E R : hnd' = [hnd EXCEPT ![h].pc = "arm", ![h].due = due[hnd[h].fee],
                                      ![h].rules = R]
      BY <1>9, <2>6 DEF SyncReadRecord
    <3> QED
      BY <2>3, <2>5, <2>6, <3>1
  <2> QED
    BY <1>9, <2>3, <2>4, <2>6 DEF SyncReadRecord
<1>10. ASSUME NEW h \in Handlers, CancelSchedules(h)
       PROVE  HandlersApart' /\ SettledIsCancelled'
  <2>1. Busy(h) /\ hnd[h].fee \in Fees
    BY <1>1, <1>10 DEF CancelSchedules, Busy, TypeOK
  <2>2. \A s \in Schedules : s[2] = hnd[h].fee => s \in SchedulesOf(hnd[h].fee)
    BY DEF Schedules, SchedulesOf
  <2>3. \A s \in Schedules :
          /\ status'[s] = "PENDING" => status[s] = "PENDING"
          /\ s[2] = hnd[h].fee /\ fee[s[2]] = "settled" => status'[s] # "PENDING"
    BY <1>10, <2>2 DEF CancelSchedules
  <2> QED
    BY <1>6, <1>10, <2>1, <2>3 DEF CancelSchedules
<1>11. ASSUME NEW h \in Handlers, UpsertSchedule(h)
       PROVE  HandlersApart' /\ SettledIsCancelled'
  <2>1. Busy(h) /\ hnd[h] \in Handler /\ hnd[h].pc = "arm"
    BY <1>1, <1>11 DEF UpsertSchedule, Busy, TypeOK
  <2>2. UNCHANGED <<fee, neglected>>
    BY <1>11 DEF UpsertSchedule
  <2>3. fee[hnd[h].fee] = "settled" => hnd[h].fee \in neglected
    BY <1>1, <2>1 DEF HandlersApart
  <2>4. \A s \in Schedules :
          status'[s] = "PENDING" /\ s[2] # hnd[h].fee => status[s] = "PENDING"
    <3>1. CASE UNCHANGED status
      BY <3>1
    <3>2. ASSUME NEW r, status' = [status EXCEPT ![<<r, hnd[h].fee>>] = "PENDING"]
          PROVE  \A s \in Schedules :
                   status'[s] = "PENDING" /\ s[2] # hnd[h].fee => status[s] = "PENDING"
      BY <1>1, <3>2 DEF TypeOK
    <3> QED
      BY <1>11, <3>1, <3>2 DEF UpsertSchedule
  <2>5. CASE EndSync(h)
    BY <1>6, <2>1, <2>2, <2>3, <2>4, <2>5
  <2>6. ASSUME NEW r, hnd' = [hnd EXCEPT ![h].rules = @ \ {r}]
        PROVE  HandlersApart' /\ SettledIsCancelled'
    <3>1. /\ hnd'[h].pc = "arm" /\ hnd'[h].fee = hnd[h].fee
          /\ \A g \in Handlers : g # h => hnd'[g] = hnd[g]
      BY <1>1, <2>1, <2>6 DEF TypeOK, Handler
    <3> QED
      BY <1>7, <2>1, <2>2, <2>4, <3>1
  <2> QED
    BY <1>11, <2>5, <2>6 DEF UpsertSchedule
<1>12. ASSUME NEW h \in Handlers, StopHandler(h)
       PROVE  HandlersApart' /\ SettledIsCancelled'
  BY <1>6, <1>12 DEF StopHandler
<1> QED
  BY <1>3, <1>4, <1>5, <1>8, <1>9, <1>10, <1>11, <1>12 DEF Next, HandlerStep

(***************************************************************************)
(* The theorems.                                                           *)
(***************************************************************************)

\* The inductive invariant holds in every state of ReminderAutomation.
THEOREM Inductive == Spec => []IInv
<1>1. Init => IInv
  <2> SUFFICES ASSUME Init PROVE IInv
    OBVIOUS
  <2>1. TypeOK
    BY SettingAssumption DEF Init, TypeOK, Runner, Handler, IdleRunner, IdleHandler, Status,
       HasRow, Busy
  <2>2. \A s \in Schedules : Holders(s) = {} /\ sent[s] = 0 /\ status[s] = "none"
    BY DEF Init, Holders
  <2>3. SentPerArming
    <3>1. Cardinality({}) = 0 /\ Cardinality(Runners) \in Nat
      BY RunnerAssumption, FS_EmptySet, FS_CardinalityType
    <3>2. \A s \in Schedules : Cardinality(Holders(s)) = 0
      BY <2>2, <3>1
    <3> QED
      BY <2>2, <3>1, <3>2 DEF SentPerArming
  <2>4. RowsUnsent /\ SettledIsCancelled
    BY <2>2 DEF RowsUnsent, SettledIsCancelled
  <2>5. RowInHand /\ HandlersApart
    BY DEF Init, RowInHand, HandlersApart, HasRow, Busy, IdleRunner, IdleHandler
  <2> QED
    BY <2>1, <2>3, <2>4, <2>5 DEF IInv
<1>2. IInv /\ [Next]_vars => IInv'
  BY TypeStep, RowsStep, SentStep, SettledStep DEF IInv
<1> QED
  BY <1>1, <1>2, PTL DEF Spec

\* Every reachable state has its type.
THEOREM TypeCorrect == Spec => []TypeOK
<1>1. IInv => TypeOK
  BY DEF IInv
<1> QED
  BY <1>1, Inductive, PTL

\* However many runs overlap, an arming is delivered at most once by each.
THEOREM DeliveryBounded == Spec => []SentPerArming
<1>1. IInv => SentPerArming
  BY DEF IInv
<1> QED
  BY <1>1, Inductive, PTL

\* A pending reminder of a settled record has one of the named causes.
THEOREM SettlementCancels == Spec => []SettledIsCancelled
<1>1. IInv => SettledIsCancelled
  BY DEF IInv
<1> QED
  BY <1>1, Inductive, PTL

\* No runner begins to deliver for a channel that is off.
LEMMA DeliveringShrinks ==
  ASSUME TypeOK, [Next]_vars, NEW s \in Schedules,
         ~setting.auto \/ Channel[s[1]] \notin setting.on
  PROVE  Delivering(s)' \subseteq Delivering(s)
<1> SUFFICES ASSUME NEW v \in Runners, run'[v].pc = "deliver", run'[v].cur = s
             PROVE  run[v].pc = "deliver" /\ run[v].cur = s
  BY DEF Delivering
<1>1. CASE run'[v] = run[v]
  BY <1>1
<1>2. ASSUME NEW w \in Runners, RunnerStep(w)
      PROVE  run[v].pc = "deliver" /\ run[v].cur = s
  <2>1. run[w] \in Runner
    BY DEF TypeOK
  <2>2. CASE StopLoop(w) \/ NextRow(w) \/ FindDueSchedules(w)
    <3>1. v # w => run'[v] = run[v]
      BY <2>2 DEF StopLoop, NextRow, FindDueSchedules, TypeOK
    <3>2. CASE StopLoop(w) \/ FindDueSchedules(w)
      BY <1>1, <3>1, <3>2 DEF StopLoop, FindDueSchedules, IdleRunner, TypeOK
    <3>3. CASE NextRow(w)
      <4>1. CASE run[w].batch = {}
        BY <3>2, <3>3, <4>1 DEF NextRow
      <4>2. CASE run[w].batch # {}
        <5>1. run'[w].pc = "next"
          BY <2>1, <3>3, <4>2 DEF NextRow, TypeOK, Runner
        <5> QED
          BY <1>1, <3>1, <5>1
      <4> QED
        BY <4>1, <4>2
    <3> QED
      BY <2>2, <3>2, <3>3
  <2>3. CASE ReadProviderSetting(w)
    BY <1>1, <2>1, <2>3 DEF ReadProviderSetting, MayDeliver, TypeOK, Runner
  <2>4. CASE Deliver(w) \/ FailRow(w)
    BY <1>1, <2>1, <2>4 DEF Deliver, FailRow, TypeOK, Runner
  <2>5. CASE MarkScheduleProcessing(w)
    BY <1>1, <2>1, <2>2, <2>5 DEF MarkScheduleProcessing, TypeOK, Runner
  <2> QED
    BY <1>2, <2>2, <2>3, <2>4, <2>5
       DEF RunnerStep, CompleteSkipped, CompleteFailed, StopRunner
<1> QED
  BY <1>1, <1>2 DEF Next, HandlerStep, WriteRecord, SyncReadSetting, SyncReadRecord,
     CancelSchedules, UpsertSchedule, StopHandler, Environment, DeleteRecord,
     DeleteStudent, UpsertProviderSetting, NextDay, vars, clockVars, rowVars

\* The count of a row grows by a delivery only, which takes its runner on.
LEMMA SentGrowsByDelivery ==
  ASSUME TypeOK, [Next]_vars, NEW s \in Schedules
  PROVE  \/ sent'[s] = 0 \/ sent'[s] = sent[s]
         \/ /\ sent'[s] = sent[s] + 1
            /\ \E w \in Delivering(s) : w \notin Delivering(s)'
<1>1. ASSUME NEW w \in Runners, Deliver(w)
      PROVE  \/ sent'[s] = sent[s]
             \/ /\ sent'[s] = sent[s] + 1
                /\ \E v \in Delivering(s) : v \notin Delivering(s)'
  <2>1. CASE run[w].cur = s
    <3>1. w \in Delivering(s) /\ w \notin Delivering(s)'
      BY <1>1, <2>1 DEF Deliver, Delivering, TypeOK, Runner
    <3>2. sent'[s] = sent[s] \/ sent'[s] = sent[s] + 1
      BY <1>1, <2>1 DEF Deliver, TypeOK
    <3> QED
      BY <3>1, <3>2
  <2>2. CASE run[w].cur # s
    BY <1>1, <2>2 DEF Deliver, TypeOK
  <2> QED
    BY <2>1, <2>2
<1>2. ASSUME NEW w \in Runners, RunnerStep(w), ~Deliver(w)
      PROVE  sent' = sent
  BY <1>2 DEF RunnerStep, FindDueSchedules, MarkScheduleProcessing, ReadProviderSetting,
     CompleteSkipped, FailRow, CompleteFailed, StopRunner, rowVars
<1>3. ASSUME NEW h \in Handlers, UpsertSchedule(h)
      PROVE  sent'[s] = 0 \/ sent'[s] = sent[s]
  BY <1>3 DEF UpsertSchedule, TypeOK, rowVars
<1> QED
  BY <1>1, <1>2, <1>3 DEF Next, HandlerStep, WriteRecord, SyncReadSetting, SyncReadRecord,
     CancelSchedules, StopHandler, Environment, DeleteRecord,
     DeleteStudent, UpsertProviderSetting, NextDay, vars, clockVars, rowVars

\* After automation or the channel is switched off, a reminder still goes out at
\* most once for each runner that had read the setting before.
THEOREM SwitchHolds == Spec => SwitchLetsNoMoreOut
<1> DEFINE A == \A s \in Schedules :
                  ~setting.auto \/ Channel[s[1]] \notin setting.on
                    => sent'[s] + Cardinality(Delivering(s)')
                         <= sent[s] + Cardinality(Delivering(s))
<1>1. TypeOK /\ [Next]_vars => A
  <2> SUFFICES ASSUME TypeOK, [Next]_vars, NEW s \in Schedules,
                      ~setting.auto \/ Channel[s[1]] \notin setting.on
               PROVE  sent'[s] + Cardinality(Delivering(s)')
                        <= sent[s] + Cardinality(Delivering(s))
    OBVIOUS
  <2> DEFINE D == Delivering(s)
  <2>1. D' \subseteq D
    BY DeliveringShrinks
  <2>2. IsFiniteSet(D)
    BY FS_Subset, RunnerAssumption DEF Delivering
  <2>3. IsFiniteSet(D') /\ Cardinality(D') <= Cardinality(D)
    BY <2>1, <2>2, FS_Subset
  <2>4. Cardinality(D) \in Nat /\ Cardinality(D') \in Nat /\ sent[s] \in Nat
    BY <2>2, <2>3, FS_CardinalityType DEF TypeOK
  <2>5. ASSUME NEW w \in D, w \notin D'
        PROVE  Cardinality(D') <= Cardinality(D) - 1
    <3>1. D' \subseteq D \ {w}
      BY <2>1, <2>5
    <3>2. IsFiniteSet(D \ {w}) /\ Cardinality(D \ {w}) = Cardinality(D) - 1
      BY <2>2, <2>5, FS_RemoveElement
    <3> QED
      BY <3>1, <3>2, FS_Subset
  <2> HIDE DEF D
  <2> QED
    BY <2>3, <2>4, <2>5, SentGrowsByDelivery DEF D
<1> QED
  <2>1. TypeOK /\ [Next]_vars => [A]_vars
    BY <1>1
  <2> QED
    BY <2>1, TypeCorrect, PTL DEF Spec, SwitchLetsNoMoreOut

-----------------------------------------------------------------------------
(* Notice campaigns *)

\* Whoever has acknowledged anything has an account row.
ReceiptsOwned == \A r \in receipt : account[r[1]] # "NONE"

\* What is published was due, and what a tick has taken is.
TakenInTime ==
  /\ \A c \in Published : notice[c].at <= now
  /\ \A j \in Ticks : \A c \in tick[j].todo : notice[c].st # "NONE" /\ notice[c].at <= now

NoticeInv == NoticeTypeOK /\ ReceiptsOwned /\ TakenInTime

LEMMA NoticeInitInv == NoticeInit => NoticeInv
<1> SUFFICES ASSUME NoticeInit PROVE NoticeInv
  OBVIOUS
<1>1. IdleTick \in [pc : {"idle", "publish", "audit"}, todo : SUBSET Campaigns]
  BY DEF IdleTick
<1>2. [st |-> "NONE", at |-> 0, audience |-> "BOTH"] \in Notice
  BY NoticeAssumption DEF Notice, Times, Audiences
<1>3. NoticeTypeOK
  BY <1>1, <1>2, NoticeAssumption DEF NoticeInit, NoticeTypeOK, Times
<1> QED
  BY <1>3 DEF NoticeInv, ReceiptsOwned, TakenInTime, Published, IdleTick, NoticeInit

LEMMA NoticeStepInv == NoticeInv /\ [NoticeNext]_noticeVars => NoticeInv'
<1> SUFFICES ASSUME NoticeInv, [NoticeNext]_noticeVars PROVE NoticeInv'
  OBVIOUS
<1>0. NoticeTypeOK /\ ReceiptsOwned /\ TakenInTime
  BY DEF NoticeInv
<1>1. ASSUME NEW c \in Campaigns, NEW moment \in Times, NEW audience \in Audiences,
             ScheduleNoticeCampaign(c, moment, audience)
      PROVE  NoticeInv'
  <2>1. NoticeTypeOK'
    BY <1>0, <1>1 DEF NoticeTypeOK, ScheduleNoticeCampaign, Notice
  <2>2. \A d \in Campaigns \ {c} : notice'[d] = notice[d]
    BY <1>0, <1>1 DEF NoticeTypeOK, ScheduleNoticeCampaign
  <2>3. ReceiptsOwned'
    BY <1>0, <1>1 DEF ReceiptsOwned, ScheduleNoticeCampaign
  <2>4. notice[c].st = "NONE" /\ notice'[c].st # "NONE" /\ now' = now /\ tick' = tick
    BY <1>0, <1>1 DEF NoticeTypeOK, ScheduleNoticeCampaign
  <2>5. notice'[c].st = "PUBLISHED" => notice'[c].at = now
    BY <1>0, <1>1 DEF NoticeTypeOK, ScheduleNoticeCampaign
  <2>6. \A k \in Ticks : tick[k].todo \subseteq Campaigns
    BY <1>0 DEF NoticeTypeOK
  <2>7. \A k \in Ticks : c \notin tick[k].todo
    BY <1>0, <2>4 DEF TakenInTime
  <2>8. now \in Int
    BY <1>0 DEF NoticeTypeOK, Times
  <2>9. TakenInTime'
    <3>1. \A d \in Published' : notice'[d].at <= now'
      BY <1>0, <2>2, <2>4, <2>5, <2>8 DEF TakenInTime, Published
    <3>2. \A k \in Ticks : \A d \in tick'[k].todo : notice'[d].st # "NONE" /\ notice'[d].at <= now'
      BY <1>0, <2>2, <2>4, <2>6, <2>7 DEF TakenInTime
    <3> QED
      BY <3>1, <3>2 DEF TakenInTime
  <2> QED
    BY <2>1, <2>3, <2>9 DEF NoticeInv
<1>2. ASSUME NEW a \in Accounts, NEW st \in {"ACTIVE", "INACTIVE"}, SetAccount(a, st)
      PROVE  NoticeInv'
  <2>1. NoticeTypeOK'
    BY <1>0, <1>2 DEF NoticeTypeOK, SetAccount
  <2>2. ReceiptsOwned'
    BY <1>0, <1>2 DEF NoticeTypeOK, ReceiptsOwned, SetAccount
  <2>3. TakenInTime'
    BY <1>0, <1>2 DEF TakenInTime, Published, SetAccount
  <2> QED
    BY <2>1, <2>2, <2>3 DEF NoticeInv
<1>3. ASSUME NEW a \in Accounts, DeleteAccount(a)
      PROVE  NoticeInv'
  <2>1. NoticeTypeOK'
    BY <1>0, <1>3 DEF NoticeTypeOK, DeleteAccount
  <2>2. ReceiptsOwned'
    BY <1>0, <1>3 DEF NoticeTypeOK, ReceiptsOwned, DeleteAccount
  <2>3. TakenInTime'
    BY <1>0, <1>3 DEF TakenInTime, Published, DeleteAccount
  <2> QED
    BY <2>1, <2>2, <2>3 DEF NoticeInv
<1>4. ASSUME NEW a \in Accounts, NEW i \in Items, NEW kind \in {"ANNOUNCEMENT", "OTHER"},
             AcknowledgeItem(a, i, kind)
      PROVE  NoticeInv'
  <2>1. NoticeTypeOK'
    BY <1>0, <1>4 DEF NoticeTypeOK, AcknowledgeItem
  <2>2. ReceiptsOwned'
    BY <1>0, <1>4 DEF ReceiptsOwned, AcknowledgeItem
  <2>3. TakenInTime'
    BY <1>0, <1>4 DEF TakenInTime, Published, AcknowledgeItem
  <2> QED
    BY <2>1, <2>2, <2>3 DEF NoticeInv
<1>5. ASSUME NEW j \in Ticks, TickStep(j) \/ StopTick(j)
      PROVE  NoticeInv'
  <2> DEFINE Row == [pc : {"idle", "publish", "audit"}, todo : SUBSET Campaigns]
  <2>1. IdleTick \in Row
    BY DEF IdleTick
  <2>2. CASE PublishDueNoticeCampaigns(j)
    <3>1. NoticeTypeOK'
      BY <1>0, <2>2 DEF NoticeTypeOK, PublishDueNoticeCampaigns, Due
    <3>2. ReceiptsOwned'
      BY <1>0, <2>2 DEF ReceiptsOwned, PublishDueNoticeCampaigns
    <3>3. PICK S \in SUBSET Due : tick' = [tick EXCEPT ![j] = [pc |-> "publish", todo |-> S]]
      BY <2>2 DEF PublishDueNoticeCampaigns
    <3>4. TakenInTime'
      <4>1. notice' = notice /\ now' = now
        BY <2>2 DEF PublishDueNoticeCampaigns
      <4>2. tick'[j].todo = S /\ \A k \in Ticks \ {j} : tick'[k] = tick[k]
        BY <1>0, <3>3 DEF NoticeTypeOK
      <4> QED
        BY <1>0, <4>1, <4>2 DEF TakenInTime, Published, Due
    <3> QED
      BY <3>1, <3>2, <3>4 DEF NoticeInv
  <2>3. CASE Publish(j)
    <3>1. PICK c \in tick[j].todo :
            /\ notice' = [notice EXCEPT ![c].st = "PUBLISHED"]
            /\ tick' = [tick EXCEPT ![j] = [pc |-> "audit", todo |-> @.todo \ {c}]]
      BY <2>3 DEF Publish
    <3>2. c \in Campaigns /\ tick[j] \in Row
      BY <1>0 DEF NoticeTypeOK
    <3>3. NoticeTypeOK'
      <4>1. notice' \in [Campaigns -> Notice]
        BY <1>0, <3>1, <3>2 DEF NoticeTypeOK, Notice
      <4>2. [pc |-> "audit", todo |-> tick[j].todo \ {c}] \in Row
        BY <3>2
      <4>3. tick' \in [Ticks -> Row]
        BY <1>0, <3>1, <4>2 DEF NoticeTypeOK
      <4> QED
        BY <1>0, <2>3, <4>1, <4>3 DEF NoticeTypeOK, Publish
    <3>5. ReceiptsOwned'
      BY <1>0, <2>3 DEF ReceiptsOwned, Publish
    <3>6. \A d \in Campaigns : /\ notice'[d].at = notice[d].at
                               /\ d # c => notice'[d] = notice[d]
                               /\ notice[d].st # "NONE" => notice'[d].st # "NONE"
      BY <1>0, <3>1, <3>2 DEF NoticeTypeOK, Notice
    <3>7. now' = now /\ \A k \in Ticks : tick'[k].todo \subseteq tick[k].todo
      BY <1>0, <2>3, <3>1 DEF NoticeTypeOK, Publish
    <3>8. \A k \in Ticks : tick[k].todo \subseteq Campaigns
      BY <1>0 DEF NoticeTypeOK
    <3>9. TakenInTime'
      BY <1>0, <3>1, <3>2, <3>6, <3>7, <3>8 DEF TakenInTime, Published
    <3> QED
      BY <3>3, <3>5, <3>9 DEF NoticeInv
  <2>4. CASE AuditRefused(j) \/ StopTick(j)
    <3>1. NoticeTypeOK'
      BY <1>0, <2>1, <2>4, NoticeAssumption DEF NoticeTypeOK, AuditRefused, StopTick
    <3>2. ReceiptsOwned'
      BY <1>0, <2>4 DEF ReceiptsOwned, AuditRefused, StopTick
    <3>3. /\ notice' = notice /\ now' = now
          /\ \A k \in Ticks : tick'[k].todo \subseteq tick[k].todo
      BY <1>0, <2>4 DEF NoticeTypeOK, AuditRefused, StopTick, IdleTick
    <3>4. TakenInTime'
      BY <1>0, <3>3 DEF TakenInTime, Published
    <3> QED
      BY <3>1, <3>2, <3>4 DEF NoticeInv
  <2> QED
    BY <1>5, <2>2, <2>3, <2>4 DEF TickStep
<1>6. CASE PassTime
  <2>1. NoticeTypeOK'
    BY <1>0, <1>6, NoticeAssumption DEF NoticeTypeOK, PassTime, Times
  <2>2. ReceiptsOwned'
    BY <1>0, <1>6 DEF ReceiptsOwned, PassTime
  <2>3. /\ now \in Int /\ \A c \in Campaigns : notice[c].at \in Int
        /\ \A k \in Ticks : tick[k].todo \subseteq Campaigns
    BY <1>0 DEF NoticeTypeOK, Notice, Times
  <2>4. TakenInTime'
    BY <1>0, <1>6, <2>3 DEF TakenInTime, Published, PassTime
  <2> QED
    BY <2>1, <2>2, <2>4 DEF NoticeInv
<1>7. CASE UNCHANGED noticeVars
  BY <1>0, <1>7 DEF NoticeInv, NoticeTypeOK, ReceiptsOwned, TakenInTime, Published,
     noticeVars
<1> QED
  BY <1>1, <1>2, <1>3, <1>4, <1>5, <1>6, <1>7 DEF NoticeNext, NoticeRequest

\* A receipt is counted among the targets or is one that no target stands for.
LEMMA ReceiptsCounted == NoticeInv => ReceiptsWithinTargets
<1> SUFFICES ASSUME NoticeInv PROVE ReceiptsWithinTargets
  OBVIOUS
<1> DEFINE T == Targets
           U == Uncalled
<1>1. receipt \subseteq Accounts \X Items
  BY DEF NoticeInv, NoticeTypeOK
<1>2. ASSUME NEW r \in receipt PROVE r \in T \cup U
  <2>1. PICK a \in Accounts, i \in Items : r = <<a, i>>
    BY <1>1
  <2>2. account[a] \in {"ACTIVE", "INACTIVE"}
    BY <2>1 DEF NoticeInv, NoticeTypeOK, ReceiptsOwned
  <2>3. CASE account[a] = "ACTIVE" /\ i \in Published /\ Addressed(i, a)
    <3>1. AccountType[a] \in {"STUDENT", "PARENT"}
      BY NoticeAssumption
    <3>2. a \in ActiveOf(IF notice[i].audience = "BOTH" THEN {"STUDENT", "PARENT"}
                         ELSE {notice[i].audience})
      BY <2>3, <3>1 DEF Addressed, ActiveOf
    <3> QED
      BY <2>1, <2>3, <3>2 DEF Targets
  <2>4. CASE ~(account[a] = "ACTIVE" /\ i \in Published /\ Addressed(i, a))
    BY <2>1, <2>2, <2>4 DEF Uncalled
  <2> QED
    BY <2>3, <2>4
<1>3. IsFiniteSet(T) /\ IsFiniteSet(U)
  <2>1. IsFiniteSet(Items)
    BY NoticeAssumption, FS_Union DEF Items
  <2>2. IsFiniteSet(Accounts \X Items)
    BY <2>1, NoticeAssumption, FS_Product
  <2>3. T \subseteq Accounts \X Items /\ U \subseteq Accounts \X Items
    BY <1>1 DEF Targets, Published, Items, Uncalled
  <2> QED
    BY <2>2, <2>3, FS_Subset
<1> HIDE DEF T, U
<1>4. /\ IsFiniteSet(T \cup U)
      /\ Cardinality(T \cup U) = Cardinality(T) + Cardinality(U) - Cardinality(T \cap U)
  BY <1>3, FS_Union
<1>5. Cardinality(receipt) <= Cardinality(T \cup U)
  BY <1>2, <1>4, FS_Subset
<1>6. /\ Cardinality(receipt) \in Nat /\ Cardinality(T) \in Nat /\ Cardinality(U) \in Nat
      /\ Cardinality(T \cap U) \in Nat
  <2>1. receipt \subseteq T \cup U /\ T \cap U \subseteq T
    BY <1>2
  <2>2. IsFiniteSet(receipt) /\ IsFiniteSet(T \cap U)
    BY <1>3, <1>4, <2>1, FS_Subset
  <2> QED
    BY <1>3, <2>2, FS_CardinalityType
<1>7. Cardinality(receipt) <= Cardinality(T) + Cardinality(U)
  BY <1>4, <1>5, <1>6
<1> QED
  BY <1>7 DEF ReceiptsWithinTargets, T, U

\* What is out was due, so the latest is not ahead of the clock.
LEMMA NoneIsEarly == NoticeInv => NothingIsEarly
<1> SUFFICES ASSUME NoticeInv PROVE NothingIsEarly
  OBVIOUS
<1>1. \A c \in CampaignAnalytics.latest : notice[c].at <= now
  BY DEF NoticeInv, TakenInTime, CampaignAnalytics
<1>2. /\ now \in Int
      /\ \A c \in Campaigns : /\ notice[c].at \in Int
                              /\ notice[c].st \in {"NONE", "SCHEDULED", "PUBLISHED"}
  BY DEF NoticeInv, NoticeTypeOK, Notice, Times
<1>3. CampaignAnalytics.total \ (CampaignAnalytics.published \cup CampaignAnalytics.scheduled) = Due
  BY <1>2 DEF CampaignAnalytics, Published, Due
<1> QED
  BY <1>1, <1>3 DEF NothingIsEarly

\* The delivery analytics report more readers than targets only through receipts
\* of disabled accounts or for what was never a notice to the account, and no notice
\* is out before its time, whichever ticks overlap, fail or die (ai.service.ts:539,
\* :690, :1296).
THEOREM NoticesAlwaysSound == NoticeSpec => []NoticesSound
<1>1. NoticeInv => NoticesSound
  BY ReceiptsCounted, NoneIsEarly DEF NoticeInv, NoticesSound
<1> QED
  BY <1>1, NoticeInitInv, NoticeStepInv, PTL DEF NoticeSpec

=============================================================================
