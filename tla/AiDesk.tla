------------------------------- MODULE AiDesk -------------------------------
(***************************************************************************)
(* The AI assistance of one organization (AiService): answers generated by *)
(* a provider and the review queue a user keeps of them.                   *)
(*                                                                         *)
(* An answer is generated on the organization's own key or, during its     *)
(* trial, on the platform's key up to a daily limit that is counted in the *)
(* audit log.  The model lives within one day.                             *)
(*                                                                         *)
(* A browser tab saves its review queue as a whole, in a transaction at    *)
(* the database's default READ COMMITTED: a statement sees the rows        *)
(* committed before it began, and waits for a row that another transaction *)
(* has written until that one ends.                                        *)
(*                                                                         *)
(* A definition whose name is not used below is a faulty variant of the    *)
(* one that follows it, for the mutation runs.                             *)
(***************************************************************************)
EXTENDS Integers, FiniteSets

CONSTANTS
  Items,       \* ids of review queue items
  Tabs,        \* browser tabs of the user
  MaxSaves,    \* bound of the model: saves of the queue
  NoItem,      \* no row with this id
  Untouched,   \* the transaction has not written the row
  Askers,      \* requests for an answer under way at once
  TrialLimit,  \* GROQ_TRIAL_REQUEST_LIMIT
  MaxAsks      \* bound of the model: accepted requests

\* ARCHIVED is a third like these.
Statuses == {"DRAFT", "APPROVED"}

ASSUME AiAssumption ==
  /\ MaxSaves \in Nat /\ MaxAsks \in Nat
  /\ TrialLimit \in Nat \ {0}
  /\ NoItem # Untouched
  /\ NoItem \notin Statuses /\ Untouched \notin Statuses

VARIABLES
  queue,     \* rows of the user's queue, committed
  tab,       \* tabs: what each lists, and its open save
  saves,     \* saves so far (bounds the model)
  crossing,  \* items that others committed during the open save of a tab (history)
  access,    \* what the organization generates with
  audit,     \* how many audit rows there are of each kind
  ask,       \* requests for an answer
  asks,      \* accepted so far (bounds the model)
  answers    \* answers given on the trial (history)

queueVars == <<queue, tab, saves, crossing>>
answerVars == <<access, audit, ask, asks, answers>>
aiVars == <<queueVars, answerVars>>

Payloads == UNION {[S -> Statuses] : S \in SUBSET Items}

Nothing == [i \in {} |-> "DRAFT"]

Clean == [i \in Items |-> Untouched]

\* seen is the list the tab shows, items its payload, gone and left what the
\* transaction still has to delete and to put, wrote what it has written.
EmptyTab == [pc |-> "idle", seen |-> {}, items |-> Nothing, gone |-> {}, left |-> {},
             wrote |-> Clean]

Tab == [pc : {"idle", "open", "saved"}, seen : SUBSET Items, items : Payloads,
        gone : SUBSET Items, left : SUBSET Items,
        wrote : [Items -> Statuses \cup {NoItem, Untouched}]]

AuditRows == [action : {"generation", "trial-generation"}, org : {"organization", "none"}]

IdleAsker == [pc |-> "idle", trial |-> FALSE]

Asker == [pc : {"idle", "asking", "log", "logTrial"}, trial : BOOLEAN]

AiTypeOK ==
  /\ queue \in [Items -> Statuses \cup {NoItem}]
  /\ tab \in [Tabs -> Tab]
  /\ saves \in Nat
  /\ crossing \in [Tabs -> SUBSET Items]
  /\ access \in {"key", "trial", "none"}
  /\ audit \in [AuditRows -> Nat]
  /\ ask \in [Askers -> Asker]
  /\ asks \in Nat /\ answers \in Nat
  /\ \A i \in Items, t, u \in Tabs :
       tab[t].wrote[i] # Untouched /\ tab[u].wrote[i] # Untouched => t = u

AiInit ==
  /\ queue = [i \in Items |-> NoItem]
  /\ tab = [t \in Tabs |-> EmptyTab]
  /\ saves = 0
  /\ crossing = [t \in Tabs |-> {}]
  /\ access \in {"key", "trial", "none"}
  /\ audit = [row \in AuditRows |-> 0]
  /\ ask = [a \in Askers |-> IdleAsker]
  /\ asks = 0
  /\ answers = 0

-----------------------------------------------------------------------------
(* The review queue. *)

Listed == {i \in Items : queue[i] # NoItem}

\* An id that no row has and no tab knows: an item without an id gets one.
Fresh(i) ==
  queue[i] = NoItem /\ \A t \in Tabs : i \notin tab[t].seen /\ i \notin DOMAIN tab[t].items

Locked(t, i) == \E u \in Tabs \ {t} : tab[u].wrote[i] # Untouched

\* Nothing is deleted for a payload without known ids.
MissingOfKnown(t, items) ==
  IF DOMAIN items \cap tab[t].seen = {} THEN {} ELSE Listed \ DOMAIN items

\* The rows deleteMany finds: all but those whose ids the payload gives.
Missing(t, items) == Listed \ DOMAIN items

\* listReviewQueue
ListReviewQueue(t) ==
  /\ tab[t].pc = "idle"
  /\ tab[t].seen # Listed
  /\ tab' = [tab EXCEPT ![t].seen = Listed]
  /\ UNCHANGED <<queue, saves, crossing>>

\* The transaction begins with deleteMany.  Ids come from the tab's list,
\* however old.
OpenSave(t, items) ==
  /\ tab[t].pc = "idle"
  /\ saves < MaxSaves
  /\ \A i \in DOMAIN items : i \in tab[t].seen \/ Fresh(i)
  /\ saves' = saves + 1
  /\ tab' = [tab EXCEPT ![t].pc = "open", ![t].items = items,
                        ![t].gone = Missing(t, items), ![t].left = DOMAIN items]
  /\ crossing' = [crossing EXCEPT ![t] = {}]
  /\ UNCHANGED queue

\* One row of deleteMany: a row that is gone by now is passed over.
DeleteItem(t, i) ==
  /\ tab[t].pc = "open"
  /\ i \in tab[t].gone
  /\ ~Locked(t, i)
  /\ tab' = [tab EXCEPT ![t].gone = @ \ {i},
                        ![t].wrote[i] = IF queue[i] = NoItem THEN @ ELSE NoItem]
  /\ UNCHANGED <<queue, saves, crossing>>

\* upsert of an item with an id, create of one without: the row is written
\* whether or not it is still there.
PutItem(t, i) ==
  /\ tab[t].pc = "open"
  /\ tab[t].gone = {}
  /\ i \in tab[t].left
  /\ ~Locked(t, i)
  /\ tab' = [tab EXCEPT ![t].left = @ \ {i}, ![t].wrote[i] = tab[t].items[i]]
  /\ UNCHANGED <<queue, saves, crossing>>

CommitSave(t) ==
  LET wrote == tab[t].wrote
      put == {i \in Items : wrote[i] \in Statuses}
  IN /\ tab[t].pc = "open"
     /\ tab[t].gone = {} /\ tab[t].left = {}
     /\ queue' = [i \in Items |-> IF wrote[i] = Untouched THEN queue[i] ELSE wrote[i]]
     /\ tab' = [tab EXCEPT ![t].pc = "saved", ![t].wrote = Clean]
     /\ crossing' = [u \in Tabs |-> IF u # t /\ tab[u].pc = "open" THEN crossing[u] \cup put
                                    ELSE crossing[u]]
     /\ UNCHANGED saves

\* The tab shows what is there once its save is committed.
ReadBack(t) ==
  /\ tab[t].pc = "saved"
  /\ tab' = [tab EXCEPT ![t] = [EmptyTab EXCEPT !.seen = Listed]]
  /\ crossing' = [crossing EXCEPT ![t] = {}]
  /\ UNCHANGED <<queue, saves>>

\* The connection is lost, or the database breaks a deadlock: all is undone.
RollBack(t) ==
  /\ tab[t].pc = "open"
  /\ tab' = [tab EXCEPT ![t] = [EmptyTab EXCEPT !.seen = tab[t].seen]]
  /\ crossing' = [crossing EXCEPT ![t] = {}]
  /\ UNCHANGED <<queue, saves>>

QueueStep(t) ==
  \/ ListReviewQueue(t)
  \/ \E items \in Payloads : OpenSave(t, items)
  \/ \E i \in Items : DeleteItem(t, i) \/ PutItem(t, i)
  \/ CommitSave(t) \/ ReadBack(t) \/ RollBack(t)

QueueNext == UNCHANGED answerVars /\ \E t \in Tabs : QueueStep(t)

-----------------------------------------------------------------------------
(* Answers. *)

\* A row as AuditLogPrismaRepository.create writes it: it sets no organization.
CreateAudit(action) == audit' = [audit EXCEPT ![[action |-> action, org |-> "none"]] = @ + 1]

\* assertTrialAiLimitNotExceeded counts the rows of the organization.
TrialGenerationCount == audit[[action |-> "trial-generation", org |-> "organization"]]

\* resolveContext: on the organization's key, or on the trial up to the limit.
ResolveContext(a) ==
  /\ ask[a].pc = "idle"
  /\ asks < MaxAsks
  /\ access # "none"
  /\ access = "trial" => TrialGenerationCount < TrialLimit
  /\ ask' = [ask EXCEPT ![a] = [pc |-> "asking", trial |-> access = "trial"]]
  /\ asks' = asks + 1
  /\ UNCHANGED <<access, audit, answers>>

\* The provider answers with text that parses.
Parsed(a) ==
  /\ ask[a].pc = "asking"
  /\ ask' = [ask EXCEPT ![a].pc = "log"]
  /\ UNCHANGED <<access, audit, asks, answers>>

LogGeneration(a) ==
  /\ ask[a].pc = "log"
  /\ CreateAudit("generation")
  /\ ask' = [ask EXCEPT ![a] = IF @.trial THEN [@ EXCEPT !.pc = "logTrial"] ELSE IdleAsker]
  /\ UNCHANGED <<access, asks, answers>>

\* The answer on the trial is logged a second time and returned.
LogTrialGeneration(a) ==
  /\ ask[a].pc = "logTrial"
  /\ CreateAudit("trial-generation")
  /\ ask' = [ask EXCEPT ![a] = IdleAsker]
  /\ answers' = answers + 1
  /\ UNCHANGED <<access, asks>>

\* The provider fails or answers what does not parse, or an audit row cannot
\* be written, which is reported the same way.
GiveUp(a) ==
  /\ ask[a].pc # "idle"
  /\ ask' = [ask EXCEPT ![a] = IdleAsker]
  /\ UNCHANGED <<access, audit, asks, answers>>

\* The organization starts or ends paying for a key, or its trial ends.
ChangeAccess ==
  /\ access' \in {"key", "trial", "none"} \ {access}
  /\ access' = "trial" => access = "key"
  /\ UNCHANGED <<audit, ask, asks, answers>>

AnswerNext ==
  /\ UNCHANGED queueVars
  /\ \/ \E a \in Askers :
          ResolveContext(a) \/ Parsed(a) \/ LogGeneration(a) \/ LogTrialGeneration(a) \/ GiveUp(a)
     \/ ChangeAccess

AiSpec == AiInit /\ [][QueueNext \/ AnswerNext]_aiVars

-----------------------------------------------------------------------------
(* Properties. *)

\* A committed save has put all its items as given, and beside them the queue
\* holds only what other saves committed while it was open: the queue is
\* "replaced" (ai.controller.ts:136) but for saves that overlap
\* (ai.service.ts:897).
SaveReplacesQueue ==
  [][\A t \in Tabs : tab[t].pc = "open" /\ tab'[t].pc = "saved" =>
       /\ \A i \in DOMAIN tab[t].items : queue'[i] = tab[t].items[i]
       /\ Listed' \subseteq DOMAIN tab[t].items \cup crossing[t]]_aiVars

\* On the trial no request is accepted once the day's answers have reached the
\* limit: "Trial AI daily limit reached" (ai.service.ts:1781).
TrialLimitHolds ==
  [][\A a \in Askers : ask[a].pc = "idle" /\ ask'[a].pc = "asking" /\ ask'[a].trial
                         => answers < TrialLimit]_aiVars
=============================================================================
