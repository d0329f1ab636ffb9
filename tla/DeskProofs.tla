----------------------------- MODULE DeskProofs -----------------------------
(***************************************************************************)
(* What three desks promise for any number of jobs, requests, tabs and     *)
(* rows: the AI review queue with the AI answers, the two daily            *)
(* follow-ups, and the mail of an organization.                            *)
(***************************************************************************)
EXTENDS FollowUps, MailDesk, AiDesk, TLAPS

-----------------------------------------------------------------------------
(* The AI review queue. *)

\* What an open save knows: it has put what is no longer left as given and
\* nothing else, and whatever is listed it is to delete, has deleted, has in
\* its payload or was committed by another meanwhile.
Sound(x, listed, others) ==
  /\ x.left \subseteq DOMAIN x.items
  /\ x.gone \cap DOMAIN x.items = {}
  /\ \A i \in DOMAIN x.items \ x.left : x.wrote[i] = x.items[i]
  /\ \A i \in Items : x.wrote[i] \in Statuses => i \in DOMAIN x.items
  /\ \A i \in listed : i \in x.gone \/ x.wrote[i] = NoItem \/ i \in DOMAIN x.items \/ i \in others

OpenSaveSound(t) == tab[t].pc = "open" => Sound(tab[t], Listed, crossing[t])

QueueInv ==
  /\ AiTypeOK
  /\ \A t \in Tabs : OpenSaveSound(t) /\ (tab[t].pc # "open" => tab[t].wrote = Clean)

LEMMA PayloadDomain ==
  ASSUME NEW items \in Payloads
  PROVE  DOMAIN items \subseteq Items /\ \A i \in DOMAIN items : items[i] \in Statuses
  BY DEF Payloads

LEMMA NothingIsPayload == Nothing \in Payloads
<1>1. Nothing \in [{} -> Statuses]
  BY DEF Nothing, Statuses
<1> QED
  BY <1>1 DEF Payloads

LEMMA EmptyTabTyped ==
  ASSUME NEW S \in SUBSET Items
  PROVE  [EmptyTab EXCEPT !.seen = S] \in Tab
  BY NothingIsPayload DEF EmptyTab, Tab, Clean

LEMMA AiInitSound == AiInit => QueueInv
<1> SUFFICES ASSUME AiInit PROVE QueueInv
  OBVIOUS
<1>1. EmptyTab \in Tab
  BY NothingIsPayload DEF EmptyTab, Tab, Clean
<1>2. AiTypeOK
  BY <1>1 DEF AiInit, AiTypeOK, IdleAsker, Asker, EmptyTab, Clean
<1>3. ASSUME NEW t \in Tabs PROVE tab[t].pc # "open" /\ tab[t].wrote = Clean
  BY DEF AiInit, EmptyTab
<1> QED
  BY <1>2, <1>3 DEF QueueInv, OpenSaveSound

\* A step of tab t that leaves the queue and the crossings of the others alone.
LEMMA TabStep ==
  ASSUME QueueInv, NEW t \in Tabs, NEW x \in Tab,
         tab' = [tab EXCEPT ![t] = x],
         UNCHANGED <<queue, answerVars>>, saves' \in Nat,
         crossing' \in [Tabs -> SUBSET Items],
         \A u \in Tabs \ {t} : crossing'[u] = crossing[u],
         \A i \in Items : x.wrote[i] # Untouched => tab[t].wrote[i] # Untouched \/ ~Locked(t, i),
         OpenSaveSound(t)', x.pc # "open" => x.wrote = Clean
  PROVE  QueueInv'
<1> USE DEF QueueInv
<1>1. tab' \in [Tabs -> Tab] /\ tab'[t] = x /\ \A u \in Tabs \ {t} : tab'[u] = tab[u]
  BY DEF AiTypeOK
<1>2. \A i \in Items, u, v \in Tabs :
        tab'[u].wrote[i] # Untouched /\ tab'[v].wrote[i] # Untouched => u = v
  BY <1>1 DEF AiTypeOK, Locked
<1>3. AiTypeOK'
  BY <1>1, <1>2 DEF AiTypeOK, answerVars
<1>4. Listed' = Listed
  BY DEF Listed
<1>5. ASSUME NEW u \in Tabs
      PROVE  OpenSaveSound(u)' /\ (tab'[u].pc # "open" => tab'[u].wrote = Clean')
  <2>1. Clean' = Clean
    BY DEF Clean
  <2>2. CASE u = t
    BY <2>1, <2>2, <1>1
  <2>3. CASE u # t
    <3>1. tab'[u] = tab[u] /\ crossing'[u] = crossing[u]
      BY <2>3, <1>1
    <3>2. OpenSaveSound(u) /\ (tab[u].pc # "open" => tab[u].wrote = Clean)
      OBVIOUS
    <3> QED
      BY <2>1, <3>1, <3>2, <1>4 DEF OpenSaveSound
  <2> QED
    BY <2>2, <2>3
<1> QED
  BY <1>3, <1>5

LEMMA ListKeeps ==
  ASSUME QueueInv, UNCHANGED answerVars, NEW t \in Tabs, ListReviewQueue(t)
  PROVE  QueueInv'
<1> DEFINE x == [tab[t] EXCEPT !.seen = Listed]
<1>1. x \in Tab /\ tab' = [tab EXCEPT ![t] = x]
  BY DEF QueueInv, AiTypeOK, ListReviewQueue, Tab, Listed
<1>2. x.pc # "open" /\ x.wrote = Clean
  BY DEF QueueInv, AiTypeOK, ListReviewQueue, Tab
<1>3. \A i \in Items : x.wrote[i] = Untouched
  BY <1>2 DEF Clean
<1>4. UNCHANGED <<queue, answerVars>> /\ saves' \in Nat /\ crossing' = crossing
      /\ crossing' \in [Tabs -> SUBSET Items]
  BY DEF ListReviewQueue, QueueInv, AiTypeOK
<1> HIDE DEF x
<1>5. OpenSaveSound(t)'
  BY <1>1, <1>2 DEF OpenSaveSound, QueueInv, AiTypeOK
<1> QED
  BY <1>1, <1>2, <1>3, <1>4, <1>5, TabStep

LEMMA OpenKeeps ==
  ASSUME QueueInv, UNCHANGED answerVars, NEW t \in Tabs, NEW items \in Payloads,
         OpenSave(t, items)
  PROVE  QueueInv'
<1> DEFINE x == [tab[t] EXCEPT !.pc = "open", !.items = items, !.gone = Missing(t, items),
                               !.left = DOMAIN items]
<1>0. tab[t] \in Tab /\ DOMAIN items \subseteq Items /\ Missing(t, items) \subseteq Items
  BY PayloadDomain DEF QueueInv, AiTypeOK, Missing, Listed
<1>1. x \in Tab /\ tab' = [tab EXCEPT ![t] = x]
  BY <1>0 DEF QueueInv, AiTypeOK, OpenSave, Tab
<1>2. x.pc = "open" /\ x.items = items /\ x.gone = Listed \ DOMAIN items /\ x.left = DOMAIN items
      /\ x.wrote = Clean
  BY <1>0 DEF QueueInv, OpenSave, Tab, Missing
<1>3. \A i \in Items : x.wrote[i] = Untouched
  BY <1>2 DEF Clean
<1>5. UNCHANGED <<queue, answerVars>> /\ saves' \in Nat /\ crossing' \in [Tabs -> SUBSET Items]
      /\ \A u \in Tabs \ {t} : crossing'[u] = crossing[u]
  BY DEF OpenSave, QueueInv, AiTypeOK
<1> HIDE DEF x
<1>6. Sound(x, Listed, crossing'[t])
  BY <1>2, <1>3, AiAssumption DEF Sound
<1>7. OpenSaveSound(t)'
  <2>1. tab'[t] = x
    BY <1>1 DEF QueueInv, AiTypeOK
  <2>2. Listed' = Listed
    BY <1>5 DEF Listed
  <2> QED
    BY <1>6, <2>1, <2>2 DEF OpenSaveSound
<1> QED
  BY <1>1, <1>2, <1>3, <1>5, <1>7, TabStep

LEMMA DeleteKeeps ==
  ASSUME QueueInv, UNCHANGED answerVars, NEW t \in Tabs, NEW i \in Items, DeleteItem(t, i)
  PROVE  QueueInv'
<1> DEFINE w == IF queue[i] = NoItem THEN tab[t].wrote[i] ELSE NoItem
           x == [tab[t] EXCEPT !.gone = @ \ {i}, !.wrote = [@ EXCEPT ![i] = w]]
<1>0. tab[t] \in Tab /\ w \in Statuses \cup {NoItem, Untouched}
  BY DEF QueueInv, AiTypeOK, Tab
<1>1. x \in Tab /\ tab' = [tab EXCEPT ![t] = x]
  BY <1>0 DEF QueueInv, AiTypeOK, DeleteItem, Tab
<1>2. x.pc = "open" /\ x.left = tab[t].left /\ x.items = tab[t].items
      /\ x.gone = tab[t].gone \ {i}
  BY <1>0 DEF DeleteItem, Tab
<1>3. x.wrote[i] = w /\ \A k \in Items \ {i} : x.wrote[k] = tab[t].wrote[k]
  BY <1>0 DEF Tab
<1>4. UNCHANGED <<queue, answerVars>> /\ saves' \in Nat /\ crossing' = crossing
      /\ crossing' \in [Tabs -> SUBSET Items] /\ ~Locked(t, i)
  BY DEF DeleteItem, QueueInv, AiTypeOK
<1>5. Sound(tab[t], Listed, crossing[t]) /\ i \in tab[t].gone /\ i \notin DOMAIN tab[t].items
  BY DEF QueueInv, DeleteItem, OpenSaveSound, Sound
<1> HIDE DEF x
<1>6. Sound(x, Listed, crossing'[t])
  <2> USE <1>2, <1>3, <1>4, <1>5, AiAssumption DEF Sound
  <2>1. x.left \subseteq DOMAIN x.items
    OBVIOUS
  <2>2. \A k \in DOMAIN x.items \ x.left : x.wrote[k] = x.items[k]
    BY <1>0, PayloadDomain DEF Tab
  <2>3. \A k \in Items : x.wrote[k] \in Statuses => k \in DOMAIN x.items
    OBVIOUS
  <2>4. \A k \in Listed : k \in x.gone \/ x.wrote[k] = NoItem \/ k \in DOMAIN x.items
                            \/ k \in crossing[t]
    BY <1>0 DEF Listed
  <2>5. x.gone \cap DOMAIN x.items = {}
    OBVIOUS
  <2> QED
    BY <2>1, <2>2, <2>3, <2>4, <2>5
<1>7. OpenSaveSound(t)'
  <2>1. tab'[t] = x
    BY <1>1 DEF QueueInv, AiTypeOK
  <2>2. Listed' = Listed
    BY <1>4 DEF Listed
  <2> QED
    BY <1>6, <2>1, <2>2 DEF OpenSaveSound
<1> QED
  BY <1>1, <1>2, <1>3, <1>4, <1>7, TabStep

LEMMA PutKeeps ==
  ASSUME QueueInv, UNCHANGED answerVars, NEW t \in Tabs, NEW i \in Items, PutItem(t, i)
  PROVE  QueueInv'
<1> DEFINE w == tab[t].items[i]
           x == [tab[t] EXCEPT !.left = @ \ {i}, !.wrote = [@ EXCEPT ![i] = w]]
<1>5. tab[t] \in Tab /\ Sound(tab[t], Listed, crossing[t])
      /\ i \in tab[t].left /\ i \in DOMAIN tab[t].items /\ tab[t].gone = {}
  BY DEF QueueInv, AiTypeOK, PutItem, OpenSaveSound, Sound
<1>0. w \in Statuses
  BY <1>5, PayloadDomain DEF Tab
<1>1. x \in Tab /\ tab' = [tab EXCEPT ![t] = x]
  BY <1>0, <1>5 DEF QueueInv, AiTypeOK, PutItem, Tab
<1>2. x.pc = "open" /\ x.left = tab[t].left \ {i} /\ x.items = tab[t].items
      /\ x.gone = {}
  BY <1>5 DEF PutItem, Tab
<1>3. x.wrote[i] = w /\ \A k \in Items \ {i} : x.wrote[k] = tab[t].wrote[k]
  BY <1>5 DEF Tab
<1>4. UNCHANGED <<queue, answerVars>> /\ saves' \in Nat /\ crossing' = crossing
      /\ crossing' \in [Tabs -> SUBSET Items] /\ ~Locked(t, i)
  BY DEF PutItem, QueueInv, AiTypeOK
<1> HIDE DEF x
<1>6. Sound(x, Listed, crossing'[t])
  <2> USE <1>2, <1>3, <1>4, <1>5, AiAssumption DEF Sound
  <2>1. x.left \subseteq DOMAIN x.items
    OBVIOUS
  <2>2. \A k \in DOMAIN x.items \ x.left : x.wrote[k] = x.items[k]
    BY PayloadDomain DEF Tab
  <2>3. \A k \in Items : x.wrote[k] \in Statuses => k \in DOMAIN x.items
    OBVIOUS
  <2>4. \A k \in Listed : k \in x.gone \/ x.wrote[k] = NoItem \/ k \in DOMAIN x.items
                            \/ k \in crossing[t]
    BY <1>0 DEF Listed
  <2>5. x.gone \cap DOMAIN x.items = {}
    OBVIOUS
  <2> QED
    BY <2>1, <2>2, <2>3, <2>4, <2>5
<1>7. OpenSaveSound(t)'
  <2>1. tab'[t] = x
    BY <1>1 DEF QueueInv, AiTypeOK
  <2>2. Listed' = Listed
    BY <1>4 DEF Listed
  <2> QED
    BY <1>6, <2>1, <2>2 DEF OpenSaveSound
<1> QED
  BY <1>1, <1>2, <1>3, <1>4, <1>7, TabStep

\* ReadBack and RollBack leave the tab empty but for what it shows.
LEMMA EndKeeps ==
  ASSUME QueueInv, UNCHANGED answerVars, NEW t \in Tabs, ReadBack(t) \/ RollBack(t)
  PROVE  QueueInv'
<1>1. PICK S \in SUBSET Items : tab' = [tab EXCEPT ![t] = [EmptyTab EXCEPT !.seen = S]]
  BY DEF QueueInv, AiTypeOK, ReadBack, RollBack, Listed, Tab
<1> DEFINE x == [EmptyTab EXCEPT !.seen = S]
<1>2. x \in Tab
  BY EmptyTabTyped
<1>3. x.pc # "open" /\ x.wrote = Clean
  BY DEF EmptyTab
<1>4. \A i \in Items : x.wrote[i] = Untouched
  BY <1>3 DEF Clean
<1>5. UNCHANGED <<queue, answerVars>> /\ saves' \in Nat /\ crossing' \in [Tabs -> SUBSET Items]
      /\ \A u \in Tabs \ {t} : crossing'[u] = crossing[u]
  BY DEF ReadBack, RollBack, QueueInv, AiTypeOK
<1>6. tab' = [tab EXCEPT ![t] = x]
  BY <1>1
<1> HIDE DEF x
<1>7. OpenSaveSound(t)'
  BY <1>3, <1>6 DEF OpenSaveSound, QueueInv, AiTypeOK
<1> QED
  BY <1>2, <1>3, <1>4, <1>5, <1>6, <1>7, TabStep

LEMMA CommitKeeps ==
  ASSUME QueueInv, UNCHANGED answerVars, NEW t \in Tabs, CommitSave(t)
  PROVE  QueueInv'
<1> DEFINE wrote == tab[t].wrote
<1>1. tab \in [Tabs -> Tab] /\ wrote \in [Items -> Statuses \cup {NoItem, Untouched}]
  BY DEF QueueInv, AiTypeOK, Tab
<1>2. tab' = [tab EXCEPT ![t].pc = "saved", ![t].wrote = Clean]
  BY DEF CommitSave
<1>3. /\ tab'[t] \in Tab /\ tab'[t].pc = "saved" /\ tab'[t].wrote = Clean
      /\ \A u \in Tabs \ {t} : tab'[u] = tab[u]
  BY <1>1, <1>2 DEF Tab, Clean
<1>4. tab' \in [Tabs -> Tab]
  BY <1>1, <1>2, <1>3
<1>5. queue' \in [Items -> Statuses \cup {NoItem}]
      /\ \A i \in Items : queue'[i] = IF wrote[i] = Untouched THEN queue[i] ELSE wrote[i]
  BY <1>1 DEF CommitSave, QueueInv, AiTypeOK
<1>6. crossing' \in [Tabs -> SUBSET Items]
      /\ \A u \in Tabs \ {t} : tab[u].pc = "open"
           => crossing'[u] = crossing[u] \cup {i \in Items : wrote[i] \in Statuses}
  BY DEF CommitSave, QueueInv, AiTypeOK
<1>7. \A i \in Items, u, v \in Tabs :
        tab'[u].wrote[i] # Untouched /\ tab'[v].wrote[i] # Untouched => u = v
  BY <1>3 DEF QueueInv, AiTypeOK, Clean
<1>8. AiTypeOK'
  BY <1>4, <1>5, <1>6, <1>7 DEF AiTypeOK, QueueInv, CommitSave, answerVars
<1>9. ASSUME NEW u \in Tabs \ {t}, tab[u].pc = "open"
      PROVE  Sound(tab[u], Listed', crossing'[u])
  <2>1. Sound(tab[u], Listed, crossing[u])
    BY <1>9 DEF QueueInv, OpenSaveSound
  <2>2. \A i \in Listed' : i \in Listed \/ i \in crossing'[u]
    BY <1>1, <1>5, <1>6, <1>9 DEF Listed
  <2>3. crossing[u] \subseteq crossing'[u]
    BY <1>6, <1>9
  <2> QED
    BY <2>1, <2>2, <2>3 DEF Sound
<1>10. ASSUME NEW u \in Tabs
       PROVE  OpenSaveSound(u)' /\ (tab'[u].pc # "open" => tab'[u].wrote = Clean')
  <2>1. Clean' = Clean
    BY DEF Clean
  <2>2. CASE u = t
    BY <2>1, <2>2, <1>3 DEF OpenSaveSound
  <2>3. CASE u # t /\ tab[u].pc = "open"
    BY <2>3, <1>3, <1>9 DEF OpenSaveSound
  <2>4. CASE u # t /\ tab[u].pc # "open"
    BY <2>1, <2>4, <1>3 DEF OpenSaveSound, QueueInv
  <2> QED
    BY <2>2, <2>3, <2>4
<1> QED
  BY <1>8, <1>10 DEF QueueInv

LEMMA AnswersTyped ==
  ASSUME QueueInv, AnswerNext
  PROVE  /\ access' \in {"key", "trial", "none"} /\ audit' \in [AuditRows -> Nat]
         /\ ask' \in [Askers -> Asker] /\ asks' \in Nat /\ answers' \in Nat
<1> USE DEF QueueInv, AiTypeOK
<1> DEFINE Typed == /\ access' \in {"key", "trial", "none"} /\ audit' \in [AuditRows -> Nat]
                    /\ ask' \in [Askers -> Asker] /\ asks' \in Nat /\ answers' \in Nat
<1>1. ASSUME NEW a \in Askers, ResolveContext(a) PROVE Typed
  <2>1. [pc |-> "asking", trial |-> access = "trial"] \in Asker
    BY DEF Asker
  <2> QED
    BY <1>1, <2>1 DEF ResolveContext
<1>2. IdleAsker \in Asker
  BY DEF IdleAsker, Asker
<1>3. ASSUME NEW a \in Askers, Parsed(a) \/ GiveUp(a) PROVE Typed
  <2>1. [ask[a] EXCEPT !.pc = "log"] \in Asker
    BY DEF Asker
  <2>2. ask' \in [Askers -> Asker]
    BY <1>2, <1>3, <2>1 DEF Parsed, GiveUp
  <2> QED
    BY <1>3, <2>2 DEF Parsed, GiveUp
<1>4. ASSUME NEW action \in {"generation", "trial-generation"}, CreateAudit(action)
      PROVE  audit' \in [AuditRows -> Nat]
  <2>1. [action |-> action, org |-> "none"] \in AuditRows
    BY DEF AuditRows
  <2> QED
    BY <1>4, <2>1 DEF CreateAudit
<1>5. ASSUME NEW a \in Askers, LogGeneration(a) PROVE Typed
  <2>1. audit' \in [AuditRows -> Nat]
    BY <1>4, <1>5 DEF LogGeneration
  <2>2. ask' \in [Askers -> Asker]
    BY <1>2, <1>5 DEF LogGeneration, Asker
  <2> QED
    BY <1>5, <2>1, <2>2 DEF LogGeneration
<1>6. ASSUME NEW a \in Askers, LogTrialGeneration(a) PROVE Typed
  BY <1>2, <1>4, <1>6 DEF LogTrialGeneration
<1>7. ChangeAccess => Typed
  BY DEF ChangeAccess
<1> QED
  BY <1>1, <1>3, <1>5, <1>6, <1>7 DEF AnswerNext

LEMMA AiStepKeeps ==
  ASSUME QueueInv, [QueueNext \/ AnswerNext]_aiVars
  PROVE  QueueInv'
<1>1. CASE QueueNext
  BY <1>1, ListKeeps, OpenKeeps, DeleteKeeps, PutKeeps, EndKeeps, CommitKeeps
  DEF QueueNext, QueueStep
<1>2. CASE AnswerNext
  <2>1. UNCHANGED queueVars
    BY <1>2 DEF AnswerNext
  <2>2. access' \in {"key", "trial", "none"} /\ audit' \in [AuditRows -> Nat]
        /\ ask' \in [Askers -> Asker] /\ asks' \in Nat /\ answers' \in Nat
    BY <1>2, AnswersTyped
  <2> QED
    BY <2>1, <2>2 DEF QueueInv, AiTypeOK, queueVars, OpenSaveSound, Sound, Listed, Clean
<1>3. CASE UNCHANGED aiVars
  BY <1>3 DEF aiVars, queueVars, answerVars, QueueInv, AiTypeOK, OpenSaveSound, Sound, Listed, Clean
<1> QED
  BY <1>1, <1>2, <1>3
LEMMA QueueInvHolds == AiSpec => []QueueInv
  BY AiInitSound, AiStepKeeps, PTL DEF AiSpec

\* The queue, the tabs with what their transactions have written, and the
\* requests for answers keep their types, and no row is written by two
\* transactions at once (ai.service.ts:851).
THEOREM AiTypeCorrect == AiSpec => []AiTypeOK
<1>1. QueueInv => AiTypeOK
  BY DEF QueueInv
<1> QED
  BY <1>1, QueueInvHolds, PTL

\* However saves overlap, a committed save has its items in the queue, and
\* beside them only what others committed while it was open (ai.service.ts:851).
THEOREM SavesReplace == AiSpec => SaveReplacesQueue
<1> DEFINE Replaces(t) ==
      tab[t].pc = "open" /\ tab'[t].pc = "saved" =>
        /\ \A i \in DOMAIN tab[t].items : queue'[i] = tab[t].items[i]
        /\ Listed' \subseteq DOMAIN tab[t].items \cup crossing[t]
<1>1. ASSUME QueueInv, NEW t \in Tabs, tab[t].pc = "open", tab'[t].pc = "saved",
             QueueNext \/ AnswerNext
      PROVE  CommitSave(t)
  <2>1. tab \in [Tabs -> Tab]
    BY <1>1 DEF QueueInv, AiTypeOK
  <2>2. PICK u \in Tabs : QueueStep(u)
    BY <1>1 DEF QueueNext, AnswerNext, queueVars
  <2>3. \A i \in Items : ~DeleteItem(u, i) /\ ~PutItem(u, i)
    BY <1>1, <2>1 DEF DeleteItem, PutItem, Tab
  <2>4. \A items \in Payloads : ~OpenSave(u, items)
    BY <1>1, <2>1 DEF OpenSave, Tab
  <2>5. ~ListReviewQueue(u) /\ ~ReadBack(u) /\ ~RollBack(u)
    BY <1>1, <2>1 DEF ListReviewQueue, ReadBack, RollBack, Tab, EmptyTab
  <2>6. CommitSave(u)
    BY <2>2, <2>3, <2>4, <2>5 DEF QueueStep
  <2> QED
    BY <1>1, <2>1, <2>6 DEF CommitSave, Tab
<1>2. ASSUME QueueInv, NEW t \in Tabs, CommitSave(t)
      PROVE  /\ \A i \in DOMAIN tab[t].items : queue'[i] = tab[t].items[i]
             /\ Listed' \subseteq DOMAIN tab[t].items \cup crossing[t]
  <2> DEFINE x == tab[t]
  <2>1. x \in Tab /\ Sound(x, Listed, crossing[t]) /\ x.gone = {} /\ x.left = {}
    BY <1>2 DEF QueueInv, AiTypeOK, CommitSave, OpenSaveSound
  <2>2. DOMAIN x.items \subseteq Items /\ \A i \in DOMAIN x.items : x.items[i] \in Statuses
    BY <2>1, PayloadDomain DEF Tab
  <2>3. \A i \in Items : queue'[i] = IF x.wrote[i] = Untouched THEN queue[i] ELSE x.wrote[i]
    BY <1>2 DEF CommitSave
  <2>4. \A i \in Items : x.wrote[i] \in Statuses \cup {NoItem, Untouched}
    BY <2>1 DEF Tab
  <2> HIDE DEF x
  <2>5. \A i \in DOMAIN x.items : x.wrote[i] = x.items[i]
    BY <2>1 DEF Sound
  <2>6. \A i \in DOMAIN x.items : queue'[i] = x.items[i]
    BY <2>2, <2>3, <2>5, AiAssumption
  <2>7. ASSUME NEW i \in Listed' PROVE i \in DOMAIN x.items \/ i \in crossing[t]
    <3>1. i \in Items /\ queue'[i] # NoItem
      BY DEF Listed
    <3>2. CASE x.wrote[i] = Untouched
      <4>1. i \in Listed /\ x.wrote[i] # NoItem
        BY <2>3, <3>1, <3>2, AiAssumption DEF Listed
      <4> QED
        BY <2>1, <4>1 DEF Sound
    <3>3. CASE x.wrote[i] # Untouched
      <4>1. x.wrote[i] \in Statuses
        BY <2>3, <2>4, <3>1, <3>3
      <4> QED
        BY <2>1, <3>1, <4>1 DEF Sound
    <3> QED
      BY <3>2, <3>3
  <2> QED
    BY <2>6, <2>7 DEF x
<1>3. QueueInv /\ [QueueNext \/ AnswerNext]_aiVars => [\A t \in Tabs : Replaces(t)]_aiVars
  BY <1>1, <1>2
<1> QED
  BY <1>3, QueueInvHolds, PTL DEF AiSpec, SaveReplacesQueue

-----------------------------------------------------------------------------
(* The follow-ups. *)
USE FollowDayAssumption, FollowCountAssumption, FollowNullAssumption

\* Logs are numbered and dated in the order they are written, and a job began
\* no later than today.
Dated ==
  /\ day >= 0
  /\ \A l \in logs : l.id < nextLog /\ l.day <= day
  /\ \A j \in Jobs : job[j].day <= day

\* About to write, a job would find no recent log if it looked again, or
\* another job has written one since it looked.
LookStands(j) == job[j].pc = "insert" => job[j].raced \/ ~Reminded(j, job[j].cur)

\* The students a running job is through with.
Handled(j) ==
  job[j].all \ (job[j].todo \cup IF job[j].pc = "insert" THEN {job[j].cur} ELSE {})

HandledReminded(j) ==
  job[j].pc # "idle" => \A s \in Handled(j) : s \in forgotten[j] \/ Reminded(j, s)

FollowInv ==
  /\ FollowTypeOK
  /\ Dated
  /\ NoRepeatedFollowUp
  /\ \A j \in Jobs : LookStands(j) /\ HandledReminded(j)

LEMMA IdleJobTyped == IdleJob \in Job /\ IdleJob.pc = "idle" /\ IdleJob.day = 0
  BY DEF IdleJob, Job, Kinds

LEMMA FollowInitSound == FollowInit => FollowInv
<1> SUFFICES ASSUME FollowInit PROVE FollowInv
  OBVIOUS
<1>1. FollowTypeOK
  BY IdleJobTyped DEF FollowInit, FollowTypeOK
<1>2. Dated /\ NoRepeatedFollowUp
  BY IdleJobTyped DEF FollowInit, Dated, NoRepeatedFollowUp
<1>3. \A j \in Jobs : LookStands(j) /\ HandledReminded(j)
  BY IdleJobTyped DEF FollowInit, LookStands, HandledReminded
<1> QED
  BY <1>1, <1>2, <1>3 DEF FollowInv

-----------------------------------------------------------------------------
(* Requests. *)

\* A request that leaves jobs and logs alone.
LEMMA WriteSound ==
  ASSUME FollowInv, Write, enrolled' \subseteq Students,
         mark' \in [Students \X Days -> Marks \cup {"NONE"}],
         record' \in [Students -> {"NONE", "OPEN", "SETTLED"}]
  PROVE  FollowInv'
<1>1. UNCHANGED <<day, fired, job, logs, nextLog, forgotten>> /\ writes' \in Nat
  BY DEF Write, calendar, book, FollowInv, FollowTypeOK
<1>2. FollowTypeOK'
  BY <1>1 DEF FollowInv, FollowTypeOK
<1>3. Dated' /\ NoRepeatedFollowUp'
  BY <1>1 DEF FollowInv, Dated, NoRepeatedFollowUp
<1>4. \A j \in Jobs : LookStands(j)' /\ HandledReminded(j)'
  BY <1>1 DEF FollowInv, LookStands, HandledReminded, Handled, Reminded
<1> QED
  BY <1>2, <1>3, <1>4 DEF FollowInv

\* A request that takes away logs: what a running job relied on is forgotten.
LEMMA ForgetSound ==
  ASSUME FollowInv, NEW L \in SUBSET logs, Forget(L),
         UNCHANGED <<calendar, job, nextLog>>, writes' \in Nat, enrolled' \subseteq Students,
         mark' \in [Students \X Days -> Marks \cup {"NONE"}],
         record' \in [Students -> {"NONE", "OPEN", "SETTLED"}]
  PROVE  FollowInv'
<1>1. UNCHANGED <<day, fired, job, nextLog>> /\ logs' = logs \ L
  BY DEF Forget, calendar
<1>2. \A j \in Jobs :
        /\ forgotten'[j] \in SUBSET Students
        /\ job[j].pc # "idle" =>
             forgotten'[j] = forgotten[j] \cup
                             {l.student : l \in {x \in L : x.kind = job[j].kind}}
  BY DEF Forget, FollowInv, FollowTypeOK, Log
<1>3. FollowTypeOK'
  <2>1. forgotten' \in [Jobs -> SUBSET Students]
    BY <1>2 DEF Forget
  <2> QED
    BY <1>1, <2>1 DEF FollowInv, FollowTypeOK
<1>4. Dated' /\ NoRepeatedFollowUp'
  BY <1>1 DEF FollowInv, Dated, NoRepeatedFollowUp
<1>5. ASSUME NEW j \in Jobs PROVE LookStands(j)' /\ HandledReminded(j)'
  <2>1. LookStands(j)'
    BY <1>1 DEF FollowInv, LookStands, Reminded
  <2>2. Handled(j)' = Handled(j)
    BY <1>1 DEF Handled
  <2>3. ASSUME job[j].pc # "idle", NEW s \in Handled(j)
        PROVE  s \in forgotten'[j] \/ Reminded(j, s)'
    <3>1. CASE s \in forgotten[j]
      BY <3>1, <2>3, <1>2
    <3>2. CASE Reminded(j, s)
      <4>1. PICK l \in logs :
              l.kind = job[j].kind /\ l.student = s /\ l.day >= job[j].day - Suppression
        BY <3>2 DEF Reminded
      <4>2. CASE l \in L
        BY <4>1, <4>2, <2>3, <1>2
      <4>3. CASE l \notin L
        BY <4>1, <4>3, <1>1 DEF Reminded
      <4> QED
        BY <4>2, <4>3
    <3> QED
      BY <2>3, <3>1, <3>2 DEF FollowInv, HandledReminded
  <2> QED
    BY <1>1, <2>1, <2>2, <2>3 DEF HandledReminded
<1> QED
  BY <1>3, <1>4, <1>5 DEF FollowInv

LEMMA RequestSound == FollowInv /\ FollowRequest => FollowInv'
<1> SUFFICES ASSUME FollowInv, FollowRequest PROVE FollowInv'
  OBVIOUS
<1> USE DEF FollowInv, FollowTypeOK
<1>1. ASSUME NEW S \in SUBSET Students, NEW d \in Days, NEW m \in Marks, MarkAttendance(S, d, m)
      PROVE  FollowInv'
  BY <1>1, WriteSound DEF MarkAttendance
<1>2. ASSUME NEW p \in DOMAIN mark, NEW q \in DOMAIN mark, NEW m \in Marks,
             UpdateAttendance(p, q, m)
      PROVE  FollowInv'
  BY <1>2, WriteSound DEF UpdateAttendance
<1>3. ASSUME NEW P \in SUBSET DOMAIN mark, NEW m \in Marks, UpdateManyStatus(P, m)
      PROVE  FollowInv'
  BY <1>3, WriteSound DEF UpdateManyStatus
<1>4. ASSUME NEW P \in SUBSET DOMAIN mark, DeleteAttendance(P)
      PROVE  FollowInv'
  BY <1>4, WriteSound DEF DeleteAttendance
<1>5. ASSUME NEW s \in Students, NEW st \in {"OPEN", "SETTLED"},
             CreateRecord(s, st) \/ UpdateRecord(s, st)
      PROVE  FollowInv'
  BY <1>5, WriteSound DEF CreateRecord, UpdateRecord
<1>6. ASSUME NEW S \in SUBSET Students, DeleteRecords(S)
      PROVE  FollowInv'
  <2> DEFINE L == {l \in logs : l.kind = "fee" /\ l.student \in S}
  <2>1. L \in SUBSET logs /\ Forget(L)
    BY <1>6 DEF DeleteRecords
  <2> HIDE DEF L
  <2> QED
    BY <1>6, <2>1, ForgetSound DEF DeleteRecords
<1>7. ASSUME NEW s \in Students, RemoveStudent(s)
      PROVE  FollowInv'
  <2> DEFINE L == {l \in logs : l.student = s}
  <2>1. L \in SUBSET logs /\ Forget(L)
    BY <1>7 DEF RemoveStudent
  <2> HIDE DEF L
  <2> QED
    BY <1>7, <2>1, ForgetSound DEF RemoveStudent
<1>8. ASSUME NEW L \in SUBSET logs, EditOrDeleteLogs(L)
      PROVE  FollowInv'
  BY <1>8, ForgetSound DEF EditOrDeleteLogs
<1> QED
  BY <1>1, <1>2, <1>3, <1>4, <1>5, <1>6, <1>7, <1>8 DEF FollowRequest

-----------------------------------------------------------------------------
(* The jobs. *)

\* A step of job j that writes no log.
LEMMA FollowOwnStep ==
  ASSUME FollowInv, NEW j \in Jobs, NEW x \in Job, job' = [job EXCEPT ![j] = x],
         UNCHANGED <<day, desk, book>>, fired' \subseteq Kinds,
         forgotten' \in [Jobs -> SUBSET Students],
         \A i \in Jobs \ {j} : forgotten'[i] = forgotten[i],
         x.day <= day, x.pc = "insert" => x.cur \in Students,
         LookStands(j)', HandledReminded(j)'
  PROVE  FollowInv'
<1>1. job' \in [Jobs -> Job] /\ job'[j] = x /\ \A i \in Jobs \ {j} : job'[i] = job[i]
  BY DEF FollowInv, FollowTypeOK
<1>2. FollowTypeOK'
  BY <1>1 DEF FollowInv, FollowTypeOK, desk, book
<1>3. Dated' /\ NoRepeatedFollowUp'
  BY <1>1 DEF FollowInv, Dated, NoRepeatedFollowUp, book
<1>4. ASSUME NEW i \in Jobs \ {j} PROVE LookStands(i)' /\ HandledReminded(i)'
  BY <1>1 DEF FollowInv, LookStands, HandledReminded, Handled, Reminded, book
<1> QED
  BY <1>2, <1>3, <1>4 DEF FollowInv

LEMMA StartSound ==
  ASSUME FollowInv, NEW j \in Jobs, NEW kind \in Kinds, NEW cron \in BOOLEAN,
         NEW S \in SUBSET Students, Start(j, kind, cron, S)
  PROVE  FollowInv'
<1> DEFINE x == [IdleJob EXCEPT !.pc = "next", !.kind = kind, !.cron = cron, !.day = day,
                                !.all = S, !.todo = S]
<1>1. x \in Job /\ x.pc = "next" /\ x.day = day /\ x.all = S /\ x.todo = S
  BY DEF IdleJob, Job, FollowInv, FollowTypeOK
<1>2. job' = [job EXCEPT ![j] = x] /\ UNCHANGED <<day, desk, book, forgotten>>
  BY DEF Start
<1>3. fired' \subseteq Kinds
  BY DEF Start, FollowInv, FollowTypeOK
<1>4. day \in Int /\ job \in [Jobs -> Job] /\ forgotten \in [Jobs -> SUBSET Students]
  BY DEF FollowInv, FollowTypeOK
<1> HIDE DEF x
<1>5. job'[j] = x
  BY <1>2, <1>4
<1>6. LookStands(j)' /\ HandledReminded(j)'
  BY <1>1, <1>5 DEF LookStands, HandledReminded, Handled
<1>7. x.day <= day /\ (x.pc = "insert" => x.cur \in Students)
  BY <1>1, <1>4
<1> QED
  BY <1>1, <1>2, <1>3, <1>4, <1>6, <1>7, FollowOwnStep

LEMMA LookSound ==
  ASSUME FollowInv, NEW j \in Jobs, Look(j)
  PROVE  FollowInv'
<1>1. job \in [Jobs -> Job] /\ job[j] \in Job /\ forgotten \in [Jobs -> SUBSET Students]
  BY DEF FollowInv, FollowTypeOK
<1>2. PICK s \in job[j].todo :
        job' = [job EXCEPT ![j].todo = @ \ {s},
                           ![j].pc = IF Reminded(j, s) THEN "next" ELSE "insert",
                           ![j].cur = IF Reminded(j, s) THEN NoStudent ELSE s,
                           ![j].raced = FALSE]
  BY DEF Look
<1> DEFINE x == [job[j] EXCEPT
                  !.todo = @ \ {s}, !.pc = IF Reminded(j, s) THEN "next" ELSE "insert",
                  !.cur = IF Reminded(j, s) THEN NoStudent ELSE s, !.raced = FALSE]
<1>3. s \in Students
  BY <1>1, <1>2 DEF Job
<1>4. /\ x \in Job
      /\ x.day = job[j].day /\ x.kind = job[j].kind /\ x.all = job[j].all
      /\ x.todo = job[j].todo \ {s}
      /\ Reminded(j, s) => x.pc = "next"
      /\ ~Reminded(j, s) => x.pc = "insert" /\ x.cur = s
  BY <1>1, <1>3 DEF Job
<1>5. job' = [job EXCEPT ![j] = x]
  BY <1>1, <1>2 DEF Job
<1> HIDE DEF x
<1>6. job'[j] = x
  BY <1>1, <1>5
<1>7. UNCHANGED <<day, fired, desk, book, forgotten>>
  BY DEF Look, calendar
<1>8. \A r \in Students : Reminded(j, r)' = Reminded(j, r)
  BY <1>4, <1>6, <1>7 DEF Reminded, book
<1>9. LookStands(j)'
  BY <1>3, <1>4, <1>6, <1>8 DEF LookStands
<1>10. HandledReminded(j)'
  <2>1. job[j].pc = "next" /\ Handled(j) = job[j].all \ job[j].todo
    BY DEF Look, Handled
  <2>2. \A r \in Handled(j)' : r \in Handled(j) \/ (r = s /\ Reminded(j, s))
    BY <2>1, <1>4, <1>6 DEF Handled
  <2>3. Handled(j)' \subseteq Students
    BY <1>1, <1>4, <1>6 DEF Handled, Job
  <2>4. \A r \in Handled(j)' : r \in forgotten[j] \/ Reminded(j, r)
    BY <2>1, <2>2 DEF FollowInv, HandledReminded
  <2> QED
    BY <2>3, <2>4, <1>7, <1>8 DEF HandledReminded
<1>11. x.day <= day /\ fired \subseteq Kinds
  BY <1>4 DEF FollowInv, Dated, FollowTypeOK
<1>12. x.pc = "insert" => x.cur \in Students
  BY <1>3, <1>4
<1> QED
  BY <1>1, <1>4, <1>5, <1>7, <1>9, <1>10, <1>11, <1>12, FollowOwnStep

LEMMA AbandonSound ==
  ASSUME FollowInv, NEW j \in Jobs, Abandon(j), job[j].pc # "idle"
  PROVE  FollowInv'
<1>1. /\ job \in [Jobs -> Job] /\ job[j].day <= day /\ day \in Int /\ fired \subseteq Kinds
      /\ forgotten \in [Jobs -> SUBSET Students]
  BY DEF FollowInv, FollowTypeOK, Dated
<1>2. job'[j] = IdleJob /\ forgotten' \in [Jobs -> SUBSET Students]
      /\ \A i \in Jobs \ {j} : forgotten'[i] = forgotten[i]
  BY <1>1 DEF Abandon
<1>3. LookStands(j)' /\ HandledReminded(j)'
  BY <1>2, IdleJobTyped DEF LookStands, HandledReminded
<1>4. IdleJob.day <= day
  BY IdleJobTyped DEF FollowInv, Dated
<1> QED
  BY <1>1, <1>2, <1>3, <1>4, IdleJobTyped, FollowOwnStep DEF Abandon, calendar

LEMMA WriteLogSound ==
  ASSUME FollowInv, NEW j \in Jobs, job[j].pc = "insert", WriteLog(j)
  PROVE  FollowInv'
<1> DEFINE new == [id |-> nextLog, kind |-> job[j].kind, student |-> job[j].cur,
                   day |-> day, raced |-> job[j].raced]
<1>1. /\ job \in [Jobs -> Job] /\ job[j] \in Job /\ job[j].cur \in Students
      /\ day \in Int /\ nextLog \in Nat /\ logs \subseteq Log
      /\ \A i \in Jobs : job[i].day \in Int /\ job[i].day <= day
  BY DEF FollowInv, FollowTypeOK, Dated, Job
<1>2. logs' = logs \cup {new} /\ nextLog' = nextLog + 1
      /\ UNCHANGED <<day, fired, enrolled, mark, record, writes, forgotten>>
  BY DEF WriteLog, calendar, desk
<1>3. /\ new \in Log
      /\ new.id = nextLog /\ new.kind = job[j].kind /\ new.student = job[j].cur
      /\ new.day = day /\ new.raced = job[j].raced
  BY <1>1 DEF Log, Job
<1> HIDE DEF new
<1>4. /\ job'[j] = [job[j] EXCEPT !.pc = "next", !.cur = NoStudent]
      /\ \A i \in Jobs \ {j} :
           job'[i] = IF AlsoWriting(i, j) THEN [job[i] EXCEPT !.raced = TRUE] ELSE job[i]
      /\ job' \in [Jobs -> Job]
  <2>1. job' = [i \in Jobs |->
          IF i = j THEN [job[j] EXCEPT !.pc = "next", !.cur = NoStudent]
          ELSE IF AlsoWriting(i, j) THEN [job[i] EXCEPT !.raced = TRUE] ELSE job[i]]
    BY DEF WriteLog
  <2>2. [job[j] EXCEPT !.pc = "next", !.cur = NoStudent] \in Job
    BY <1>1 DEF Job
  <2>3. \A i \in Jobs : job[i] \in Job /\ [job[i] EXCEPT !.raced = TRUE] \in Job
    BY <1>1 DEF Job
  <2> QED
    BY <2>1, <2>2, <2>3
<1> PICK c \in Students : c = job[j].cur
  BY <1>1
\* A job keeps all but its program counter, its candidate and the race.
<1>5. /\ \A i \in Jobs : /\ job'[i].day = job[i].day /\ job'[i].kind = job[i].kind
                         /\ job'[i].all = job[i].all /\ job'[i].todo = job[i].todo
      /\ job'[j].pc = "next"
      /\ \A i \in Jobs \ {j} : /\ job'[i].pc = job[i].pc /\ job'[i].cur = job[i].cur
                               /\ AlsoWriting(i, j) => job'[i].raced = TRUE
                               /\ ~AlsoWriting(i, j) => job'[i].raced = job[i].raced
  <2>1. \A i \in Jobs : job[i] \in Job
    BY <1>1
  <2>2. ASSUME NEW i \in Jobs \ {j}
        PROVE  /\ job'[i].day = job[i].day /\ job'[i].kind = job[i].kind
               /\ job'[i].all = job[i].all /\ job'[i].todo = job[i].todo
               /\ job'[i].pc = job[i].pc /\ job'[i].cur = job[i].cur
               /\ AlsoWriting(i, j) => job'[i].raced = TRUE
               /\ ~AlsoWriting(i, j) => job'[i].raced = job[i].raced
    BY <2>1, <1>4 DEF Job
  <2>3. /\ job'[j].day = job[j].day /\ job'[j].kind = job[j].kind
        /\ job'[j].all = job[j].all /\ job'[j].todo = job[j].todo /\ job'[j].pc = "next"
    BY <1>1, <1>4 DEF Job
  <2> QED
    BY <2>2, <2>3
<1>6. FollowTypeOK'
  <2>1. \A i \in Jobs : job'[i].pc = "insert" => job'[i].cur \in Students
    BY <1>5 DEF FollowInv, FollowTypeOK
  <2>2. logs' \subseteq Log /\ nextLog' \in Nat
    BY <1>1, <1>2, <1>3
  <2> QED
    BY <1>2, <1>4, <2>1, <2>2 DEF FollowInv, FollowTypeOK
<1>7. Dated'
  BY <1>1, <1>2, <1>3, <1>5 DEF FollowInv, Dated, Log
<1>8. NoRepeatedFollowUp'
  <2> SUFFICES ASSUME NEW l \in logs', NEW m \in logs', l.id < m.id, l.kind = m.kind,
                      l.student = m.student, m.day - l.day <= Suppression
               PROVE  m.raced
    BY DEF NoRepeatedFollowUp
  <2>1. CASE l \in logs /\ m \in logs
    BY <2>1 DEF FollowInv, NoRepeatedFollowUp
  <2>2. CASE l \in logs /\ m = new
    <3>1. l.day \in Int /\ l.day >= job[j].day - Suppression
      BY <1>1, <1>3, <2>2 DEF Log
    <3>2. Reminded(j, job[j].cur)
      BY <1>3, <2>2, <3>1 DEF Reminded
    <3> QED
      BY <1>3, <2>2, <3>2 DEF FollowInv, LookStands
  <2>3. CASE l = new
    BY <1>1, <1>2, <1>3, <2>3 DEF FollowInv, Dated, Log
  <2> QED
    BY <1>2, <2>1, <2>2, <2>3
\* Nobody's recent log is lost, and only the candidate of j gains one.
<1>9. \A i \in Jobs, s \in Students :
        /\ Reminded(i, s) => Reminded(i, s)'
        /\ Reminded(i, s)' => Reminded(i, s) \/ (job[i].kind = job[j].kind /\ s = c)
  BY <1>2, <1>3, <1>5 DEF Reminded
<1>10. ASSUME NEW i \in Jobs PROVE LookStands(i)' /\ HandledReminded(i)'
  <2>1. CASE i = j
    <3>1. LookStands(i)'
      BY <2>1, <1>5 DEF LookStands
    <3>2. Reminded(j, c)'
      <4>1. new \in logs' /\ new.day >= job'[j].day - Suppression
        BY <1>1, <1>2, <1>3, <1>5
      <4> QED
        BY <4>1, <1>3, <1>5 DEF Reminded
    <3>3. HandledReminded(j)'
      <4>1. \A s \in Handled(j)' : s \in Students /\ (s \in Handled(j) \/ s = c)
        BY <1>1, <1>5 DEF Handled, Job
      <4> QED
        BY <4>1, <3>2, <1>2, <1>9 DEF FollowInv, HandledReminded
    <3> QED
      BY <2>1, <3>1, <3>3
  <2>2. CASE i # j
    <3>1. LookStands(i)'
      <4>1. PICK x : x = job[i].cur
        OBVIOUS
      <4>2. ASSUME job[i].pc = "insert" PROVE job'[i].raced \/ ~Reminded(i, x)'
        <5>1. x \in Students /\ (job[i].raced \/ ~Reminded(i, x))
          BY <4>1, <4>2 DEF FollowInv, FollowTypeOK, LookStands
        <5>2. CASE AlsoWriting(i, j)
          BY <2>2, <5>2, <1>5
        <5>3. CASE ~AlsoWriting(i, j)
          BY <2>2, <4>1, <4>2, <5>1, <5>3, <1>1, <1>5, <1>9 DEF AlsoWriting
        <5> QED
          BY <5>2, <5>3
      <4> QED
        BY <2>2, <4>1, <4>2, <1>5 DEF LookStands
    <3>2. Handled(i)' = Handled(i) /\ Handled(i) \subseteq Students
      BY <2>2, <1>1, <1>5 DEF Handled, Job
    <3>3. HandledReminded(i)'
      BY <2>2, <3>2, <1>2, <1>5, <1>9 DEF FollowInv, HandledReminded
    <3> QED
      BY <3>1, <3>3
  <2> QED
    BY <2>1, <2>2
<1> QED
  BY <1>6, <1>7, <1>8, <1>10 DEF FollowInv

LEMMA FollowStepSound == FollowInv /\ [FollowNext]_followVars => FollowInv'
<1> SUFFICES ASSUME FollowInv, [FollowNext]_followVars PROVE FollowInv'
  OBVIOUS
<1>1. CASE FollowRequest
  BY <1>1, RequestSound
<1>2. ASSUME NEW j \in Jobs, FollowStep(j) PROVE FollowInv'
  <2>1. ASSUME NEW cron \in BOOLEAN, ProcessFollowUps(j, cron) PROVE FollowInv'
    <3>1. {s \in enrolled : ShouldTriggerFollowUp(s)} \in SUBSET Students
      BY DEF FollowInv, FollowTypeOK
    <3> QED
      BY <2>1, <3>1, StartSound DEF ProcessFollowUps, Kinds
  <2>2. ASSUME NEW cron \in BOOLEAN, ProcessEscalations(j, cron) PROVE FollowInv'
    <3>1. PICK afterNine \in BOOLEAN :
            Start(j, "fee", cron, {s \in enrolled : IsEscalationDue(s, afterNine)})
      BY <2>2 DEF ProcessEscalations
    <3>2. {s \in enrolled : IsEscalationDue(s, afterNine)} \in SUBSET Students
      BY DEF FollowInv, FollowTypeOK
    <3> QED
      BY <3>1, <3>2, StartSound DEF Kinds
  <2>3. CASE Look(j)
    BY <2>3, LookSound
  <2>4. CASE InsertFollowUp(j) \/ InsertEscalation(j)
    BY <2>4, WriteLogSound DEF InsertFollowUp, InsertEscalation
  <2>5. CASE InsertRefused(j) \/ Finish(j) \/ StopJob(j)
    BY <2>5, AbandonSound DEF InsertRefused, Finish, StopJob
  <2> QED
    BY <1>2, <2>1, <2>2, <2>3, <2>4, <2>5 DEF FollowStep
<1>3. CASE NextMorning
  <2>1. UNCHANGED <<enrolled, mark, record, writes, job, logs, nextLog, forgotten>>
        /\ day' = day + 1 /\ fired' = {}
    BY <1>3 DEF NextMorning, desk, book
  <2>2. FollowTypeOK'
    BY <2>1 DEF FollowInv, FollowTypeOK
  <2>3. Dated'
    BY <2>1 DEF FollowInv, FollowTypeOK, Dated, Log, Job
  <2>4. NoRepeatedFollowUp'
    BY <2>1 DEF FollowInv, NoRepeatedFollowUp
  <2>5. \A j \in Jobs : LookStands(j)' /\ HandledReminded(j)'
    BY <2>1 DEF FollowInv, LookStands, HandledReminded, Handled, Reminded
  <2> QED
    BY <2>2, <2>3, <2>4, <2>5 DEF FollowInv
<1>4. CASE UNCHANGED followVars
  <2>1. FollowTypeOK'
    BY <1>4 DEF FollowInv, FollowTypeOK, followVars
  <2>2. Dated' /\ NoRepeatedFollowUp'
    BY <1>4 DEF FollowInv, Dated, NoRepeatedFollowUp, followVars
  <2>3. \A j \in Jobs : LookStands(j)' /\ HandledReminded(j)'
    BY <1>4 DEF FollowInv, LookStands, HandledReminded, Handled, Reminded, followVars
  <2> QED
    BY <2>1, <2>2, <2>3 DEF FollowInv
<1> QED
  BY <1>1, <1>2, <1>3, <1>4 DEF FollowNext

LEMMA FollowAlwaysSound == FollowSpec => []FollowInv
  BY FollowInitSound, FollowStepSound, PTL DEF FollowSpec

-----------------------------------------------------------------------------
(* The theorems about the follow-ups. *)

\* Rows, logs and jobs are of their tables' types, and a job about to write
\* holds a student (schema.prisma, the two services).
THEOREM FollowTypeCorrect == FollowSpec => []FollowTypeOK
  BY FollowAlwaysSound, PTL DEF FollowInv

\* However many jobs overlap, a follow-up is repeated within the suppression
\* days only by a job that another one overtook between its look and its
\* insert (attendance-alert-automation.service.ts:156,
\* fee-escalation-automation.service.ts:160).
THEOREM FollowUpsNotRepeated == FollowSpec => []NoRepeatedFollowUp
  BY FollowAlwaysSound, PTL DEF FollowInv

\* A job that gets through its list has left a recent log for everybody on
\* it, but for logs that were themselves edited or deleted since it began
\* (attendance-alert-automation.service.ts:149, fee-escalation-automation.service.ts:157).
THEOREM ListsAreCovered == FollowSpec => RunLeavesNoneOut
<1>1. FollowInv /\ [FollowNext]_followVars =>
        [\A j \in Jobs : Finish(j) =>
           \A s \in job[j].all : s \in forgotten[j] \/ Reminded(j, s)]_followVars
  BY DEF FollowInv, HandledReminded, Handled, Finish
<1> QED
  BY <1>1, FollowAlwaysSound, PTL DEF FollowSpec, RunLeavesNoneOut

-----------------------------------------------------------------------------
(* The mail. *)
USE MailAssumption

\* What a request relies on between its calls: the conversation it holds was
\* opened, the message it edits or sends was written, and if that has been
\* sent since the check, it knows that it raced.
Holding(r) ==
  /\ req[r].pc \in {"create", "stamp"} => req[r].c \in Conversations /\ last[req[r].c] # 0
  /\ req[r].pc \in {"edit", "send"} =>
       /\ req[r].m \in Messages /\ msg[req[r].m] # NoMail
       /\ msg[req[r].m].st = "SENT" => req[r].raced
  /\ req[r].pc = "stamp" => 0 < req[r].at /\ req[r].at <= clock

\* Conversations are opened before they have messages, and stamped with moments past.
Opened ==
  /\ \A m \in Messages : msg[m] # NoMail => last[msg[m].conv] # 0
  /\ \A c \in Conversations : last[c] <= clock

\* Undisturbed, a conversation has one stamp to come at most, which is newer
\* than the one it has, and each of its messages is covered by one of the two.
Stamped(c) ==
  c \notin disturbed =>
    /\ \A q, r \in Stamping(c) : q = r
    /\ \A r \in Stamping(c) : last[c] <= req[r].at
    /\ \A m \in Messages :
         msg[m].st = "SENT" /\ msg[m].conv = c =>
           \/ msg[m].sentAt <= last[c]
           \/ \E r \in Stamping(c) : msg[m].sentAt <= req[r].at

MailInv ==
  /\ MailTypeOK
  /\ \A r \in Requests : Holding(r)
  /\ Opened
  /\ \A c \in Conversations : Stamped(c)

LEMMA MailTypes ==
  ASSUME MailInv
  PROVE  /\ clock \in Nat /\ last \in [Conversations -> Nat] /\ marks \in Nat
         /\ msg \in [Messages -> Mail \cup {NoMail}]
         /\ rcpt \in [Messages -> RecipientRows]
         /\ own \in [Messages -> SUBSET Flags]
         /\ req \in [Requests -> MailRequest]
         /\ disturbed \subseteq Conversations
  BY DEF MailInv, MailTypeOK

LEMMA IdleRequestTyped ==
  /\ IdleRequest \in MailRequest /\ IdleRequest.pc = "idle" /\ IdleRequest.raced = FALSE
  /\ IdleRequest.m = Nobody
  BY DEF IdleRequest, MailRequest

LEMMA RecipientTypes ==
  /\ \A R \in SUBSET Normalized(Addresses) : Unmarked(R) \in RecipientRows
  /\ \A f \in RecipientRows : /\ DOMAIN f \subseteq Normalized(Addresses)
                              /\ f \in [DOMAIN f -> SUBSET Flags]
  /\ \A S \in SUBSET Normalized(Addresses) : [S -> SUBSET Flags] \subseteq RecipientRows
<1>1. \A S \in SUBSET Normalized(Addresses) : [S -> SUBSET Flags] \subseteq RecipientRows
  BY DEF RecipientRows
<1>2. ASSUME NEW R \in SUBSET Normalized(Addresses) PROVE Unmarked(R) \in RecipientRows
  <2>1. Unmarked(R) \in [R -> SUBSET Flags]
    BY DEF Unmarked
  <2> QED
    BY <1>1, <2>1
<1>3. ASSUME NEW f \in RecipientRows
      PROVE  DOMAIN f \subseteq Normalized(Addresses) /\ f \in [DOMAIN f -> SUBSET Flags]
  <2>1. PICK S \in SUBSET Normalized(Addresses) : f \in [S -> SUBSET Flags]
    BY DEF RecipientRows
  <2> QED
    BY <2>1
<1> QED
  BY <1>1, <1>2, <1>3

\* A row of a message is a mail or none.
LEMMA MailRows ==
  /\ NoMail \notin Mail /\ NoMail.st = "NONE" /\ NoMail.conv = Nobody
  /\ \A x \in Mail : /\ x.st \in {"DRAFT", "SENT"} /\ x.from \in People /\ x.text \in Texts
                     /\ x.conv \in Conversations /\ x.sentAt \in Nat
<1>1. NoMail.st = "NONE" /\ NoMail.conv = Nobody
  BY DEF NoMail
<1>2. \A x \in Mail : /\ x.st \in {"DRAFT", "SENT"} /\ x.from \in People /\ x.text \in Texts
                      /\ x.conv \in Conversations /\ x.sentAt \in Nat
  BY DEF Mail
<1> QED
  BY <1>1, <1>2

LEMMA MailInitSound == MailInit => MailInv
<1> SUFFICES ASSUME MailInit PROVE MailInv
  OBVIOUS
<1>1. [p \in {} |-> {}] \in RecipientRows
  BY RecipientTypes DEF Unmarked
<1>2. MailTypeOK
  BY <1>1, IdleRequestTyped, MailRows DEF MailInit, MailTypeOK
<1>3. \A r \in Requests : Holding(r)
  BY IdleRequestTyped DEF MailInit, Holding
<1>4. Opened /\ \A c \in Conversations : Stamped(c)
  BY IdleRequestTyped, MailRows DEF MailInit, Opened, Stamped, Stamping
<1> QED
  BY <1>2, <1>3, <1>4 DEF MailInv

\* A step keeps a message as the parts of the invariant see it, or inserts a draft.
KeptMail(m) ==
  \/ msg'[m] = msg[m]
  \/ /\ msg[m] = NoMail /\ msg'[m].st = "DRAFT" /\ msg'[m].sentAt = 0
     /\ last'[msg'[m].conv] # 0
  \/ /\ msg[m] # NoMail /\ msg'[m].st = msg[m].st /\ msg'[m].sentAt = msg[m].sentAt
     /\ msg'[m].conv = msg[m].conv

KeptOrOpened(c) == last'[c] = last[c] \/ (last[c] = 0 /\ 0 < last'[c] /\ last'[c] <= clock')

\* Request r becomes x: it opens or takes up a conversation or a draft, or ends.
Quiet(r, x) ==
  /\ x \in MailRequest /\ req' = [req EXCEPT ![r] = x]
  /\ x.pc # "stamp" /\ req[r].pc # "stamp"
  /\ msg' \in [Messages -> Mail \cup {NoMail}] /\ rcpt' \in [Messages -> RecipientRows]
  /\ \A m \in Messages : KeptMail(m)
  /\ UNCHANGED <<own, marks, disturbed>>
  /\ clock' \in Nat /\ clock <= clock' /\ last' \in [Conversations -> Nat]
  /\ \A c \in Conversations : KeptOrOpened(c)

LEMMA QuietRequest ==
  ASSUME MailInv, NEW r \in Requests, NEW x, Quiet(r, x), Holding(r)'
  PROVE  MailInv'
<1> USE DEF Quiet
<1>1. req' \in [Requests -> MailRequest] /\ req'[r] = x
      /\ \A q \in Requests \ {r} : req'[q] = req[q]
  BY MailTypes
<1>2. \A m \in Messages :
        /\ msg[m] # NoMail => /\ msg'[m] # NoMail /\ msg'[m].st = msg[m].st
                              /\ msg'[m].sentAt = msg[m].sentAt /\ msg'[m].conv = msg[m].conv
        /\ msg[m] = NoMail => msg'[m] = NoMail \/ (msg'[m].st = "DRAFT" /\ msg'[m].sentAt = 0
                                                   /\ last'[msg'[m].conv] # 0)
  BY MailTypes, MailRows DEF KeptMail
<1>3. \A c \in Conversations : last[c] # 0 => last'[c] = last[c]
  BY MailTypes DEF KeptOrOpened
<1>4. MailTypeOK'
  <2>1. \A m \in Messages : msg'[m].st = "DRAFT" => msg'[m].sentAt = 0
    BY <1>2, MailRows DEF MailInv, MailTypeOK
  <2> QED
    BY <1>1, <2>1, MailTypes DEF MailTypeOK
<1>5. ASSUME NEW q \in Requests PROVE Holding(q)'
  <2>1. CASE q = r
    BY <2>1
  <2>2. CASE q # r
    <3>1. req'[q] = req[q] /\ Holding(q)
      BY <2>2, <1>1 DEF MailInv
    <3>2. req[q].pc \in {"edit", "send"} =>
            /\ msg[req[q].m].st = msg'[req[q].m].st /\ msg'[req[q].m] # NoMail
      BY <3>1, <1>2 DEF Holding
    <3>3. req[q].pc = "stamp" => req[q].at <= clock'
      BY <3>1, MailTypes DEF Holding, MailRequest
    <3>4. req[q].pc \in {"create", "stamp"} => last'[req[q].c] # 0
      BY <3>1, <1>3 DEF Holding
    <3> QED
      BY <3>1, <3>2, <3>3, <3>4 DEF Holding
  <2> QED
    BY <2>1, <2>2
<1>6. Opened'
  <2>1. \A m \in Messages : msg'[m] # NoMail => last'[msg'[m].conv] # 0
    BY <1>2, <1>3, MailTypes, MailRows DEF MailInv, Opened
  <2>2. \A c \in Conversations : last'[c] <= clock'
    BY MailTypes DEF MailInv, Opened, KeptOrOpened
  <2> QED
    BY <2>1, <2>2 DEF Opened
<1>7. ASSUME NEW c \in Conversations PROVE Stamped(c)'
  <2>1. Stamping(c)' = Stamping(c) /\ \A q \in Stamping(c) : req'[q] = req[q]
    BY <1>1 DEF Stamping
  <2>2. \A q \in Stamping(c) : last'[c] = last[c]
    BY <1>3 DEF Stamping, MailInv, Holding
  <2>3. \A m \in Messages :
          msg'[m].st = "SENT" /\ msg'[m].conv = c =>
            /\ msg[m].st = "SENT" /\ msg[m].conv = c /\ msg[m].sentAt = msg'[m].sentAt
            /\ last'[c] = last[c]
    BY <1>2, <1>3, MailTypes, MailRows DEF MailInv, Opened
  <2> QED
    BY <2>1, <2>2, <2>3 DEF MailInv, Stamped
<1> QED
  BY <1>4, <1>5, <1>6, <1>7 DEF MailInv

LEMMA ConversationResolved ==
  ASSUME MailInv, NEW r \in Requests, NEW c \in Conversations, NEW new,
         ResolveConversation(r, c, new)
  PROVE  MailInv'
<1> DEFINE x == [IdleRequest EXCEPT !.pc = "create", !.c = c]
<1>1. /\ req[r].pc = "idle" /\ req' = [req EXCEPT ![r] = x]
      /\ UNCHANGED <<msg, rcpt, own, marks, disturbed>>
  BY DEF ResolveConversation
<1>2. \/ last[c] = 0 /\ clock' = clock + 1 /\ last' = [last EXCEPT ![c] = clock + 1]
      \/ last[c] # 0 /\ clock' = clock /\ last' = last
  BY DEF ResolveConversation, Moment
<1>3. x \in MailRequest /\ x.pc = "create" /\ x.c = c
  BY DEF IdleRequest, MailRequest
<1> HIDE DEF x
<1>4. clock' \in Nat /\ clock <= clock' /\ last' \in [Conversations -> Nat] /\ last'[c] # 0
      /\ \A d \in Conversations : KeptOrOpened(d)
  BY <1>2, MailTypes DEF KeptOrOpened
<1>5. req'[r] = x
  BY <1>1, MailTypes
<1>6. Holding(r)'
  BY <1>3, <1>4, <1>5 DEF Holding
<1>7. \A m \in Messages : KeptMail(m)
  BY <1>1 DEF KeptMail
<1>8. Quiet(r, x)
  BY <1>1, <1>3, <1>4, <1>7, MailTypes DEF Quiet
<1> QED
  BY <1>6, <1>8, QuietRequest

LEMMA DraftCreated ==
  ASSUME MailInv, NEW r \in Requests, NEW m \in Messages, NEW who \in People,
         NEW text \in Texts, NEW R \in SUBSET Normalized(Addresses), CreateDraft(r, m, who, text, R)
  PROVE  MailInv'
<1> DEFINE mail == [st |-> "DRAFT", from |-> who, text |-> text, conv |-> req[r].c, sentAt |-> 0]
<1>1. /\ req[r].pc = "create" /\ req' = [req EXCEPT ![r] = IdleRequest]
      /\ msg[m] = NoMail /\ msg' = [msg EXCEPT ![m] = mail]
      /\ rcpt' = [rcpt EXCEPT ![m] = Unmarked(R)]
      /\ UNCHANGED <<clock, last, own, marks, disturbed>>
  BY DEF CreateDraft, InsertMail
<1>2. req[r].c \in Conversations /\ last[req[r].c] # 0
  BY <1>1 DEF MailInv, Holding
<1>3. mail \in Mail /\ mail.st = "DRAFT" /\ mail.sentAt = 0 /\ mail.conv = req[r].c
  BY <1>2 DEF Mail
<1> HIDE DEF mail
<1>4. msg' \in [Messages -> Mail \cup {NoMail}] /\ rcpt' \in [Messages -> RecipientRows]
  BY <1>1, <1>3, MailTypes, RecipientTypes
<1>5. (\A n \in Messages : KeptMail(n)) /\ \A c \in Conversations : KeptOrOpened(c)
  BY <1>1, <1>2, <1>3, MailTypes DEF KeptMail, KeptOrOpened
<1>6. Holding(r)'
  BY <1>1, MailTypes, IdleRequestTyped DEF Holding
<1>7. Quiet(r, IdleRequest)
  BY <1>1, <1>4, <1>5, MailTypes, IdleRequestTyped DEF Quiet
<1> QED
  BY <1>6, <1>7, QuietRequest

LEMMA DraftChecked ==
  ASSUME MailInv, NEW r \in Requests, NEW m \in Messages, NEW pc \in {"edit", "send"},
         Check(r, m, pc)
  PROVE  MailInv'
<1> DEFINE x == [IdleRequest EXCEPT !.pc = pc, !.m = m]
<1>1. /\ req[r].pc = "idle" /\ req' = [req EXCEPT ![r] = x] /\ msg[m].st = "DRAFT"
      /\ UNCHANGED <<clock, last, msg, rcpt, own, marks, disturbed>>
  BY DEF Check, EditableDraft
<1>2. x \in MailRequest /\ x.pc = pc /\ x.m = m
  BY DEF IdleRequest, MailRequest
<1> HIDE DEF x
<1>3. Holding(r)'
  BY <1>1, <1>2, MailTypes, MailRows DEF Holding
<1>4. (\A n \in Messages : KeptMail(n)) /\ \A c \in Conversations : KeptOrOpened(c)
  BY <1>1 DEF KeptMail, KeptOrOpened
<1>5. Quiet(r, x)
  BY <1>1, <1>2, <1>4, MailTypes DEF Quiet
<1> QED
  BY <1>3, <1>5, QuietRequest

LEMMA DraftEdited ==
  ASSUME MailInv, NEW r \in Requests, NEW text \in Texts, UpdateDraft(r, text)
  PROVE  /\ MailInv'
         /\ req'[r] # req[r]
         /\ \A m \in Messages \ {req[r].m} : msg'[m] = msg[m] /\ rcpt'[m] = rcpt[m]
         /\ msg[req[r].m].st = "SENT" => req[r].raced
<1> PICK m \in Messages : m = req[r].m /\ msg[m] # NoMail /\ (msg[m].st = "SENT" => req[r].raced)
  BY DEF UpdateDraft, MailInv, Holding
<1>1. /\ req[r].pc = "edit" /\ req' = [req EXCEPT ![r] = IdleRequest]
      /\ msg' = [msg EXCEPT ![m].text = text]
      /\ \E rows \in {rcpt[m]} \cup {Unmarked(R) : R \in SUBSET Normalized(Addresses)} :
           rcpt' = [rcpt EXCEPT ![m] = rows]
      /\ UNCHANGED <<clock, last, own, marks, disturbed>>
  BY DEF UpdateDraft
<1>2. msg[m] \in Mail
  BY MailTypes
<1>3. /\ [msg[m] EXCEPT !.text = text] \in Mail
      /\ [msg[m] EXCEPT !.text = text].st = msg[m].st
      /\ [msg[m] EXCEPT !.text = text].sentAt = msg[m].sentAt
      /\ [msg[m] EXCEPT !.text = text].conv = msg[m].conv
  BY <1>2 DEF Mail
<1>4. msg' = [msg EXCEPT ![m] = [msg[m] EXCEPT !.text = text]]
  BY <1>1
<1>5. msg' \in [Messages -> Mail \cup {NoMail}] /\ rcpt' \in [Messages -> RecipientRows]
  BY <1>1, <1>3, <1>4, MailTypes, RecipientTypes
<1>6. (\A n \in Messages : KeptMail(n)) /\ \A c \in Conversations : KeptOrOpened(c)
  BY <1>1, <1>3, <1>4, MailTypes DEF KeptMail, KeptOrOpened
<1>7. Holding(r)' /\ req'[r] # req[r]
  BY <1>1, MailTypes, IdleRequestTyped DEF Holding
<1>8. MailInv'
  <2>1. Quiet(r, IdleRequest)
    BY <1>1, <1>5, <1>6, MailTypes, IdleRequestTyped DEF Quiet
  <2> QED
    BY <1>7, <2>1, QuietRequest
<1>9. \A n \in Messages \ {m} : msg'[n] = msg[n] /\ rcpt'[n] = rcpt[n]
  BY <1>1, <1>4, MailTypes
<1> QED
  BY <1>7, <1>8, <1>9

LEMMA RequestStopped ==
  ASSUME MailInv, NEW r \in Requests, StopRequest(r)
  PROVE  MailInv'
<1>1. /\ req' = [req EXCEPT ![r] = IdleRequest] /\ req[r].pc # "idle"
      /\ UNCHANGED <<clock, last, msg, rcpt, own, marks>>
      /\ req[r].pc # "stamp" => disturbed' = disturbed
      /\ req[r].pc = "stamp" => disturbed' = disturbed \cup {req[r].c}
  BY DEF StopRequest
<1>2. Holding(r)' /\ req'[r] = IdleRequest
  BY <1>1, MailTypes, IdleRequestTyped DEF Holding
<1>3. CASE req[r].pc # "stamp"
  <2>1. (\A n \in Messages : KeptMail(n)) /\ \A c \in Conversations : KeptOrOpened(c)
    BY <1>1 DEF KeptMail, KeptOrOpened
  <2>2. Quiet(r, IdleRequest)
    BY <1>1, <1>3, <2>1, MailTypes, IdleRequestTyped DEF Quiet
  <2> QED
    BY <1>2, <2>2, QuietRequest
<1>4. CASE req[r].pc = "stamp"
  <2>1. req' \in [Requests -> MailRequest] /\ req[r].c \in Conversations
        /\ \A q \in Requests \ {r} : req'[q] = req[q]
    BY <1>1, <1>4, MailTypes, IdleRequestTyped DEF MailInv, Holding
  <2>2. MailTypeOK'
    BY <1>1, <1>4, <2>1 DEF MailInv, MailTypeOK
  <2>3. \A q \in Requests : Holding(q)'
    BY <1>1, <1>2, <2>1 DEF MailInv, Holding
  <2>4. Opened'
    BY <1>1 DEF MailInv, Opened
  <2>5. ASSUME NEW c \in Conversations, c \notin disturbed' PROVE Stamped(c)'
    <3>1. c # req[r].c /\ c \notin disturbed
      BY <1>1, <1>4, <2>5
    <3>2. Stamping(c)' = Stamping(c) /\ \A q \in Stamping(c) : req'[q] = req[q]
      BY <3>1, <1>2, <2>1, IdleRequestTyped DEF Stamping
    <3> QED
      BY <3>1, <3>2, <1>1 DEF MailInv, Stamped
  <2>6. \A c \in Conversations : Stamped(c)'
    BY <2>5 DEF Stamped
  <2> QED
    BY <2>2, <2>3, <2>4, <2>6 DEF MailInv
<1> QED
  BY <1>3, <1>4

LEMMA ConversationStamped ==
  ASSUME MailInv, NEW r \in Requests, StampConversation(r)
  PROVE  MailInv'
<1> PICK d \in Conversations, at \in Nat :
      d = req[r].c /\ at = req[r].at /\ 0 < at /\ at <= clock /\ last[d] # 0
  BY MailTypes DEF StampConversation, MailInv, Holding, MailRequest
<1>1. /\ req[r].pc = "stamp" /\ req' = [req EXCEPT ![r] = IdleRequest]
      /\ last' = [last EXCEPT ![d] = at]
      /\ UNCHANGED <<clock, msg, rcpt, own, marks, disturbed>>
  BY DEF StampConversation
<1>2. /\ req' \in [Requests -> MailRequest] /\ req'[r] = IdleRequest
      /\ \A q \in Requests \ {r} : req'[q] = req[q]
      /\ last' \in [Conversations -> Nat] /\ last'[d] = at
      /\ \A c \in Conversations \ {d} : last'[c] = last[c]
  BY <1>1, MailTypes, IdleRequestTyped
<1>3. MailTypeOK'
  BY <1>1, <1>2 DEF MailInv, MailTypeOK
<1>4. \A c \in Conversations : last[c] # 0 => last'[c] # 0
  BY <1>2
<1>5. \A q \in Requests : Holding(q)'
  BY <1>1, <1>2, <1>4, IdleRequestTyped DEF MailInv, Holding
<1>6. Opened'
  BY <1>1, <1>2, <1>4, MailTypes, MailRows DEF MailInv, Opened
<1>7. ASSUME NEW c \in Conversations, c \notin disturbed PROVE Stamped(c)'
  <2>1. CASE c = d
    <3>1. r \in Stamping(c)
      BY <2>1, <1>1 DEF Stamping
    <3>2. Stamping(c)' = {}
      BY <2>1, <3>1, <1>1, <1>2, <1>7, IdleRequestTyped DEF Stamping, MailInv, Stamped
    <3>3. \A m \in Messages :
            msg[m].st = "SENT" /\ msg[m].conv = c => msg[m].sentAt <= at
      <4>1. ASSUME NEW m \in Messages, msg[m].st = "SENT", msg[m].conv = c
            PROVE  msg[m].sentAt <= at
        <5>1. msg[m].sentAt \in Nat /\ last[c] \in Nat /\ last[c] <= at
          BY <2>1, <3>1, <4>1, <1>7, MailTypes, MailRows DEF MailInv, Stamped
        <5>2. msg[m].sentAt <= last[c] \/ \E q \in Stamping(c) : msg[m].sentAt <= req[q].at
          BY <4>1, <1>7 DEF MailInv, Stamped
        <5>3. \A q \in Stamping(c) : q = r
          BY <3>1, <1>7 DEF MailInv, Stamped
        <5> QED
          BY <5>1, <5>2, <5>3
      <4> QED
        BY <4>1
    <3> QED
      BY <2>1, <3>2, <3>3, <1>1, <1>2 DEF Stamped
  <2>2. CASE c # d
    <3>1. Stamping(c)' = Stamping(c) /\ \A q \in Stamping(c) : req'[q] = req[q]
      BY <2>2, <1>2, IdleRequestTyped DEF Stamping
    <3> QED
      BY <2>2, <3>1, <1>1, <1>2, <1>7 DEF MailInv, Stamped
  <2> QED
    BY <2>1, <2>2
<1>8. \A c \in Conversations : Stamped(c)'
  BY <1>1, <1>7 DEF Stamped
<1> QED
  BY <1>3, <1>5, <1>6, <1>8 DEF MailInv

\* Message m of conversation c is sent by r, which is to stamp it.
SentBy(r, m, c) ==
  /\ last[c] # 0 /\ req[r].pc # "stamp"
  /\ clock' = clock + 1
  /\ msg'[m] \in Mail /\ msg'[m].st = "SENT" /\ msg'[m].conv = c /\ msg'[m].sentAt = clock + 1
  /\ \A n \in Messages \ {m} : msg'[n] = msg[n]
  /\ disturbed' = Cross(c)
  /\ UNCHANGED <<last, marks>>
  /\ req' \in [Requests -> MailRequest]
  /\ req'[r] = [IdleRequest EXCEPT !.pc = "stamp", !.c = c, !.at = clock + 1]

\* The other requests notice at most that they raced, and do when they hold the draft.
Raced(q, m) ==
  /\ req'[q].pc = req[q].pc /\ req'[q].m = req[q].m /\ req'[q].c = req[q].c
  /\ req'[q].at = req[q].at /\ (req[q].raced => req'[q].raced)
  /\ msg[m] # NoMail /\ req[q].m = m => req'[q].raced

LEMMA MessageSent ==
  ASSUME MailInv, NEW r \in Requests, NEW m \in Messages, NEW c \in Conversations,
         SentBy(r, m, c), \A q \in Requests \ {r} : Raced(q, m),
         msg' \in [Messages -> Mail \cup {NoMail}], rcpt' \in [Messages -> RecipientRows],
         own' \in [Messages -> SUBSET Flags]
  PROVE  MailInv'
<1>1. /\ req'[r].pc = "stamp" /\ req'[r].c = c /\ req'[r].at = clock + 1
  BY DEF SentBy, IdleRequest
<1>2. MailTypeOK'
  <2>1. disturbed' \subseteq Conversations /\ clock' \in Nat
    BY MailTypes DEF SentBy, Cross
  <2>2. \A n \in Messages : msg'[n].st = "DRAFT" => msg'[n].sentAt = 0
    BY DEF SentBy, MailInv, MailTypeOK
  <2> QED
    BY <2>1, <2>2, MailTypes DEF SentBy, MailTypeOK
<1>3. ASSUME NEW q \in Requests PROVE Holding(q)'
  <2>1. CASE q = r
    <3>1. clock \in Nat /\ clock' = clock + 1 /\ last' = last /\ last[c] # 0
      BY MailTypes DEF SentBy
    <3> QED
      BY <2>1, <1>1, <3>1 DEF Holding
  <2>2. CASE q # r
    <3>1. Holding(q) /\ Raced(q, m) /\ last' = last
      BY <2>2 DEF MailInv, SentBy
    <3>2. ASSUME req[q].pc \in {"edit", "send"}
          PROVE  msg'[req[q].m] # NoMail /\ (msg'[req[q].m].st = "SENT" => req'[q].raced)
      <4>1. req[q].m \in Messages /\ msg[req[q].m] # NoMail
            /\ (msg[req[q].m].st = "SENT" => req[q].raced)
        BY <3>1, <3>2 DEF Holding
      <4> QED
        BY <3>1, <4>1, MailRows DEF SentBy, Raced
    <3>3. req[q].pc = "stamp" => req[q].at <= clock'
      BY <3>1, MailTypes DEF Holding, MailRequest, SentBy
    <3> QED
      BY <3>1, <3>2, <3>3 DEF Holding, Raced
  <2> QED
    BY <2>1, <2>2
<1>4. Opened'
  <2>1. \A d \in Conversations : last'[d] <= clock'
    BY MailTypes DEF MailInv, Opened, SentBy
  <2>2. \A n \in Messages : msg'[n] # NoMail => last'[msg'[n].conv] # 0
    BY DEF MailInv, Opened, SentBy
  <2> QED
    BY <2>1, <2>2 DEF Opened
<1>5. ASSUME NEW d \in Conversations, d \notin disturbed' PROVE Stamped(d)'
  <2>1. d \notin disturbed /\ (d = c => Stamping(c) = {})
    BY <1>5 DEF SentBy, Cross
  <2>2. Stamped(d)
    BY DEF MailInv
  <2>3. CASE d = c
    <3>1. Stamping(c)' = {r}
      BY <2>1, <2>3, <1>1 DEF Stamping, Raced
    <3>2. last'[c] <= req'[r].at
      BY <1>1, MailTypes DEF MailInv, Opened, SentBy
    <3>3. \A n \in Messages :
            msg'[n].st = "SENT" /\ msg'[n].conv = c => msg'[n].sentAt <= req'[r].at
      <4>1. ASSUME NEW n \in Messages \ {m}, msg[n].st = "SENT", msg[n].conv = c
            PROVE  msg[n].sentAt <= clock + 1
        <5>1. msg[n].sentAt \in Nat /\ last[c] \in Nat /\ last[c] <= clock
          BY <4>1, MailTypes, MailRows DEF MailInv, Opened
        <5>2. msg[n].sentAt <= last[c]
          BY <4>1, <2>1, <2>2, <2>3 DEF Stamped
        <5> QED
          BY <5>1, <5>2, MailTypes
      <4>2. msg'[m].sentAt <= clock + 1
        BY MailTypes DEF SentBy
      <4> QED
        BY <4>1, <4>2, <1>1 DEF SentBy
    <3> QED
      BY <2>3, <3>1, <3>2, <3>3 DEF Stamped
  <2>4. CASE d # c
    <3>1. Stamping(d)' = Stamping(d) /\ \A q \in Stamping(d) : req'[q].at = req[q].at
      <4>1. r \notin Stamping(d) /\ r \notin Stamping(d)'
        BY <2>4, <1>1 DEF Stamping, SentBy
      <4> QED
        BY <4>1 DEF Stamping, Raced
    <3>2. \A n \in Messages :
            msg'[n].st = "SENT" /\ msg'[n].conv = d => n # m /\ msg'[n] = msg[n]
      BY <2>4 DEF SentBy
    <3> QED
      BY <2>1, <2>2, <3>1, <3>2 DEF Stamped, SentBy
  <2> QED
    BY <2>3, <2>4
<1>6. \A d \in Conversations : Stamped(d)'
  BY <1>5 DEF Stamped
<1> QED
  BY <1>2, <1>3, <1>4, <1>6 DEF MailInv

LEMMA NewSent ==
  ASSUME MailInv, NEW r \in Requests, NEW m \in Messages, NEW c \in Conversations,
         NEW who \in People, NEW text \in Texts, NEW R \in SUBSET Normalized(Addresses),
         last[c] # 0, req[r].pc # "stamp", SendNew(r, m, c, who, text, R)
  PROVE  MailInv' /\ \A n \in Messages : msg[n] # NoMail => msg'[n] = msg[n] /\ rcpt'[n] = rcpt[n]
<1> DEFINE mail == [st |-> "SENT", from |-> who, text |-> text, conv |-> c, sentAt |-> clock + 1]
           x == [IdleRequest EXCEPT !.pc = "stamp", !.c = c, !.at = clock + 1]
<1>1. /\ clock' = clock + 1 /\ msg[m] = NoMail /\ msg' = [msg EXCEPT ![m] = mail]
      /\ rcpt' = [rcpt EXCEPT ![m] = Unmarked(R)]
      /\ req' = [req EXCEPT ![r] = x] /\ disturbed' = Cross(c)
      /\ UNCHANGED <<last, own, marks>>
  BY DEF SendNew, Moment, InsertMail
<1>2. /\ mail \in Mail /\ mail.st = "SENT" /\ mail.conv = c /\ mail.sentAt = clock + 1
  BY MailTypes DEF Mail
<1>3. x \in MailRequest
  <2>1. clock + 1 \in Nat
    BY MailTypes
  <2> QED
    BY <2>1 DEF IdleRequest, MailRequest
<1> HIDE DEF mail
<1>4. /\ msg' \in [Messages -> Mail \cup {NoMail}] /\ rcpt' \in [Messages -> RecipientRows]
      /\ own' \in [Messages -> SUBSET Flags] /\ req' \in [Requests -> MailRequest]
      /\ msg'[m] = mail /\ \A n \in Messages \ {m} : msg'[n] = msg[n] /\ rcpt'[n] = rcpt[n]
      /\ req'[r] = x /\ \A q \in Requests \ {r} : req'[q] = req[q]
  BY <1>1, <1>2, <1>3, MailTypes, RecipientTypes
<1>5. SentBy(r, m, c)
  BY <1>1, <1>2, <1>4 DEF SentBy
<1>6. \A q \in Requests \ {r} : Raced(q, m)
  BY <1>1, <1>4 DEF Raced
<1>7. MailInv'
  BY <1>4, <1>5, <1>6, MessageSent
<1> QED
  BY <1>1, <1>4, <1>7

LEMMA DraftSent ==
  ASSUME MailInv, NEW r \in Requests, SendDraft(r)
  PROVE  /\ MailInv'
         /\ req'[r] # req[r]
         /\ \A m \in Messages \ {req[r].m} : msg'[m] = msg[m] /\ rcpt'[m] = rcpt[m]
         /\ msg[req[r].m].st = "SENT" => req[r].raced
<1> PICK m \in Messages : m = req[r].m /\ msg[m] # NoMail /\ (msg[m].st = "SENT" => req[r].raced)
  BY DEF SendDraft, MailInv, Holding
<1>1. msg[m] \in Mail
  BY MailTypes
<1> PICK c \in Conversations : c = msg[m].conv
  BY <1>1, MailRows
<1> DEFINE x == [IdleRequest EXCEPT !.pc = "stamp", !.c = c, !.at = clock + 1]
           mail == [msg[m] EXCEPT !.st = "SENT", !.sentAt = clock + 1]
<1>2. /\ req[r].pc = "send" /\ clock' = clock + 1
      /\ msg' = [msg EXCEPT ![m].st = "SENT", ![m].sentAt = clock + 1]
      /\ req' = [q \in Requests |->
           IF q = r THEN x
           ELSE IF req[q].m = m THEN [req[q] EXCEPT !.raced = TRUE] ELSE req[q]]
      /\ disturbed' = Cross(c)
      /\ UNCHANGED <<last, rcpt, own, marks>>
  BY DEF SendDraft, Moment
<1>3. /\ mail \in Mail /\ mail.st = "SENT" /\ mail.conv = c /\ mail.sentAt = clock + 1
  <2>1. clock + 1 \in Nat
    BY MailTypes
  <2> QED
    BY <1>1, <2>1 DEF Mail
<1>4. msg' = [msg EXCEPT ![m] = mail]
  BY <1>1, <1>2, MailTypes
<1>5. x \in MailRequest /\ x.pc = "stamp"
  <2>1. clock + 1 \in Nat
    BY MailTypes
  <2> QED
    BY <2>1 DEF IdleRequest, MailRequest
<1> HIDE DEF mail
<1>6. ASSUME NEW q \in Requests
      PROVE  /\ [req[q] EXCEPT !.raced = TRUE] \in MailRequest
             /\ [req[q] EXCEPT !.raced = TRUE].pc = req[q].pc
             /\ [req[q] EXCEPT !.raced = TRUE].m = req[q].m
             /\ [req[q] EXCEPT !.raced = TRUE].c = req[q].c
             /\ [req[q] EXCEPT !.raced = TRUE].at = req[q].at
             /\ [req[q] EXCEPT !.raced = TRUE].raced
  <2>1. req[q] \in MailRequest
    BY MailTypes
  <2> QED
    BY <2>1 DEF MailRequest
<1>7. /\ msg' \in [Messages -> Mail \cup {NoMail}] /\ rcpt' \in [Messages -> RecipientRows]
      /\ own' \in [Messages -> SUBSET Flags]
      /\ msg'[m] = mail /\ \A n \in Messages \ {m} : msg'[n] = msg[n] /\ rcpt'[n] = rcpt[n]
  <2>1. rcpt' = rcpt /\ own' = own
    BY <1>2
  <2>2. msg \in [Messages -> Mail \cup {NoMail}] /\ mail \in Mail \cup {NoMail}
    BY <1>3, MailTypes
  <2>3. /\ msg' \in [Messages -> Mail \cup {NoMail}]
        /\ msg'[m] = mail /\ \A n \in Messages \ {m} : msg'[n] = msg[n]
    BY <1>4, <2>2
  <2> QED
    BY <2>1, <2>3, MailTypes
<1>8. req' \in [Requests -> MailRequest] /\ req'[r] = x
  <2>1. \A q \in Requests : req[q] \in MailRequest
    BY MailTypes
  <2> QED
    BY <1>2, <1>5, <1>6, <2>1
<1>9. \A q \in Requests \ {r} : Raced(q, m)
  BY <1>2, <1>6 DEF Raced
<1>10. last[c] # 0
  BY DEF MailInv, Opened
<1>11. SentBy(r, m, c)
  BY <1>2, <1>3, <1>7, <1>8, <1>10 DEF SentBy
<1>12. MailInv'
  BY <1>7, <1>9, <1>11, MessageSent
<1>13. req'[r] # req[r]
  BY <1>2, <1>5, <1>8
<1> QED
  BY <1>7, <1>12, <1>13

\* Marks change no message, and nobody's read mark is taken back.
LEMMA MarksSet ==
  ASSUME MailInv, NEW m \in Messages, NEW who \in People,
         NEW op \in {"read", "star", "unstar", "archive", "trash", "restore"},
         UpdateCurrentState(m, who, op)
  PROVE  /\ MailInv'
         /\ msg' = msg
         /\ \A n \in Messages : DOMAIN rcpt'[n] = DOMAIN rcpt[n] /\ Readers(n) \subseteq Readers(n)'
<1>1. /\ UNCHANGED <<clock, last, msg, req, disturbed>> /\ marks' = marks + 1
      /\ \/ rcpt' = rcpt /\ own' = [own EXCEPT ![m] = Marked(@, op)]
         \/ /\ own' = own /\ who \in DOMAIN rcpt[m]
            /\ rcpt' = [rcpt EXCEPT ![m][who] = Marked(@, op)]
  BY DEF UpdateCurrentState, Finds, SameAddress
<1>2. \A f \in SUBSET Flags : /\ Marked(f, op) \in SUBSET Flags
                              /\ "read" \in f => "read" \in Marked(f, op)
  BY DEF Marked, Flags
<1>3. own' \in [Messages -> SUBSET Flags]
  <2>1. own[m] \in SUBSET Flags
    BY MailTypes
  <2>2. Marked(own[m], op) \in SUBSET Flags
    BY <1>2, <2>1
  <2> QED
    BY <1>1, <2>2, MailTypes
<1>4. /\ rcpt' \in [Messages -> RecipientRows]
      /\ \A n \in Messages : /\ DOMAIN rcpt'[n] = DOMAIN rcpt[n]
                             /\ \A p \in DOMAIN rcpt[n] :
                                  "read" \in rcpt[n][p] => "read" \in rcpt'[n][p]
  <2>1. CASE rcpt' = rcpt
    BY <2>1, MailTypes
  <2>2. CASE who \in DOMAIN rcpt[m] /\ rcpt' = [rcpt EXCEPT ![m][who] = Marked(@, op)]
    <3>1. /\ rcpt[m] \in [DOMAIN rcpt[m] -> SUBSET Flags]
          /\ DOMAIN rcpt[m] \in SUBSET Normalized(Addresses)
      BY MailTypes, RecipientTypes
    <3> DEFINE row == [rcpt[m] EXCEPT ![who] = Marked(rcpt[m][who], op)]
    <3>2. rcpt' = [rcpt EXCEPT ![m] = row]
      BY <2>2
    <3>3. rcpt[m][who] \in SUBSET Flags
      BY <2>2, <3>1
    <3>4. Marked(rcpt[m][who], op) \in SUBSET Flags
          /\ ("read" \in rcpt[m][who] => "read" \in Marked(rcpt[m][who], op))
      BY <1>2, <3>3
    <3>5. /\ row \in [DOMAIN rcpt[m] -> SUBSET Flags] /\ DOMAIN row = DOMAIN rcpt[m]
          /\ \A p \in DOMAIN rcpt[m] : "read" \in rcpt[m][p] => "read" \in row[p]
      BY <3>1, <3>4
    <3> HIDE DEF row
    <3>6. row \in RecipientRows
      BY <3>1, <3>5, RecipientTypes
    <3> QED
      BY <3>2, <3>5, <3>6, MailTypes
  <2> QED
    BY <1>1, <2>1, <2>2
<1>5. MailTypeOK'
  BY <1>1, <1>3, <1>4 DEF MailInv, MailTypeOK
<1>6. (\A r \in Requests : Holding(r)') /\ Opened' /\ \A c \in Conversations : Stamped(c)'
  BY <1>1 DEF MailInv, Holding, Opened, Stamped, Stamping
<1>7. \A n \in Messages : Readers(n) \subseteq Readers(n)'
  BY <1>4 DEF Readers
<1> QED
  BY <1>1, <1>4, <1>5, <1>6, <1>7 DEF MailInv

\* Everybody in a conversation has an address, and lower case is of an address too.
LEMMA ParticipantsTyped ==
  ASSUME MailInv, NEW c \in Conversations
  PROVE  /\ Participants(c) \subseteq Addresses
         /\ \A who : Others(c, who) \in SUBSET Normalized(Addresses)
<1>1. ASSUME NEW m \in Messages, msg[m].conv = c
      PROVE  {msg[m].from} \cup DOMAIN rcpt[m] \subseteq Addresses
  <2>1. msg[m] \in Mail
    BY <1>1, MailTypes, MailRows, MailAssumption
  <2>2. msg[m].from \in People
    BY <2>1, MailRows
  <2>3. Normalized(Addresses) \subseteq Addresses
    BY MailAssumption DEF Normalized
  <2> QED
    BY <2>2, <2>3, MailTypes, RecipientTypes, MailAssumption
<1>2. Participants(c) \subseteq Addresses
  BY <1>1 DEF Participants
<1> QED
  BY <1>2 DEF Others, Normalized

\* A mail that stands: the second disjunct of SentMailStands.
StandsMail(m) ==
  /\ msg'[m] = msg[m]
  /\ DOMAIN rcpt'[m] = DOMAIN rcpt[m]
  /\ Readers(m) \subseteq Readers(m)'

Stands ==
  \A m \in Messages :
    msg[m].st = "SENT" =>
      \/ \E r \in Requests : req[r].m = m /\ req[r].raced /\ req'[r] # req[r]
      \/ StandsMail(m)

LEMMA SameRowsStand ==
  ASSUME \A m \in Messages : msg[m] # NoMail => msg'[m] = msg[m] /\ rcpt'[m] = rcpt[m]
  PROVE  Stands
  BY MailRows DEF Stands, StandsMail, Readers

\* A write to a checked draft touches a sent mail only if it knows that it raced.
LEMMA RacedWriteStands ==
  ASSUME NEW r \in Requests, req'[r] # req[r],
         \A m \in Messages \ {req[r].m} : msg'[m] = msg[m] /\ rcpt'[m] = rcpt[m],
         msg[req[r].m].st = "SENT" => req[r].raced
  PROVE  Stands
  BY DEF Stands, StandsMail, Readers

LEMMA MailStepSound ==
  ASSUME MailInv, [MailNext]_mailVars
  PROVE  MailInv' /\ Stands
<1>1. ASSUME NEW r \in Requests, MailStep(r) PROVE MailInv' /\ Stands
  <2>1. ASSUME NEW c \in Conversations, NEW new \in BOOLEAN, ResolveConversation(r, c, new)
        PROVE  MailInv' /\ Stands
    BY <2>1, ConversationResolved, SameRowsStand DEF ResolveConversation
  <2>2. ASSUME NEW m \in Messages, NEW who \in People, NEW text \in Texts,
               NEW R \in SUBSET Normalized(Addresses), CreateDraft(r, m, who, text, R)
        PROVE  MailInv' /\ Stands
    <3>1. \A n \in Messages : msg[n] # NoMail => msg'[n] = msg[n] /\ rcpt'[n] = rcpt[n]
      BY <2>2, MailTypes DEF CreateDraft, InsertMail
    <3> QED
      BY <2>2, <3>1, DraftCreated, SameRowsStand
  <2>3. ASSUME NEW m \in Messages, NEW who \in People, NEW text \in Texts,
               NEW R \in SUBSET Normalized(Addresses), CreateAndSend(r, m, who, text, R)
        PROVE  MailInv' /\ Stands
    <3>1. PICK c \in Conversations : c = req[r].c /\ last[c] # 0
      BY <2>3 DEF CreateAndSend, MailInv, Holding
    <3>2. req[r].pc # "stamp" /\ SendNew(r, m, c, who, text, R)
      BY <2>3, <3>1 DEF CreateAndSend
    <3> QED
      BY <3>1, <3>2, NewSent, SameRowsStand
  <2>4. ASSUME NEW m \in Messages, NEW who \in People, NEW text \in Texts,
               NEW R \in SUBSET Normalized(Addresses), NEW c \in Conversations,
               Reply(r, m, c, who, text, R)
        PROVE  MailInv' /\ Stands
    <3>1. PICK all \in BOOLEAN :
            SendNew(r, m, c, who, text, IF all THEN Others(c, who) ELSE R)
      BY <2>4 DEF Reply
    <3>2. PICK S \in SUBSET Normalized(Addresses) : S = IF all THEN Others(c, who) ELSE R
      BY ParticipantsTyped
    <3>3. last[c] # 0 /\ req[r].pc # "stamp" /\ SendNew(r, m, c, who, text, S)
      BY <2>4, <3>1, <3>2 DEF Reply
    <3> QED
      BY <3>3, NewSent, SameRowsStand
  <2>5. ASSUME NEW m \in Messages, NEW pc \in {"edit", "send"}, Check(r, m, pc)
        PROVE  MailInv' /\ Stands
    BY <2>5, DraftChecked, SameRowsStand DEF Check
  <2>6. ASSUME NEW text \in Texts, UpdateDraft(r, text) PROVE MailInv' /\ Stands
    BY <2>6, DraftEdited, RacedWriteStands
  <2>7. CASE SendDraft(r)
    BY <2>7, DraftSent, RacedWriteStands
  <2>8. CASE StampConversation(r)
    BY <2>8, ConversationStamped, SameRowsStand DEF StampConversation
  <2>9. CASE StopRequest(r)
    BY <2>9, RequestStopped, SameRowsStand DEF StopRequest
  <2> QED
    BY <1>1, <2>1, <2>2, <2>3, <2>4, <2>5, <2>6, <2>7, <2>8, <2>9 DEF MailStep
<1>2. ASSUME NEW m \in Messages, NEW who \in People,
             NEW op \in {"read", "star", "unstar", "archive", "trash", "restore"},
             UpdateCurrentState(m, who, op)
      PROVE  MailInv' /\ Stands
  BY <1>2, MarksSet DEF Stands, StandsMail
<1>3. CASE UNCHANGED mailVars
  <2>1. UNCHANGED <<clock, last, msg, rcpt, own, req, marks, disturbed>>
    BY <1>3 DEF mailVars
  <2>2. MailInv'
    BY <2>1 DEF MailInv, MailTypeOK, Holding, Opened, Stamped, Stamping
  <2> QED
    BY <2>1, <2>2, SameRowsStand
<1> QED
  BY <1>1, <1>2, <1>3 DEF MailNext

LEMMA MailAlwaysSound == MailSpec => []MailInv
<1>1. MailInv /\ [MailNext]_mailVars => MailInv'
  BY MailStepSound
<1> QED
  BY <1>1, MailInitSound, PTL DEF MailSpec

-----------------------------------------------------------------------------
(* The theorems about the mail. *)

\* Rows and requests are of their tables' types, and only a sent mail records
\* a moment of sending (schema.prisma, mail.service.ts).
THEOREM MailTypeCorrect == MailSpec => []MailTypeOK
  BY MailAlwaysSound, PTL DEF MailInv

\* However many requests overlap, a sent mail is changed only by an edit or a
\* second send that had checked the draft before it was sent
\* (mail.service.ts:163, :200).
THEOREM SentStands == MailSpec => SentMailStands
<1>1. MailInv /\ [MailNext]_mailVars =>
        [\A m \in Messages :
           msg[m].st = "SENT" =>
             \/ \E r \in Requests : req[r].m = m /\ req[r].raced /\ req'[r] # req[r]
             \/ /\ msg'[m] = msg[m]
                /\ DOMAIN rcpt'[m] = DOMAIN rcpt[m]
                /\ Readers(m) \subseteq Readers(m)']_mailVars
  BY MailStepSound DEF Stands, StandsMail
<1> QED
  BY <1>1, MailAlwaysSound, PTL DEF MailSpec, SentMailStands

\* Whatever the order of its sends, a conversation that none of them crossed
\* or died in is stamped with its newest message once they are over
\* (mail.service.ts:211, :289).
THEOREM ConversationsStamped == MailSpec => []StampIsNewest
<1>1. MailInv => StampIsNewest
  BY DEF MailInv, Stamped, StampIsNewest
<1> QED
  BY <1>1, MailAlwaysSound, PTL

-----------------------------------------------------------------------------
(* The folders.  What makes three queries over two rows agree is that of a   *)
(* mail to oneself only the sender's columns ever take a mark, and that      *)
(* recipient rows come with a message.                                       *)

OwnRowUnmarked(m) ==
  IF msg[m] = NoMail THEN DOMAIN rcpt[m] = {}
  ELSE LowerCase[msg[m].from] \in DOMAIN rcpt[m] => rcpt[m][LowerCase[msg[m].from]] = {}

OwnRowsUnmarked == \A m \in Messages : OwnRowUnmarked(m)

LEMMA OwnRowsInsert ==
  ASSUME MailInv, OwnRowsUnmarked, NEW r, NEW m \in Messages, NEW mail,
         NEW R \in SUBSET Normalized(Addresses),
         InsertMail(r, m, mail, R), mail.st # "NONE"
  PROVE  OwnRowsUnmarked'
<1> SUFFICES ASSUME NEW n \in Messages PROVE OwnRowUnmarked(n)'
  BY DEF OwnRowsUnmarked
<1>1. CASE n = m
  <2>1. rcpt'[m] = Unmarked(R) /\ msg'[m] = mail /\ msg'[m] # NoMail
    BY MailTypes, MailRows DEF InsertMail
  <2> QED
    BY <1>1, <2>1 DEF OwnRowUnmarked, Unmarked
<1>2. CASE n # m
  <2>1. msg'[n] = msg[n] /\ rcpt'[n] = rcpt[n]
    BY <1>2, MailTypes DEF InsertMail
  <2> QED
    BY <2>1 DEF OwnRowUnmarked, OwnRowsUnmarked
<1> QED
  BY <1>1, <1>2

LEMMA OwnRowsSendNew ==
  ASSUME MailInv, OwnRowsUnmarked, NEW r, NEW m \in Messages, NEW c, NEW who, NEW text,
         NEW R \in SUBSET Normalized(Addresses), SendNew(r, m, c, who, text, R)
  PROVE  OwnRowsUnmarked'
<1>1. \E mail : InsertMail(r, m, mail, R) /\ mail.st # "NONE"
  BY DEF SendNew
<1> QED
  BY <1>1, OwnRowsInsert

\* Marks go to the sender's columns or to the row of somebody else.
LEMMA OwnRowsMarks ==
  ASSUME MailInv, OwnRowsUnmarked, NEW m \in Messages, NEW who \in People, NEW op,
         UpdateCurrentState(m, who, op)
  PROVE  OwnRowsUnmarked'
<1> SUFFICES ASSUME NEW n \in Messages PROVE OwnRowUnmarked(n)'
  BY DEF OwnRowsUnmarked
<1>1. msg' = msg
  BY DEF UpdateCurrentState
<1>2. CASE rcpt'[n] = rcpt[n]
  BY <1>1, <1>2 DEF OwnRowUnmarked, OwnRowsUnmarked
<1>3. CASE rcpt'[n] # rcpt[n]
  <2>1. /\ ~SameAddress(msg[m].from, who) /\ who \in DOMAIN rcpt[m] /\ n = m
        /\ rcpt'[m] = [rcpt[m] EXCEPT ![who] = Marked(@, op)]
    BY <1>3, MailTypes DEF UpdateCurrentState, Finds, SameAddress
  <2>2. /\ DOMAIN rcpt'[m] = DOMAIN rcpt[m]
        /\ \A p \in DOMAIN rcpt[m] : p # who => rcpt'[m][p] = rcpt[m][p]
    BY <2>1
  <2>3. CASE msg[m] = NoMail
    BY <1>1, <2>1, <2>2, <2>3 DEF OwnRowUnmarked, OwnRowsUnmarked
  <2>4. CASE msg[m] # NoMail
    <3>1. msg[m].from \in Addresses
      BY <2>4, MailTypes, MailRows, MailAssumption
    <3>2. LowerCase[msg[m].from] # who
      BY <2>1, <3>1, MailAssumption DEF SameAddress
    <3> QED
      BY <1>1, <2>1, <2>2, <2>4, <3>2 DEF OwnRowUnmarked, OwnRowsUnmarked
  <2> QED
    BY <2>3, <2>4
<1> QED
  BY <1>2, <1>3

LEMMA OwnRowsDraft ==
  ASSUME MailInv, OwnRowsUnmarked, NEW r \in Requests, NEW text \in Texts, UpdateDraft(r, text)
  PROVE  OwnRowsUnmarked'
<1> DEFINE m == req[r].m
<1>1. m \in Messages /\ msg[m] # NoMail
  BY DEF UpdateDraft, MailInv, Holding
<1>2. msg' = [msg EXCEPT ![m].text = text]
  BY DEF UpdateDraft
<1>3. PICK rows \in {rcpt[m]} \cup {Unmarked(R) : R \in SUBSET Normalized(Addresses)} :
        rcpt' = [rcpt EXCEPT ![m] = rows]
  BY DEF UpdateDraft
<1> HIDE DEF m
<1> SUFFICES ASSUME NEW n \in Messages PROVE OwnRowUnmarked(n)'
  BY DEF OwnRowsUnmarked
<1>4. CASE n # m
  <2>1. msg'[n] = msg[n] /\ rcpt'[n] = rcpt[n]
    BY <1>1, <1>2, <1>3, <1>4, MailTypes
  <2> QED
    BY <2>1 DEF OwnRowUnmarked, OwnRowsUnmarked
<1>5. CASE n = m
  <2>1. msg[m] \in Mail
    BY <1>1, MailTypes
  <2>2. msg'[m].from = msg[m].from /\ msg'[m].st # "NONE"
    BY <1>1, <1>2, <2>1, MailTypes DEF Mail
  <2>3. rcpt'[m] = rows
    BY <1>1, <1>3, MailTypes
  <2>4. CASE rows = rcpt[m]
    BY <1>1, <1>5, <2>2, <2>3, <2>4, MailRows DEF OwnRowUnmarked, OwnRowsUnmarked
  <2>5. CASE rows # rcpt[m]
    <3>1. PICK R \in SUBSET Normalized(Addresses) : rows = Unmarked(R)
      BY <2>5
    <3> QED
      BY <1>5, <2>2, <2>3, <3>1, MailRows DEF OwnRowUnmarked, Unmarked
  <2> QED
    BY <2>4, <2>5
<1> QED
  BY <1>4, <1>5

LEMMA OwnRowsSendDraft ==
  ASSUME MailInv, OwnRowsUnmarked, NEW r \in Requests, SendDraft(r)
  PROVE  OwnRowsUnmarked'
<1> DEFINE m == req[r].m
<1>1. m \in Messages /\ msg[m] # NoMail
  BY DEF SendDraft, MailInv, Holding
<1>2. msg' = [msg EXCEPT ![m].st = "SENT", ![m].sentAt = clock + 1] /\ rcpt' = rcpt
  BY DEF SendDraft
<1> HIDE DEF m
<1>3. msg[m] \in Mail
  BY <1>1, MailTypes
<1>4. /\ \A n \in Messages : msg'[n].from = msg[n].from
      /\ msg'[m].st # "NONE"
  BY <1>1, <1>2, <1>3, MailTypes DEF Mail
<1>5. \A n \in Messages : n # m => msg'[n] = msg[n]
  BY <1>1, <1>2, MailTypes
<1> QED
  BY <1>1, <1>2, <1>4, <1>5, MailRows DEF OwnRowUnmarked, OwnRowsUnmarked

LEMMA OwnRowsStep ==
  ASSUME MailInv, OwnRowsUnmarked, [MailNext]_mailVars
  PROVE  OwnRowsUnmarked'
<1>1. ASSUME UNCHANGED <<msg, rcpt>> PROVE OwnRowsUnmarked'
  BY <1>1 DEF OwnRowsUnmarked, OwnRowUnmarked
<1>2. ASSUME NEW r \in Requests, MailStep(r) PROVE OwnRowsUnmarked'
  <2>1. ASSUME NEW c \in Conversations, NEW new \in BOOLEAN, ResolveConversation(r, c, new)
        PROVE  OwnRowsUnmarked'
    BY <1>1, <2>1 DEF ResolveConversation
  <2>2. ASSUME NEW m \in Messages, NEW who \in People, NEW text \in Texts,
               NEW R \in SUBSET Normalized(Addresses), CreateDraft(r, m, who, text, R)
        PROVE  OwnRowsUnmarked'
    <3>1. \E mail : InsertMail(r, m, mail, R) /\ mail.st # "NONE"
      BY <2>2 DEF CreateDraft
    <3> QED
      BY <3>1, OwnRowsInsert
  <2>3. ASSUME NEW m \in Messages, NEW who \in People, NEW text \in Texts,
               NEW R \in SUBSET Normalized(Addresses), CreateAndSend(r, m, who, text, R)
        PROVE  OwnRowsUnmarked'
    BY <2>3, OwnRowsSendNew DEF CreateAndSend
  <2>4. ASSUME NEW m \in Messages, NEW who \in People, NEW text \in Texts,
               NEW R \in SUBSET Normalized(Addresses), NEW c \in Conversations,
               Reply(r, m, c, who, text, R)
        PROVE  OwnRowsUnmarked'
    <3>1. PICK all \in BOOLEAN :
            SendNew(r, m, c, who, text, IF all THEN Others(c, who) ELSE R)
      BY <2>4 DEF Reply
    <3>2. (IF all THEN Others(c, who) ELSE R) \in SUBSET Normalized(Addresses)
      BY ParticipantsTyped
    <3> QED
      BY <3>1, <3>2, OwnRowsSendNew
  <2>5. ASSUME NEW m \in Messages, NEW pc \in {"edit", "send"}, Check(r, m, pc)
        PROVE  OwnRowsUnmarked'
    BY <1>1, <2>5 DEF Check
  <2>6. ASSUME NEW text \in Texts, UpdateDraft(r, text) PROVE OwnRowsUnmarked'
    BY <2>6, OwnRowsDraft
  <2>7. CASE SendDraft(r)
    BY <2>7, OwnRowsSendDraft
  <2>8. CASE StampConversation(r)
    BY <1>1, <2>8 DEF StampConversation
  <2>9. CASE StopRequest(r)
    BY <1>1, <2>9 DEF StopRequest
  <2> QED
    BY <1>2, <2>1, <2>2, <2>3, <2>4, <2>5, <2>6, <2>7, <2>8, <2>9 DEF MailStep
<1>3. ASSUME NEW m \in Messages, NEW who \in People, NEW op, UpdateCurrentState(m, who, op)
      PROVE  OwnRowsUnmarked'
  BY <1>3, OwnRowsMarks
<1>4. ASSUME UNCHANGED mailVars PROVE OwnRowsUnmarked'
  BY <1>1, <1>4 DEF mailVars
<1> QED
  BY <1>2, <1>3, <1>4 DEF MailNext

LEMMA OwnRowsAlwaysUnmarked == MailSpec => []OwnRowsUnmarked
<1>1. MailInit => OwnRowsUnmarked
  BY DEF MailInit, OwnRowsUnmarked, OwnRowUnmarked
<1>2. MailInv /\ OwnRowsUnmarked /\ [MailNext]_mailVars => OwnRowsUnmarked'
  BY OwnRowsStep
<1> QED
  BY <1>1, <1>2, MailAlwaysSound, PTL DEF MailSpec

\* Who lists a mail as its sender shows the marks in the columns of the sender, and
\* its recipient row has none.
LEMMA MarksOfSender ==
  ASSUME MailInv, OwnRowsUnmarked, NEW p \in People, NEW m \in Messages, msg[m] # NoMail,
         SameAddress(msg[m].from, p)
  PROVE  /\ LowerCase[p] \in DOMAIN rcpt[m] => rcpt[m][LowerCase[p]] = {}
         /\ Shown(m, p) = own[m]
  BY DEF OwnRowsUnmarked, OwnRowUnmarked, SameAddress, Shown

\* The folders of a person agree with each other and with the counts beside
\* them, whoever writes to oneself, marks, edits or sends, in what order and under
\* what spelling (mail.service.ts:668, :779, :924, :1031).
THEOREM FoldersStayApart == MailSpec => []FoldersAgree
<1>1. ASSUME MailInv, OwnRowsUnmarked PROVE FoldersAgree
  <2> SUFFICES ASSUME NEW p \in People PROVE
        /\ Folder("inbox", p) \cap Folder("sent", p) = {}
        /\ Folder("drafts", p) \cap (Folder("inbox", p) \cup Folder("sent", p)) = {}
        /\ Folder("trash", p) \cap (Folder("inbox", p) \cup Folder("sent", p)
              \cup Folder("drafts", p) \cup Folder("starred", p)) = {}
        /\ \A m \in Folder("all", p)
                    \ (Folder("inbox", p) \cup Folder("sent", p) \cup Folder("trash", p)) :
             msg[m].st = "DRAFT" \/ "archived" \in Shown(m, p)
        /\ \A f \in {"inbox", "starred", "trash"} :
             CountedUnread(f, p) \ Respelled(p)
               = {m \in Folder(f, p) \ Respelled(p) : "read" \notin Shown(m, p)}
    BY <1>1 DEF FoldersAgree
  <2> DEFINE e == LowerCase[p]
  <2>1. ASSUME NEW m \in Messages PROVE
          /\ m \in Folder("inbox", p) <=> /\ msg[m].st = "SENT" /\ msg[m].from # e
                                          /\ AsRecipient(m, e, {}, {"archived", "trashed"})
          /\ m \in Folder("sent", p) <=> /\ msg[m].st = "SENT" /\ AsSender(m, e, {}, {"trashed"})
          /\ m \in Folder("drafts", p) <=> /\ msg[m].st = "DRAFT"
                                           /\ AsSender(m, e, {}, {"trashed"})
          /\ m \in Folder("starred", p) <=> \/ AsSender(m, e, {"starred"}, {"trashed"})
                                            \/ AsRecipient(m, e, {"starred"}, {"trashed"})
          /\ m \in Folder("trash", p) <=> \/ AsSender(m, e, {"trashed"}, {})
                                          \/ AsRecipient(m, e, {"trashed"}, {})
          /\ m \in Folder("all", p) <=> msg[m].from = e \/ e \in DOMAIN rcpt[m]
    BY <2>1 DEF Folder, Selected
  <2>2. \A f : Folder(f, p) \subseteq Messages /\ CountedUnread(f, p) \subseteq Messages
    BY DEF Folder, CountedUnread, Selected
  <2>3. e \in Addresses /\ SameAddress(e, p)
    BY MailAssumption DEF SameAddress
  <2> HIDE DEF e
  <2>4. ASSUME NEW m \in Messages, msg[m] = NoMail
        PROVE  msg[m].from # e /\ DOMAIN rcpt[m] = {}
    <3>1. msg[m].from # e
      BY <2>3, <2>4, MailAssumption DEF NoMail
    <3>2. DOMAIN rcpt[m] = {}
      BY <1>1, <2>4 DEF OwnRowsUnmarked, OwnRowUnmarked
    <3> QED
      BY <3>1, <3>2
  <2>5. ASSUME NEW m \in Messages, msg[m].from = e
        PROVE  /\ e \in DOMAIN rcpt[m] => rcpt[m][e] = {}
               /\ Shown(m, p) = own[m]
    BY <1>1, <2>3, <2>4, <2>5, MarksOfSender DEF e
  <2>6. ASSUME NEW m \in Messages, msg[m].from # e, msg[m] # NoMail
        PROVE  \/ m \in Respelled(p) /\ (e \in DOMAIN rcpt[m] => rcpt[m][e] = {})
               \/ Shown(m, p) = IF e \in DOMAIN rcpt[m] THEN rcpt[m][e] ELSE {}
    <3>1. CASE SameAddress(msg[m].from, p)
      BY <1>1, <2>6, <3>1, MarksOfSender DEF Respelled, e
    <3>2. CASE ~SameAddress(msg[m].from, p)
      BY <3>2 DEF Shown, e
    <3> QED
      BY <3>1, <3>2
  <2>7. Folder("inbox", p) \cap Folder("sent", p) = {}
    BY <2>1, <2>2 DEF AsSender
  <2>8. Folder("drafts", p) \cap (Folder("inbox", p) \cup Folder("sent", p)) = {}
    BY <2>1, <2>2
  <2>9. ASSUME NEW m \in Messages, m \in Folder("trash", p)
        PROVE  /\ m \notin Folder("inbox", p) /\ m \notin Folder("sent", p)
               /\ m \notin Folder("drafts", p) /\ m \notin Folder("starred", p)
    <3>1. CASE msg[m].from = e
      BY <2>1, <2>5, <2>9, <3>1 DEF AsSender, AsRecipient
    <3>2. CASE msg[m].from # e
      BY <2>1, <2>9, <3>2 DEF AsSender, AsRecipient
    <3> QED
      BY <3>1, <3>2
  <2>10. ASSUME NEW m \in Messages, m \in Folder("all", p), m \notin Folder("inbox", p),
                m \notin Folder("sent", p), m \notin Folder("trash", p)
         PROVE  msg[m].st = "DRAFT" \/ "archived" \in Shown(m, p)
    <3>1. msg[m] # NoMail
      BY <2>1, <2>4, <2>10
    <3>2. msg[m].st \in {"DRAFT", "SENT"}
      BY <1>1, <3>1, MailTypes, MailRows
    <3>3. CASE msg[m].from = e
      BY <2>1, <2>10, <3>2, <3>3 DEF AsSender
    <3>4. CASE msg[m].from # e
      BY <2>1, <2>6, <2>10, <3>1, <3>2, <3>4 DEF AsRecipient
    <3> QED
      BY <3>3, <3>4
  <2>11. ASSUME NEW f \in {"inbox", "starred", "trash"}, NEW m \in Messages, m \notin Respelled(p)
         PROVE  m \in CountedUnread(f, p) <=> m \in Folder(f, p) /\ "read" \notin Shown(m, p)
    <3> USE DEF CountedUnread, Folder, Selected, AsSender, AsRecipient
    <3>1. CASE msg[m].from = e
      BY <2>5, <3>1 DEF e
    <3>2. CASE msg[m].from # e
      <4>1. CASE msg[m] = NoMail
        BY <2>4, <3>2, <4>1 DEF e
      <4>2. CASE msg[m] # NoMail
        <5>1. Shown(m, p) = IF e \in DOMAIN rcpt[m] THEN rcpt[m][e] ELSE {}
          BY <2>6, <2>11, <3>2, <4>2
        <5> QED
          BY <3>2, <5>1 DEF e
      <4> QED
        BY <4>1, <4>2
    <3> QED
      BY <3>1, <3>2
  <2> QED
    BY <2>2, <2>7, <2>8, <2>9, <2>10, <2>11
<1> QED
  BY <1>1, MailAlwaysSound, OwnRowsAlwaysUnmarked, PTL

=============================================================================
