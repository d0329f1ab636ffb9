------------------------ MODULE OnlineClassesProofs ------------------------
(***************************************************************************)
(* Proofs about OnlineClasses, for any students, visits and matching, any  *)
(* number of cycles and requests that overlap.                             *)
(***************************************************************************)
EXTENDS OnlineClasses, FiniteSetTheorems, TLAPS

N == Cardinality(Cycles)

\* Cycles that found no session and are about to create one.
Creating == {c \in Cycles : job[c].pc = "create"}

Processing(j) == job[j].pc \in {"exists", "mark"}

\* A deleted entry has no session, and no session comes back.
GoneIsEmpty == entry = "gone" => present = {}

\* An attendance row has a source.
MarksHaveSource == \A t \in Students : att[t] = Unmarked \/ att[t].source # "NONE"

\* What a job that processes a session knows of it: the rows it read pass the
\* filter and are still there, and those it is through with have their mark.
JobInv(j) ==
  Processing(j) =>
    /\ job[j].todo \subseteq job[j].eligible
    /\ job[j].pc = "mark" => job[j].row \in job[j].todo
    /\ \A r \in job[j].eligible : r.student \in Students /\ r.minutes >= Threshold
    /\ entry # "gone" =>
         job[j].snap.session \in present /\ job[j].eligible \subseteq rows[job[j].snap.session]
    /\ \A r \in job[j].eligible \ job[j].todo :
         att[r.student] # Unmarked \/ r.student \in handled

\* Sessions created and about to be created by cycles.
Counted ==
  \/ entry = "gone" /\ generated <= N
  \/ /\ entry # "gone"
     /\ generated + Cardinality(Creating) <= N
     /\ present = {} => generated = 0

IInv ==
  /\ TypeOK
  /\ GoneIsEmpty
  /\ MarksHaveSource
  /\ \A j \in Jobs : JobInv(j)
  /\ PresenceBacked
  /\ Counted

-----------------------------------------------------------------------------
LEMMA IdleFields == Idle \in Job /\ Idle.pc = "idle" /\ NoSnapshot \in Snapshot /\ NoRow \in Row
  BY DEF Idle, Job, Pc, NoSnapshot, Only, Snapshot, Conference, NoRow, Row

LEMMA UnmarkedType == Unmarked \in Mark /\ Unmarked.source = "NONE" /\ Unmarked.session = NoSession
  BY DEF Unmarked, Mark

LEMMA CreatingFinite ==
  /\ IsFiniteSet(Creating) /\ Cardinality(Creating) \in Nat
  /\ Cardinality(Creating) <= N /\ N \in Nat
<1>1. Creating \subseteq Cycles
  BY DEF Creating
<1>2. IsFiniteSet(Creating) /\ Cardinality(Creating) <= N
  BY <1>1, JobsAssumption, FS_Subset DEF N
<1> QED
  BY <1>2, JobsAssumption, FS_CardinalityType DEF N

LEMMA InitInv == Init => IInv
<1> SUFFICES ASSUME Init
             PROVE  IInv
  OBVIOUS
<1> USE DEF Init
<1>1. \A j \in Jobs : job[j].pc = "idle"
  BY IdleFields
<1>2. stay \in [Visits -> Nat] /\ record \in [Sessions -> Conference]
  <2>1. Stays \cup {0} \subseteq Nat
    BY VisitsAssumption
  <2>2. stay \in [Visits -> Stays \cup {0}]
    OBVIOUS
  <2>3. stay \in [Visits -> Nat]
    BY ONLY <2>1, <2>2
  <2>4. record \in [Sessions -> Conference]
    BY DEF Conference
  <2> QED
    BY <2>3, <2>4
<1>3. TypeOK
  BY <1>2, IdleFields, UnmarkedType DEF TypeOK, Providers
<1>4. PresenceBacked
  BY UnmarkedType DEF PresenceBacked
<1>5. Creating = {}
  BY <1>1 DEF Creating, Jobs
<1>6. Counted
  BY <1>5, CreatingFinite, FS_EmptySet DEF Counted
<1>7. GoneIsEmpty /\ MarksHaveSource
  BY DEF GoneIsEmpty, MarksHaveSource
<1>8. \A j \in Jobs : JobInv(j)
  BY <1>1 DEF JobInv, Processing
<1> QED
  BY <1>3, <1>4, <1>6, <1>7, <1>8 DEF IInv

-----------------------------------------------------------------------------
(* What a step keeps of each part.                                          *)

\* Sessions and their rows only grow until the entry goes; a mark is taken away
\* from students staff handle only.
Grows ==
  /\ entry' # "gone" =>
       /\ entry # "gone"
       /\ present \subseteq present'
       /\ \A s \in Sessions : rows[s] \subseteq rows'[s]
  /\ handled \subseteq handled'
  /\ \A t \in Students : att[t] # Unmarked => att'[t] # Unmarked \/ t \in handled'

LEMMA JobInvKept ==
  ASSUME TypeOK, Grows, NEW j \in Jobs, JobInv(j),
         job'[j] = job[j] \/ job'[j].pc \notin {"exists", "mark"}
  PROVE  JobInv(j)'
<1> SUFFICES ASSUME Processing(j)'
             PROVE  JobInv(j)'
  BY DEF JobInv
<1>1. job'[j] = job[j] /\ Processing(j)
  BY DEF Processing
<1>2. entry' # "gone" => /\ job[j].snap.session \in present'
                         /\ job[j].eligible \subseteq rows'[job[j].snap.session]
  BY <1>1 DEF Grows, JobInv, TypeOK
<1>3. \A r \in job[j].eligible \ job[j].todo : att'[r.student] # Unmarked \/ r.student \in handled'
  BY <1>1 DEF Grows, JobInv
<1> QED
  BY <1>1, <1>2, <1>3 DEF JobInv

\* A presence that can be wrong after the step was there before it.
LEMMA BackedKept ==
  ASSUME TypeOK, PresenceBacked, handled \subseteq handled',
         \A s \in Sessions : rows[s] \subseteq rows'[s],
         \A t \in Students \ handled' :
           att'[t].source = "ONLINE_CLASS" /\ att'[t].session # NoSession =>
             att[t].source = "ONLINE_CLASS" /\ att[t].session = att'[t].session
  PROVE  PresenceBacked'
<1> SUFFICES ASSUME NEW t \in Students \ handled',
                    att'[t].source = "ONLINE_CLASS", att'[t].session # NoSession
             PROVE  \E r \in rows'[att'[t].session] : r.student = t /\ r.minutes >= Threshold
  BY DEF PresenceBacked, Threshold
<1>1. t \in Students \ handled /\ att[t].source = "ONLINE_CLASS" /\ att[t].session = att'[t].session
  OBVIOUS
<1>2. PICK r \in rows[att[t].session] : r.student = t /\ r.minutes >= Threshold
  BY <1>1 DEF PresenceBacked
<1>3. att[t].session \in Sessions
  BY <1>1 DEF TypeOK, Mark
<1> QED
  BY <1>1, <1>2, <1>3

LEMMA CountKept ==
  ASSUME TypeOK, Counted, generated' = generated, entry' # "gone" => entry # "gone",
         entry' # "gone" /\ present' = {} => present = {},
         \A c \in Cycles : job'[c].pc = "create" => job[c].pc = "create" \/ present = {}
  PROVE  Counted'
<1>1. generated \in Nat
  BY DEF TypeOK
<1>2. generated <= N
  BY <1>1, CreatingFinite DEF Counted
<1>3. CASE entry' = "gone"
  BY <1>2, <1>3 DEF Counted, N
<1>4. CASE entry' # "gone" /\ present = {}
  <2>1. Cardinality(Creating') <= N
    <3>1. Creating' \subseteq Cycles
      BY DEF Creating
    <3> QED
      BY <3>1, JobsAssumption, FS_Subset DEF N
  <2>2. generated = 0
    BY <1>4 DEF Counted
  <2>3. IsFiniteSet(Creating') /\ Cardinality(Creating') \in Nat
    <3>1. Creating' \subseteq Cycles
      BY DEF Creating
    <3> QED
      BY <3>1, JobsAssumption, FS_Subset, FS_CardinalityType
  <2>4. generated' + Cardinality(Creating') <= N
    BY <2>1, <2>2, <2>3
  <2> QED
    BY <1>4, <2>2, <2>4 DEF Counted, N
<1>5. CASE entry' # "gone" /\ present # {}
  <2>1. Creating' \subseteq Creating
    BY <1>5 DEF Creating
  <2>2. Cardinality(Creating') <= Cardinality(Creating) /\ Cardinality(Creating') \in Nat
    BY <2>1, CreatingFinite, FS_Subset, FS_CardinalityType
  <2>3. generated + Cardinality(Creating) <= N
    BY <1>5 DEF Counted
  <2>4. generated' + Cardinality(Creating') <= N
    BY <1>1, <2>2, <2>3, CreatingFinite
  <2> QED
    BY <1>5, <2>4 DEF Counted, N
<1> QED
  BY <1>3, <1>4, <1>5

\* A step that touches neither marks nor sessions, and no job that processes one.
LEMMA QuietInv ==
  ASSUME IInv, TypeOK', UNCHANGED <<present, rows, att, generated, handled>>,
         entry' = "gone" <=> entry = "gone",
         \A j \in Jobs : job'[j] = job[j] \/ job'[j].pc \notin {"exists", "mark"},
         \A c \in Cycles : job'[c].pc = "create" => job[c].pc = "create" \/ present = {}
  PROVE  IInv'
<1> USE DEF IInv
<1>1. Grows
  BY DEF Grows
<1>2. \A j \in Jobs : JobInv(j)'
  BY <1>1, JobInvKept
<1>3. PresenceBacked'
  BY BackedKept
<1>4. Counted'
  BY CountKept
<1>5. GoneIsEmpty' /\ MarksHaveSource'
  BY DEF GoneIsEmpty, MarksHaveSource
<1> QED
  BY <1>2, <1>3, <1>4, <1>5

-----------------------------------------------------------------------------
(* Where a job goes.                                                        *)
LEMMA FinishJob ==
  ASSUME TypeOK, NEW j \in Jobs, Finish(j)
  PROVE  /\ job' \in [Jobs -> Job]
         /\ \A i \in Jobs \ {j} : job'[i] = job[i]
         /\ job'[j].pc \notin {"create", "exists", "mark"}
  BY IdleFields DEF TypeOK, Finish

LEMMA LeaveJob ==
  ASSUME TypeOK, NEW j \in Jobs, Leave(j)
  PROVE  /\ job' \in [Jobs -> Job]
         /\ \A i \in Jobs \ {j} : job'[i] = job[i]
         /\ job'[j].pc \notin {"create", "exists", "mark"}
<1> DEFINE J == [Idle EXCEPT !.pc = "next", !.queue = job[j].queue]
<1>1. job[j] \in Job
  BY DEF TypeOK
<1>2. J \in Job /\ J.pc = "next"
  BY <1>1, IdleFields DEF Idle, Job, Pc
<1>3. job' = [job EXCEPT ![j] = IF j \in Cycles THEN J ELSE Idle]
  BY DEF Leave
<1> HIDE DEF J
<1> QED
  BY <1>2, <1>3, IdleFields DEF TypeOK

LEMMA UsedType == ASSUME NEW k \in Snapshot PROVE Used(k) \in Snapshot
  BY IdleFields DEF Used, Snapshot, NoSnapshot, Only

LEMMA DecideJob ==
  ASSUME TypeOK, NEW c \in Jobs, NEW k \in Snapshot, NEW Q \in SUBSET Snapshot, Decide(c, k, Q)
  PROVE  /\ job' \in [Jobs -> Job]
         /\ \A i \in Jobs \ {c} : job'[i] = job[i]
         /\ job'[c].pc \notin {"create", "exists", "mark"}
<1> DEFINE J == IF k.processed \/ ~over
                THEN [Idle EXCEPT !.pc = "next", !.queue = Q]
                ELSE [Idle EXCEPT !.pc = "fresh", !.queue = Q, !.snap = Used(k)]
<1>1. J \in Job /\ J.pc \in {"next", "fresh"}
  BY IdleFields, UsedType DEF Idle, Job, Pc
<1>2. job' = [job EXCEPT ![c] = J]
  BY DEF Decide
<1> HIDE DEF J
<1> QED
  BY <1>1, <1>2 DEF TypeOK

LEMMA AfterSyncJob ==
  ASSUME TypeOK, NEW j \in Jobs, AfterSync(j)
  PROVE  /\ job' \in [Jobs -> Job]
         /\ \A i \in Jobs \ {j} : job'[i] = job[i]
         /\ job'[j].pc \notin {"create", "exists", "mark"}
<1>1. job[j].snap \in Snapshot /\ job[j].queue \in SUBSET Snapshot
  BY DEF TypeOK, Job
<1> QED
  BY <1>1, FinishJob, DecideJob DEF AfterSync

LEMMA ReadType ==
  ASSUME TypeOK, NEW s \in Sessions
  PROVE  Read(s) \in Snapshot
  BY DEF TypeOK, Read, Snapshot, Row

-----------------------------------------------------------------------------
(* The cycle.                                                               *)
LEMMA StartCycleInv ==
  ASSUME IInv, NEW c \in Cycles, StartCycle(c)
  PROVE  IInv'
<1> USE DEF IInv, StartCycle, Goto, world, table
<1>1. job' \in [Jobs -> Job] /\ job'[c].pc \in {"check", "list"}
  BY DEF TypeOK, Jobs, Job, Pc
<1>2. \A i \in Jobs \ {c} : job'[i] = job[i]
  BY DEF TypeOK
<1>3. TypeOK'
  BY <1>1 DEF TypeOK
<1> QED
  BY <1>1, <1>2, <1>3, QuietInv, JobsAssumption DEF Jobs

LEMMA CheckOccurrenceInv ==
  ASSUME IInv, NEW c \in Cycles, CheckOccurrence(c)
  PROVE  IInv'
<1> USE DEF IInv, CheckOccurrence, Goto, world, table
<1>1. job' \in [Jobs -> Job] /\ job'[c].pc \in {"create", "list"}
  BY DEF TypeOK, Jobs, Job, Pc
<1>2. \A i \in Jobs \ {c} : job'[i] = job[i]
  BY DEF TypeOK
<1>3. job'[c].pc = "create" => present = {}
  <2>1. present # {} => job' = [job EXCEPT ![c].pc = "list"]
    OBVIOUS
  <2> QED
    BY <2>1 DEF TypeOK, Jobs, Job
<1>4. TypeOK'
  BY <1>1 DEF TypeOK
<1> QED
  BY <1>1, <1>2, <1>3, <1>4, QuietInv, JobsAssumption DEF Jobs

\* One more session row: nothing is known of it, and no job refers to it.
LEMMA InsertSessionKeeps ==
  ASSUME IInv, InsertSession, entry # "gone", UNCHANGED <<entry, att, handled>>,
         \A j \in Jobs : job'[j] = job[j] \/ job'[j].pc \notin {"exists", "mark"}
  PROVE  /\ present' \subseteq Sessions /\ present \subseteq present' /\ present' # {}
         /\ \A j \in Jobs : JobInv(j)'
         /\ PresenceBacked'
         /\ GoneIsEmpty' /\ MarksHaveSource'
<1> USE DEF IInv, InsertSession
<1>1. present' \subseteq Sessions /\ present \subseteq present' /\ present' # {}
  BY DEF TypeOK
<1>2. Grows
  BY <1>1 DEF Grows
<1>3. \A j \in Jobs : JobInv(j)'
  BY <1>2, JobInvKept
<1>4. PresenceBacked'
  BY BackedKept
<1> QED
  BY <1>1, <1>3, <1>4 DEF GoneIsEmpty, MarksHaveSource

LEMMA CreateOccurrenceInv ==
  ASSUME IInv, NEW c \in Cycles, CreateOccurrence(c)
  PROVE  IInv'
<1> USE DEF IInv, world, table
<1>1. c \in Jobs
  BY DEF Jobs
<1>2. CASE entry = "gone"
  <2> USE <1>2 DEF CreateOccurrence
  <2>1. Finish(c) /\ UNCHANGED <<world, table, generated, att, handled, edits>>
    OBVIOUS
  <2>2. TypeOK'
    BY <1>1, <2>1, FinishJob DEF TypeOK
  <2> QED
    BY <1>1, <2>1, <2>2, FinishJob, QuietInv, JobsAssumption DEF Jobs
<1>3. CASE entry # "gone"
  <2>1. /\ InsertSession /\ generated' = generated + 1 /\ Goto(c, "list")
        /\ UNCHANGED <<world, att, handled, edits>> /\ job[c].pc = "create"
    BY <1>3 DEF CreateOccurrence, At
  <2>2. job' \in [Jobs -> Job] /\ job'[c].pc = "list"
    <3>1. job[c] \in Job /\ "list" \in Pc /\ job' = [job EXCEPT ![c].pc = "list"]
      BY <1>1, <2>1 DEF Goto, TypeOK, Pc
    <3> QED
      BY <1>1, <3>1 DEF TypeOK, Job
  <2>3. \A i \in Jobs \ {c} : job'[i] = job[i]
    BY <2>1 DEF Goto, TypeOK
  <2>4. \A j \in Jobs : job'[j] = job[j] \/ job'[j].pc \notin {"exists", "mark"}
    BY <2>2, <2>3
  <2>5. /\ present' \subseteq Sessions /\ present \subseteq present' /\ present' # {}
        /\ \A j \in Jobs : JobInv(j)'
        /\ PresenceBacked'
        /\ GoneIsEmpty' /\ MarksHaveSource'
    BY <1>3, <2>1, <2>4, InsertSessionKeeps
  <2>6. TypeOK'
    BY <2>1, <2>2, <2>5 DEF TypeOK, InsertSession
  <2>7. Counted'
    <3>1. Creating' = Creating \ {c} /\ c \in Creating
      BY <1>1, <2>1, <2>2, <2>3, JobsAssumption DEF Creating, Jobs
    <3>2. Cardinality(Creating') = Cardinality(Creating) - 1
      BY <3>1, CreatingFinite, FS_RemoveElement
    <3>3. generated \in Nat /\ generated + Cardinality(Creating) <= N
      BY <1>3 DEF Counted, TypeOK
    <3>4. generated' + Cardinality(Creating') <= N
      BY <2>1, <3>2, <3>3, CreatingFinite
    <3> QED
      BY <1>3, <2>1, <2>5, <3>4 DEF Counted, N
  <2> QED
    BY <2>5, <2>6, <2>7
<1> QED
  BY <1>2, <1>3

LEMMA ListCandidatesInv ==
  ASSUME IInv, NEW c \in Cycles, ListCandidates(c)
  PROVE  IInv'
<1> USE DEF IInv, world, table
<1>1. c \in Jobs /\ job[c] \in Job
  BY DEF Jobs, TypeOK
<1>2. UNCHANGED <<world, table, att, generated, handled, edits>>
  BY DEF ListCandidates
<1>3. /\ job' \in [Jobs -> Job]
      /\ \A i \in Jobs \ {c} : job'[i] = job[i]
      /\ job'[c].pc \notin {"create", "exists", "mark"}
  <2>1. CASE job' = [job EXCEPT ![c].pc = "next", ![c].queue = {Read(s) : s \in OnGoogleMeet}]
    <3>1. PICK Q \in SUBSET Snapshot : Q = {Read(s) : s \in OnGoogleMeet}
      BY ReadType DEF TypeOK, OnGoogleMeet
    <3>2. job' = [job EXCEPT ![c].pc = "next", ![c].queue = Q]
      BY <2>1, <3>1
    <3> QED
      BY <1>1, <3>2 DEF TypeOK, Job, Pc
  <2>2. CASE Finish(c)
    BY <1>1, <2>2, FinishJob
  <2>3. CASE Goto(c, "next")
    BY <1>1, <2>3 DEF Goto, TypeOK, Job, Pc
  <2> QED
    BY <2>1, <2>2, <2>3 DEF ListCandidates
<1>4. TypeOK'
  BY <1>2, <1>3 DEF TypeOK
<1> QED
  BY <1>1, <1>2, <1>3, <1>4, QuietInv, JobsAssumption DEF Jobs

LEMMA NextCandidateInv ==
  ASSUME IInv, NEW c \in Cycles, NextCandidate(c)
  PROVE  IInv'
<1> USE DEF IInv, world, table
<1>1. c \in Jobs /\ job[c] \in Job
  BY DEF Jobs, TypeOK
<1>2. UNCHANGED <<world, table, att, generated, handled, edits>>
  BY DEF NextCandidate
<1>3. /\ job' \in [Jobs -> Job]
      /\ \A i \in Jobs \ {c} : job'[i] = job[i]
      /\ job'[c].pc \notin {"create", "exists", "mark"}
  <2>1. CASE Finish(c)
    BY <1>1, <2>1, FinishJob
  <2>2. ASSUME NEW q \in job[c].queue,
               \/ job' = [job EXCEPT ![c].pc = "fetch", ![c].queue = @ \ {q}, ![c].snap = q]
               \/ Decide(c, q, job[c].queue \ {q})
        PROVE  /\ job' \in [Jobs -> Job]
               /\ \A i \in Jobs \ {c} : job'[i] = job[i]
               /\ job'[c].pc \notin {"create", "exists", "mark"}
    <3>1. PICK Q \in SUBSET Snapshot : Q = job[c].queue \ {q}
      BY <1>1 DEF Job
    <3>2. q \in Snapshot
      BY <1>1 DEF Job
    <3>3. CASE Decide(c, q, Q)
      BY <1>1, <3>2, <3>3, DecideJob
    <3>4. CASE job' = [job EXCEPT ![c].pc = "fetch", ![c].queue = Q, ![c].snap = q]
      BY <1>1, <3>2, <3>4 DEF TypeOK, Job, Pc
    <3> QED
      BY <2>2, <3>1, <3>3, <3>4
  <2> QED
    BY <2>1, <2>2 DEF NextCandidate
<1>4. TypeOK'
  BY <1>2, <1>3 DEF TypeOK
<1> QED
  BY <1>1, <1>2, <1>3, <1>4, QuietInv, JobsAssumption DEF Jobs

-----------------------------------------------------------------------------
(* Synchronization.                                                         *)

\* A job that moves on without touching anything but its own locals, the
\* conference of a session, or what a session counts as processed.
LEMMA MoveOnInv ==
  ASSUME IInv, NEW j \in Jobs, TypeOK',
         UNCHANGED <<entry, present, rows, att, generated, handled>>,
         \A i \in Jobs \ {j} : job'[i] = job[i],
         job'[j].pc \notin {"create", "exists", "mark"}
  PROVE  IInv'
<1>1. \A i \in Jobs : job'[i] = job[i] \/ job'[i].pc \notin {"exists", "mark"}
  OBVIOUS
<1>2. \A c \in Cycles : job'[c].pc = "create" => job[c].pc = "create"
  BY DEF Jobs
<1> QED
  BY <1>1, <1>2, QuietInv

LEMMA StartSyncInv ==
  ASSUME IInv, NEW r \in Requests, NEW s \in Sessions, StartSync(r, s)
  PROVE  IInv'
<1> USE DEF IInv, world, table
<1>1. r \in Jobs /\ job[r] \in Job
  BY DEF Jobs, TypeOK
<1>2. PICK k \in Snapshot : k = Read(s)
  BY ReadType
<1>3. job' = [job EXCEPT ![r].pc = "fetch", ![r].snap = k]
  BY <1>2 DEF StartSync
<1>4. job' \in [Jobs -> Job] /\ job'[r].pc = "fetch" /\ \A i \in Jobs \ {r} : job'[i] = job[i]
  BY <1>1, <1>2, <1>3 DEF TypeOK, Job, Pc
<1>5. TypeOK'
  BY <1>4 DEF TypeOK, StartSync
<1> QED
  BY <1>1, <1>4, <1>5, MoveOnInv DEF StartSync

LEMMA RowsOfType ==
  ASSUME TypeOK, NEW v \in Visits
  PROVE  RowsOf(v) \subseteq Row
<1>1. (IF Match[v] = {} THEN {NoStudent} ELSE Match[v]) \subseteq Students \cup {NoStudent}
  BY VisitsAssumption
<1>2. stay[v] \in Nat
  BY DEF TypeOK
<1> QED
  BY <1>1, <1>2 DEF RowsOf, Row

LEMMA FetchParticipantsInv ==
  ASSUME IInv, NEW j \in Jobs, FetchParticipants(j)
  PROVE  IInv'
<1> USE DEF IInv, world, table
<1>1. job[j] \in Job /\ job[j].snap \in Snapshot
  BY DEF TypeOK, Job
<1>2. UNCHANGED <<world, table, att, generated, handled, edits>>
  BY DEF FetchParticipants
<1>3. /\ job' \in [Jobs -> Job]
      /\ \A i \in Jobs \ {j} : job'[i] = job[i]
      /\ job'[j].pc \notin {"create", "exists", "mark"}
  <2>1. CASE AfterSync(j)
    BY <2>1, AfterSyncJob
  <2>2. CASE ~AfterSync(j)
    <3> DEFINE V == Attended(Resolved(job[j].snap)) \ job[j].snap.known
    <3>1. PICK F \in SUBSET UNION {RowsOf(v) : v \in V} :
            job' = [job EXCEPT ![j].pc = "save", ![j].snap = Used(job[j].snap),
                               ![j].record = Resolved(job[j].snap), ![j].found = F]
      BY <2>2 DEF FetchParticipants
    <3>2. F \subseteq Row
      BY RowsOfType DEF Attended
    <3>3. PICK c \in Conference : c = Resolved(job[j].snap)
      BY <1>1 DEF Resolved, Snapshot, Conference
    <3>4. PICK k \in Snapshot : k = Used(job[j].snap)
      BY <1>1, UsedType
    <3> HIDE DEF V
    <3>5. job' = [job EXCEPT ![j].pc = "save", ![j].snap = k, ![j].record = c, ![j].found = F]
      BY <3>1, <3>3, <3>4
    <3> QED
      BY <1>1, <3>2, <3>5 DEF TypeOK, Job, Pc
  <2> QED
    BY <2>1, <2>2
<1>4. TypeOK'
  BY <1>2, <1>3 DEF TypeOK
<1> QED
  BY <1>2, <1>3, <1>4, MoveOnInv

LEMMA SaveConferenceInv ==
  ASSUME IInv, NEW j \in Jobs, SaveConference(j)
  PROVE  IInv'
<1> USE DEF IInv, world
<1>1. job[j] \in Job
  BY DEF TypeOK
<1>2. UNCHANGED <<world, present, provider, processed, rows, att, generated, handled, edits>>
  BY DEF SaveConference
<1>3. record' \in [Sessions -> Conference]
  BY <1>1 DEF SaveConference, TypeOK, Job
<1>4. /\ job' \in [Jobs -> Job]
      /\ \A i \in Jobs \ {j} : job'[i] = job[i]
      /\ job'[j].pc \notin {"create", "exists", "mark"}
  <2>1. CASE AfterSync(j)
    BY <2>1, AfterSyncJob
  <2>2. CASE job' = [job EXCEPT ![j].pc = "record", ![j].record = "none"]
    BY <1>1, <2>2 DEF TypeOK, Job, Pc, Conference
  <2> QED
    BY <2>1, <2>2 DEF SaveConference
<1>5. TypeOK'
  BY <1>2, <1>3, <1>4 DEF TypeOK
<1> QED
  BY <1>2, <1>4, <1>5, MoveOnInv

\* Rows are added to a session that exists.
LEMMA RowsGrowInv ==
  ASSUME IInv, NEW j \in Jobs, TypeOK', UNCHANGED <<entry, present, att, generated, handled>>,
         \A s \in Sessions : rows[s] \subseteq rows'[s],
         \A i \in Jobs : job'[i] = job[i] \/ job'[i].pc \notin {"create", "exists", "mark"}
  PROVE  IInv'
<1> USE DEF IInv
<1>1. Grows
  BY DEF Grows
<1>2. \A i \in Jobs : JobInv(i)'
  BY <1>1, JobInvKept
<1>3. PresenceBacked'
  BY BackedKept
<1>4. Counted'
  BY CountKept DEF Jobs
<1> QED
  BY <1>2, <1>3, <1>4 DEF GoneIsEmpty, MarksHaveSource

LEMMA RecordParticipantInv ==
  ASSUME IInv, NEW j \in Jobs, RecordParticipant(j)
  PROVE  IInv'
<1> USE DEF IInv, world
<1>1. job[j] \in Job
  BY DEF TypeOK
<1>2. UNCHANGED <<world, present, provider, record, processed, att, generated, handled, edits>>
  BY DEF RecordParticipant
<1>3. CASE AfterSync(j) /\ UNCHANGED rows
  <2>1. TypeOK'
    BY <1>2, <1>3, AfterSyncJob DEF TypeOK
  <2> QED
    BY <1>2, <1>3, <2>1, AfterSyncJob, MoveOnInv
<1>4. ASSUME NEW r \in job[j].found,
             rows' = [rows EXCEPT ![job[j].snap.session] = @ \cup {r}],
             job' = [job EXCEPT ![j].found = @ \ {r}], job[j].pc = "record"
      PROVE  IInv'
  <2>1. r \in Row
    BY <1>1 DEF Job
  <2>2. rows' \in [Sessions -> SUBSET Row] /\ \A s \in Sessions : rows[s] \subseteq rows'[s]
    BY <1>4, <2>1 DEF TypeOK
  <2>3. PICK F \in SUBSET Row : F = job[j].found \ {r}
    BY <1>1 DEF Job
  <2>4. job' = [job EXCEPT ![j].found = F]
    BY <1>4, <2>3
  <2>5. job' \in [Jobs -> Job] /\ job'[j].pc = "record" /\ \A i \in Jobs \ {j} : job'[i] = job[i]
    BY <1>1, <1>4, <2>4 DEF TypeOK, Job
  <2>6. TypeOK'
    BY <1>2, <2>2, <2>5 DEF TypeOK
  <2>7. \A i \in Jobs : job'[i] = job[i] \/ job'[i].pc \notin {"create", "exists", "mark"}
    BY <2>5
  <2> QED
    BY <1>2, <2>2, <2>6, <2>7, RowsGrowInv
<1> QED
  BY <1>3, <1>4 DEF RecordParticipant, At

-----------------------------------------------------------------------------
(* Processing.                                                              *)
LEMMA OnlyType ==
  ASSUME NEW s \in Sessions
  PROVE  Only(s) \in Snapshot /\ Only(s).session = s
BY DEF Only, Snapshot, Conference

LEMMA BeginInv ==
  ASSUME IInv, NEW j \in Jobs, NEW s \in present, Begin(j, s),
         UNCHANGED <<world, table, att, generated, handled, edits>>
  PROVE  IInv'
<1> USE DEF IInv, world, table
<1>1. job[j] \in Job /\ s \in Sessions
  BY DEF TypeOK
<1>2. PICK k \in Snapshot : k = Only(s) /\ k.session = s
  <2>1. Only(s) \in Snapshot /\ Only(s).session = s
    BY <1>1, OnlyType
  <2> QED
    BY <2>1
<1>3. PICK E \in SUBSET Row : E = Eligible(rows[s])
  BY <1>1 DEF Eligible, TypeOK
<1>4. job' = [job EXCEPT ![j].pc = "exists", ![j].snap = k, ![j].eligible = E, ![j].todo = E]
  BY <1>2, <1>3 DEF Begin
<1>5. /\ job' \in [Jobs -> Job]
      /\ \A i \in Jobs \ {j} : job'[i] = job[i]
      /\ job'[j].pc = "exists" /\ job'[j].snap = k /\ job'[j].eligible = E /\ job'[j].todo = E
  BY <1>1, <1>4 DEF TypeOK, Job, Pc
<1>6. TypeOK'
  BY <1>5 DEF TypeOK
<1>7. Grows
  BY DEF Grows
<1>8. JobInv(j)'
  <2>1. \A r \in E : r.student \in Students /\ r.minutes >= Threshold /\ r \in rows[s]
    BY <1>3 DEF Eligible, Row
  <2> QED
    BY <1>2, <1>5, <2>1 DEF JobInv
<1>9. \A i \in Jobs : JobInv(i)'
  BY <1>5, <1>7, <1>8, JobInvKept
<1>10. PresenceBacked'
  BY BackedKept
<1>11. Counted'
  BY <1>5, CountKept DEF Jobs
<1> QED
  BY <1>6, <1>9, <1>10, <1>11 DEF GoneIsEmpty, MarksHaveSource

LEMMA ReadFreshInv ==
  ASSUME IInv, NEW c \in Cycles, ReadFresh(c)
  PROVE  IInv'
<1>1. c \in Jobs
  BY DEF Jobs
<1>2. CASE job[c].snap.session \in present
  BY <1>1, <1>2, BeginInv DEF ReadFresh
<1>3. CASE Leave(c) /\ UNCHANGED <<world, table, att, generated, handled, edits>>
  <2>1. TypeOK'
    BY <1>1, <1>3, LeaveJob DEF IInv, TypeOK, world, table
  <2> QED
    BY <1>1, <1>3, <2>1, LeaveJob, MoveOnInv DEF IInv, world, table
<1> QED
  BY <1>2, <1>3 DEF ReadFresh

LEMMA StartProcessInv ==
  ASSUME IInv, NEW r \in Requests, NEW s \in Sessions, StartProcess(r, s)
  PROVE  IInv'
  BY BeginInv DEF StartProcess, Jobs

LEMMA CheckMarkInv ==
  ASSUME IInv, NEW j \in Jobs, CheckMark(j)
  PROVE  IInv'
<1> USE DEF IInv, world, table
<1>1. job[j] \in Job /\ job[j].pc = "exists" /\ Processing(j)
  BY DEF TypeOK, CheckMark, At, Processing
<1>2. UNCHANGED <<world, table, att, generated, handled, edits>>
  BY DEF CheckMark
<1>3. PICK r \in job[j].todo :
        IF att[r.student] # Unmarked
        THEN job' = [job EXCEPT ![j].todo = @ \ {r}]
        ELSE job' = [job EXCEPT ![j].pc = "mark", ![j].row = r]
  BY DEF CheckMark
<1>4. r \in Row /\ r \in job[j].eligible
  BY <1>1 DEF Job, JobInv
<1>5. PICK D \in SUBSET Row : D = job[j].todo \ {r}
  BY <1>1 DEF Job
<1>6. /\ job' \in [Jobs -> Job]
      /\ \A i \in Jobs \ {j} : job'[i] = job[i]
      /\ job'[j].snap = job[j].snap /\ job'[j].eligible = job[j].eligible
      /\ \/ /\ att[r.student] # Unmarked
            /\ job'[j].pc = "exists" /\ job'[j].todo = D
         \/ job'[j].pc = "mark" /\ job'[j].row = r /\ job'[j].todo = job[j].todo
  <2>1. CASE att[r.student] # Unmarked
    <3>1. job' = [job EXCEPT ![j].todo = D]
      BY <1>3, <1>5, <2>1
    <3> QED
      BY <1>1, <2>1, <3>1 DEF TypeOK, Job
  <2>2. CASE att[r.student] = Unmarked
    <3>1. job' = [job EXCEPT ![j].pc = "mark", ![j].row = r]
      BY <1>3, <2>2
    <3> QED
      BY <1>1, <1>4, <3>1 DEF TypeOK, Job, Pc
  <2> QED
    BY <2>1, <2>2
<1>7. TypeOK'
  BY <1>2, <1>6 DEF TypeOK
<1>8. Grows
  BY <1>2 DEF Grows
<1>9. JobInv(j)'
  <2>1. JobInv(j)
    OBVIOUS
  <2> QED
    BY <1>1, <1>2, <1>3, <1>4, <1>5, <1>6, <2>1 DEF JobInv, Processing
<1>10. \A i \in Jobs : JobInv(i)'
  BY <1>6, <1>8, <1>9, JobInvKept
<1>11. PresenceBacked'
  BY <1>2, BackedKept
<1>12. Counted'
  BY <1>2, <1>6, CountKept DEF Jobs
<1> QED
  BY <1>2, <1>7, <1>10, <1>11, <1>12 DEF GoneIsEmpty, MarksHaveSource

LEMMA PresenceType ==
  ASSUME NEW s \in Sessions
  PROVE  /\ Presence(s) \in Mark /\ Presence(s) # Unmarked
         /\ Presence(s).source = "ONLINE_CLASS" /\ Presence(s).session = s
  BY DEF Presence, Mark, Unmarked

LEMMA CreateMarkInv ==
  ASSUME IInv, NEW j \in Jobs, CreateMark(j)
  PROVE  IInv'
<1> USE DEF IInv, world, table
<1> DEFINE s == job[j].snap.session
           t == job[j].row.student
<1>1. job[j] \in Job /\ job[j].pc = "mark" /\ Processing(j)
  BY DEF TypeOK, CreateMark, At, Processing
<1>2. UNCHANGED <<world, table, generated, handled, edits>>
  BY DEF CreateMark
<1>3. CASE Leave(j) /\ UNCHANGED att
  <2>1. TypeOK'
    BY <1>2, <1>3, LeaveJob DEF TypeOK
  <2> QED
    BY <1>2, <1>3, <2>1, LeaveJob, MoveOnInv
<1>4. CASE att[t] = Unmarked /\ s \in present
  <2>1. JobInv(j)
    OBVIOUS
  <2>2. /\ t \in Students /\ job[j].row.minutes >= Threshold
        /\ job[j].row \in job[j].eligible /\ entry # "gone" /\ job[j].row \in rows[s]
        /\ s \in Sessions
    BY <1>1, <1>4, <2>1 DEF JobInv, TypeOK, GoneIsEmpty
  <2>3. PICK D \in SUBSET Row : D = job[j].todo \ {job[j].row}
    BY <1>1 DEF Job
  <2>4. PICK u \in Students : u = t
    BY <2>2
  <2>5. PICK o \in Sessions : o = s
    BY <2>2
  <2>6. /\ att' = [att EXCEPT ![u] = Presence(o)]
        /\ job' = [job EXCEPT ![j].pc = "exists", ![j].todo = D, ![j].row = NoRow]
    BY <1>4, <2>3, <2>4, <2>5 DEF CreateMark
  <2>7. /\ job' \in [Jobs -> Job]
        /\ \A i \in Jobs \ {j} : job'[i] = job[i]
        /\ job'[j].snap = job[j].snap /\ job'[j].eligible = job[j].eligible
        /\ job'[j].pc = "exists" /\ job'[j].todo = D
    BY <1>1, <2>6, IdleFields DEF TypeOK, Job, Pc
  <2>8. /\ att' \in [Students -> Mark] /\ att'[u] = Presence(o)
        /\ \A i \in Students \ {u} : att'[i] = att[i]
    BY <2>6, PresenceType DEF TypeOK
  <2>9. TypeOK'
    <3>1. \A i \in Students : att'[i].session \in present' \cup {NoSession}
      BY <1>2, <1>4, <2>5, <2>8, PresenceType DEF TypeOK
    <3> QED
      BY <1>2, <2>7, <2>8, <3>1 DEF TypeOK
  <2>10. Grows
    BY <1>2, <2>8, PresenceType DEF Grows
  <2>11. JobInv(j)'
    <3>1. /\ D \subseteq job[j].eligible
          /\ \A r \in job[j].eligible \ D : att'[r.student] # Unmarked \/ r.student \in handled'
      BY <1>1, <1>2, <2>1, <2>3, <2>4, <2>8, PresenceType DEF JobInv
    <3> QED
      BY <1>1, <1>2, <2>1, <2>7, <3>1 DEF JobInv
  <2>12. \A i \in Jobs : JobInv(i)'
    BY <2>7, <2>10, <2>11, JobInvKept
  <2>13. PresenceBacked'
    <3> SUFFICES ASSUME NEW i \in Students \ handled',
                        att'[i].source = "ONLINE_CLASS", att'[i].session # NoSession
                 PROVE  \E r \in rows'[att'[i].session] : r.student = i /\ r.minutes >= Threshold
      BY DEF PresenceBacked, Threshold
    <3>1. CASE i = u
      BY <1>2, <2>2, <2>4, <2>5, <2>8, <3>1, PresenceType
    <3>2. CASE i # u
      BY <1>2, <2>8, <3>2 DEF PresenceBacked
    <3> QED
      BY <3>1, <3>2
  <2>14. MarksHaveSource'
    BY <2>8, PresenceType DEF MarksHaveSource
  <2>15. Counted'
    BY <1>2, <2>7, CountKept DEF Jobs
  <2> QED
    BY <1>2, <2>9, <2>12, <2>13, <2>14, <2>15 DEF GoneIsEmpty
<1> QED
  BY <1>3, <1>4 DEF CreateMark

LEMMA MarkAttendanceProcessedInv ==
  ASSUME IInv, NEW j \in Jobs, MarkAttendanceProcessed(j)
  PROVE  IInv'
<1> USE DEF IInv, world, table, MarkAttendanceProcessed
<1>1. TypeOK'
  BY LeaveJob DEF TypeOK
<1> QED
  BY <1>1, LeaveJob, MoveOnInv

-----------------------------------------------------------------------------
(* Staff and the world.                                                     *)
LEMMA CreateByHandInv == ASSUME IInv, CreateByHand PROVE IInv'
<1> USE DEF IInv, CreateByHand, Edit, world
<1>1. /\ present' \subseteq Sessions /\ present \subseteq present' /\ present' # {}
      /\ \A j \in Jobs : JobInv(j)'
      /\ PresenceBacked'
      /\ GoneIsEmpty' /\ MarksHaveSource'
  BY InsertSessionKeeps
<1>2. TypeOK'
  BY <1>1 DEF TypeOK, InsertSession
<1>3. Counted'
  BY <1>1, CountKept
<1> QED
  BY <1>1, <1>2, <1>3

LEMMA AddParticipantInv ==
  ASSUME IInv, NEW s \in Sessions, NEW r \in HandRows, AddParticipant(s, r)
  PROVE  IInv'
<1> USE DEF IInv, world
<1>1. r \in Row
  BY RowsAssumption
<1>2. rows' \in [Sessions -> SUBSET Row] /\ \A i \in Sessions : rows[i] \subseteq rows'[i]
  BY <1>1 DEF TypeOK, AddParticipant
<1>3. /\ TypeOK'
      /\ UNCHANGED <<world, present, provider, record, processed, att, job, generated, handled>>
  BY <1>2 DEF TypeOK, AddParticipant, Edit
<1>4. Cron \in Jobs
  BY JobsAssumption DEF Jobs
<1> QED
  BY <1>2, <1>3, <1>4, RowsGrowInv

LEMMA UpdateEntryInv ==
  ASSUME IInv, NEW x \in {"online", "offline"}, NEW p \in Providers, UpdateEntry(x, p)
  PROVE  IInv'
<1> USE DEF IInv, UpdateEntry, Edit, table
<1>1. TypeOK'
  BY DEF TypeOK
<1> QED
  BY <1>1, QuietInv

LEMMA DeleteEntryInv == ASSUME IInv, DeleteEntry PROVE IInv'
<1> USE DEF IInv, DeleteEntry, Edit
<1>1. /\ att' \in [Students -> Mark]
      /\ \A t \in Students : /\ att'[t].session = NoSession
                           /\ att'[t].source = att[t].source /\ att'[t].status = att[t].status
  BY DEF TypeOK, Mark
<1>2. TypeOK'
  BY <1>1 DEF TypeOK, Conference, Providers
<1>3. \A t \in Students : att[t] # Unmarked => att'[t] # Unmarked
  BY <1>1, UnmarkedType DEF MarksHaveSource
<1>4. MarksHaveSource'
  <2> SUFFICES ASSUME NEW t \in Students, att'[t].source = "NONE"
               PROVE  att'[t] = Unmarked
    BY DEF MarksHaveSource
  <2>1. att[t] = Unmarked
    BY <1>1 DEF MarksHaveSource
  <2> QED
    BY <2>1 DEF Unmarked
<1>5. Grows
  BY <1>3 DEF Grows
<1>6. \A j \in Jobs : JobInv(j)'
  BY <1>5, JobInvKept
<1>7. PresenceBacked'
  BY <1>1 DEF PresenceBacked
<1>8. Counted'
  BY CountKept
<1> QED
  BY <1>2, <1>4, <1>6, <1>7, <1>8 DEF GoneIsEmpty

\* Staff edit marks: whoever loses one is handled, and a presence of the
\* automation is still the one it was.
LEMMA MarksEditedInv ==
  ASSUME IInv, UNCHANGED <<world, table, job, generated>>, Edit,
         att' \in [Students -> Mark], MarksHaveSource',
         handled \subseteq handled', handled' \subseteq Students,
         \A t \in Students : att'[t].session \in present \cup {NoSession},
         \A t \in Students : att[t] # Unmarked => att'[t] # Unmarked \/ t \in handled',
         \A t \in Students \ handled' :
           att'[t].source = "ONLINE_CLASS" /\ att'[t].session # NoSession =>
             att[t].source = "ONLINE_CLASS" /\ att[t].session = att'[t].session
  PROVE  IInv'
<1> USE DEF IInv, world, table
<1>1. TypeOK'
  BY DEF TypeOK, Edit
<1>2. Grows
  BY DEF Grows
<1>3. \A j \in Jobs : JobInv(j)'
  BY <1>2, JobInvKept
<1>4. PresenceBacked'
  BY BackedKept
<1>5. Counted'
  BY CountKept
<1> QED
  BY <1>1, <1>3, <1>4, <1>5 DEF GoneIsEmpty

LEMMA CreateAttendanceInv ==
  ASSUME IInv, NEW T \in SUBSET Students, NEW x \in {"PRESENT", "ABSENT"}, CreateAttendance(T, x)
  PROVE  IInv'
<1> USE DEF IInv, CreateAttendance
<1> DEFINE M == [source |-> "MANUAL", status |-> x, session |-> NoSession]
<1>1. M \in Mark /\ M # Unmarked /\ M.source = "MANUAL" /\ M.session = NoSession
  BY DEF Mark, Unmarked
<1>2. \A t \in Students : att'[t] = IF t \in T THEN M ELSE att[t]
  OBVIOUS
<1>3. att' \in [Students -> Mark]
  BY <1>1 DEF TypeOK
<1> HIDE DEF M
<1>4. MarksHaveSource'
  BY <1>1, <1>2 DEF MarksHaveSource
<1> QED
  BY <1>1, <1>2, <1>3, <1>4, MarksEditedInv DEF TypeOK

LEMMA UpdateStatusInv ==
  ASSUME IInv, NEW T \in SUBSET Students, NEW x \in {"PRESENT", "ABSENT"}, UpdateStatus(T, x)
  PROVE  IInv'
<1> USE DEF IInv, UpdateStatus
<1>1. att' \in [Students -> Mark]
  BY DEF TypeOK, Mark
<1>2. \A t \in Students : att'[t].source = att[t].source /\ att'[t].session = att[t].session
  BY DEF TypeOK, Mark
<1>3. \A t \in Students : att'[t] = att[t] \/ att[t].source # "NONE"
  BY DEF MarksHaveSource
<1>4. MarksHaveSource'
  BY <1>2, <1>3 DEF MarksHaveSource
<1>5. \A t \in Students : att[t] # Unmarked => att'[t] # Unmarked
  BY <1>2, <1>3, UnmarkedType
<1> QED
  BY <1>1, <1>2, <1>4, <1>5, MarksEditedInv DEF TypeOK

LEMMA MoveAttendanceInv ==
  ASSUME IInv, NEW t \in Students, NEW u \in Students, MoveAttendance(t, u)
  PROVE  IInv'
<1> USE DEF IInv, MoveAttendance
<1>1. att' \in [Students -> Mark]
  BY UnmarkedType DEF TypeOK
<1>2. /\ att'[t] = Unmarked /\ att'[u] = att[t]
      /\ \A i \in Students \ {t, u} : att'[i] = att[i]
  BY DEF TypeOK
<1>3. MarksHaveSource'
  BY <1>2 DEF MarksHaveSource
<1>4. \A i \in Students : att'[i].session \in present \cup {NoSession}
  BY <1>2, UnmarkedType DEF TypeOK
<1>5. handled' \subseteq Students
  BY DEF TypeOK
<1> QED
  BY <1>1, <1>2, <1>3, <1>4, <1>5, MarksEditedInv

LEMMA DeleteAttendanceInv ==
  ASSUME IInv, NEW T \in SUBSET Students, DeleteAttendance(T)
  PROVE  IInv'
<1> USE DEF IInv, DeleteAttendance
<1>1. att' \in [Students -> Mark]
  BY UnmarkedType DEF TypeOK
<1>2. \A i \in Students : att'[i] = IF i \in T THEN Unmarked ELSE att[i]
  OBVIOUS
<1>3. MarksHaveSource'
  BY <1>2 DEF MarksHaveSource
<1>4. \A i \in Students : att'[i].session \in present \cup {NoSession}
  BY <1>2, UnmarkedType DEF TypeOK
<1>5. handled' \subseteq Students
  BY DEF TypeOK
<1> QED
  BY <1>1, <1>2, <1>3, <1>4, <1>5, MarksEditedInv

LEMMA WorldStepInv == ASSUME IInv, WorldStep PROVE IInv'
<1> USE DEF IInv, table
<1>1. /\ TypeOK'
      /\ UNCHANGED <<entry, table, att, job, generated, handled>>
  <2>1. ASSUME NEW v \in Visits, Join(v)
        PROVE  TypeOK' /\ UNCHANGED <<entry, table, att, job, generated, handled>>
    BY <2>1 DEF Join, TypeOK
  <2>2. ASSUME NEW v \in Visits, NEW m \in Stays, LeaveMeeting(v, m)
        PROVE  TypeOK' /\ UNCHANGED <<entry, table, att, job, generated, handled>>
    <3>1. m \in Nat
      BY VisitsAssumption
    <3> QED
      BY <2>2, <3>1 DEF LeaveMeeting, TypeOK
  <2>3. CASE End
    BY <2>3 DEF End, TypeOK
  <2>4. CASE Disturb
    BY <2>4 DEF Disturb, Edit, TypeOK
  <2> QED
    BY <2>1, <2>2, <2>3, <2>4 DEF WorldStep
<1> QED
  BY <1>1, QuietInv

LEMMA FailureInv ==
  ASSUME IInv, NEW j \in Jobs, Fail(j) \/ Abort(j)
  PROVE  IInv'
<1> USE DEF IInv, world, table
<1>1. UNCHANGED <<world, table, att, generated, handled>> /\ Edit
  BY DEF Fail, Abort
<1>2. AfterSync(j) \/ Leave(j) \/ Finish(j)
  BY DEF Fail, Abort
<1>3. /\ job' \in [Jobs -> Job]
      /\ \A i \in Jobs \ {j} : job'[i] = job[i]
      /\ job'[j].pc \notin {"create", "exists", "mark"}
  BY <1>2, AfterSyncJob, LeaveJob, FinishJob
<1>4. TypeOK'
  BY <1>1, <1>3 DEF TypeOK, Edit
<1> QED
  BY <1>1, <1>3, <1>4, MoveOnInv

-----------------------------------------------------------------------------
(* Theorems.                                                                *)
LEMMA StepInv == IInv /\ [Next]_vars => IInv'
<1> SUFFICES ASSUME IInv, [Next]_vars
             PROVE  IInv'
  OBVIOUS
<1>1. ASSUME NEW c \in Cycles, StartCycle(c) \/ CycleStep(c)
      PROVE  IInv'
  BY <1>1, StartCycleInv, CheckOccurrenceInv, CreateOccurrenceInv, ListCandidatesInv,
     NextCandidateInv, ReadFreshInv DEF CycleStep
<1>2. ASSUME NEW r \in Requests, NEW s \in Sessions, StartSync(r, s) \/ StartProcess(r, s)
      PROVE  IInv'
  BY <1>2, StartSyncInv, StartProcessInv
<1>3. ASSUME NEW j \in Jobs, JobStep(j)
      PROVE  IInv'
  BY <1>3, FetchParticipantsInv, SaveConferenceInv, RecordParticipantInv, CheckMarkInv,
     CreateMarkInv, MarkAttendanceProcessedInv DEF JobStep
<1>4. ASSUME NEW j \in Jobs, Fail(j) \/ Abort(j)
      PROVE  IInv'
  BY <1>4, FailureInv
<1>5. CASE StaffStep
  BY <1>5, CreateByHandInv, AddParticipantInv, UpdateEntryInv, DeleteEntryInv,
     CreateAttendanceInv, UpdateStatusInv, MoveAttendanceInv, DeleteAttendanceInv DEF StaffStep
<1>6. CASE WorldStep
  BY <1>6, WorldStepInv
<1>7. CASE UNCHANGED vars
  <2>1. TypeOK'
    BY <1>7 DEF IInv, TypeOK, vars
  <2> QED
    BY <1>7, <2>1, QuietInv DEF vars
<1> QED
  BY <1>1, <1>2, <1>3, <1>4, <1>5, <1>6, <1>7 DEF Next

\* The inductive invariant: what the next theorems follow from.
THEOREM Inductive == Spec => []IInv
  BY InitInv, StepInv, PTL DEF Spec

\* Every variable keeps its type, and references between rows hold.
THEOREM TypeCorrect == Spec => []TypeOK
<1>1. IInv => TypeOK
  BY DEF IInv
<1> QED
  BY <1>1, Inductive, PTL

\* A presence written by the automation is backed by an eligible participant row
\* of that student, unless staff moved or deleted a mark of hers.
THEOREM PresencesBacked == Spec => []PresenceBacked
<1>1. IInv => PresenceBacked
  BY DEF IInv
<1> QED
  BY <1>1, Inductive, PTL

\* Cycles create at most as many sessions of an occurrence as may overlap.
THEOREM OccurrencesBounded == Spec => []SessionsPerOccurrence
<1>1. IInv => SessionsPerOccurrence
  <2> SUFFICES ASSUME IInv
               PROVE  generated <= N
    BY DEF SessionsPerOccurrence, N
  <2>1. generated \in Nat
    BY DEF IInv, TypeOK
  <2> QED
    BY <2>1, CreatingFinite DEF IInv, Counted
<1> QED
  BY <1>1, Inductive, PTL

\* No step of the automation changes a mark that exists.
THEOREM MarksStay == Spec => TeachersMarkStays
<1> DEFINE Keeps == \A t \in Students : att[t] # Unmarked /\ att'[t] # att[t] => edits' = edits + 1
<1>1. IInv /\ [Next]_vars => [Keeps]_vars
  <2> SUFFICES ASSUME IInv, Next
               PROVE  Keeps
    OBVIOUS
  <2>1. ASSUME NEW j \in Jobs, CreateMark(j)
        PROVE  Keeps
    <3>1. CASE UNCHANGED att
      BY <3>1
    <3>2. CASE att[job[j].row.student] = Unmarked
               /\ att' = [att EXCEPT ![job[j].row.student] = Presence(job[j].snap.session)]
      BY <3>2 DEF IInv, TypeOK
    <3> QED
      BY <2>1, <3>1, <3>2 DEF CreateMark
  <2>2. CASE UNCHANGED att \/ edits' = edits + 1
    BY <2>2
  <2> QED
    BY <2>1, <2>2
       DEF Next, CycleStep, JobStep, StaffStep, WorldStep, StartCycle, CheckOccurrence,
           CreateOccurrence, ListCandidates, NextCandidate, ReadFresh, StartSync, StartProcess,
           FetchParticipants, SaveConference, RecordParticipant, CheckMark,
           MarkAttendanceProcessed, Fail, Abort, Edit, CreateByHand, AddParticipant, UpdateEntry,
           DeleteEntry, CreateAttendance, UpdateStatus, MoveAttendance, DeleteAttendance,
           Join, LeaveMeeting, End, Disturb
<1> QED
  BY <1>1, Inductive, PTL DEF Spec, TeachersMarkStays

\* When a session is marked processed, every eligible participant the job read
\* has a mark, unless staff took it away.
THEOREM ProcessedCovers == Spec => ProcessedCoversEligible
<1> DEFINE Covers ==
      \A j \in Jobs :
        At(j, "exists") /\ ~(processed' \subseteq processed) /\ job'[j] # job[j] =>
          \A r \in job[j].eligible : att[r.student] # Unmarked \/ r.student \in handled
<1>1. IInv /\ [Next]_vars => [Covers]_vars
  <2> SUFFICES ASSUME IInv, Next
               PROVE  Covers
    OBVIOUS
  <2>1. ASSUME NEW j \in Jobs, MarkAttendanceProcessed(j)
        PROVE  Covers
    <3>1. \A i \in Jobs \ {j} : job'[i] = job[i]
      BY <2>1, LeaveJob DEF MarkAttendanceProcessed, IInv
    <3>2. JobInv(j) /\ Processing(j) /\ job[j].todo = {}
      BY <2>1 DEF IInv, MarkAttendanceProcessed, At, Processing
    <3>3. \A r \in job[j].eligible : att[r.student] # Unmarked \/ r.student \in handled
      BY <3>2 DEF JobInv
    <3> QED
      BY <3>1, <3>3
  <2>2. CASE processed' \subseteq processed
    BY <2>2
  <2>3. processed' \subseteq processed \/ \E j \in Jobs : MarkAttendanceProcessed(j)
    BY DEF Next, CycleStep, JobStep, StaffStep, WorldStep, StartCycle, CheckOccurrence,
           CreateOccurrence, InsertSession, ListCandidates, NextCandidate, ReadFresh, StartSync,
           StartProcess, FetchParticipants, SaveConference, RecordParticipant, CheckMark,
           CreateMark, Fail, Abort, CreateByHand, AddParticipant, UpdateEntry,
           DeleteEntry, CreateAttendance, UpdateStatus, MoveAttendance, DeleteAttendance,
           Join, LeaveMeeting, End, Disturb, table
  <2> QED
    BY <2>1, <2>2, <2>3
<1> QED
  BY <1>1, Inductive, PTL DEF Spec, ProcessedCoversEligible

=============================================================================
