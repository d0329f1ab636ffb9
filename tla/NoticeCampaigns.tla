-------------------------- MODULE NoticeCampaigns ---------------------------
(***************************************************************************)
(* Notices: scheduling and publication (AiService), the job that publishes *)
(* what is due every fifteen minutes (NoticeCampaignAutomationService),    *)
(* and the portal side, where students and parents acknowledge what they   *)
(* read (PortalService).                                                   *)
(*                                                                         *)
(* A tick is one run of the job: it selects, publishes the first campaign  *)
(* of its list and then inserts an audit row for the actor                 *)
(* "system-automation".  The actor column holds uuids, so the insert is    *)
(* refused, the exception leaves the loop and the tick is over: a tick     *)
(* publishes one campaign and the others wait for the next.                *)
(*                                                                         *)
(* A definition whose name is not used below is a faulty variant of the    *)
(* one that follows it, for the mutation runs.                             *)
(***************************************************************************)
EXTENDS Integers, FiniteSets

CONSTANTS
  Campaigns,
  OtherKeys,     \* item keys that name no campaign, as a client may send them
  Accounts,      \* portal accounts
  AccountType,   \* Accounts -> {"STUDENT", "PARENT"}
  Ticks,         \* runs of the job that may overlap
  BatchSize,     \* campaigns a tick selects, 100 in the code
  MaxTime,       \* bound of the model: the last moment of the clock
  MaxStops       \* bound of the model: ticks that die with the process

ASSUME NoticeAssumption ==
  /\ MaxTime \in Nat /\ MaxStops \in Nat
  /\ BatchSize \in Nat \ {0}
  /\ IsFiniteSet(Campaigns) /\ IsFiniteSet(OtherKeys) /\ IsFiniteSet(Accounts)
  /\ AccountType \in [Accounts -> {"STUDENT", "PARENT"}]

VARIABLES
  now,       \* the clock
  notice,    \* announcement rows
  account,   \* NONE without a row, ACTIVE or INACTIVE
  receipt,   \* acknowledgement rows of kind ANNOUNCEMENT: an account, an item key
  tick,      \* the ticks: program counter and the campaigns selected
  stops      \* ticks that died (bounds the model)

noticeVars == <<now, notice, account, receipt, tick, stops>>

Times == 0 .. MaxTime

Items == Campaigns \cup OtherKeys

Audiences == {"STUDENT", "PARENT", "BOTH"}

Notice == [st : {"NONE", "SCHEDULED", "PUBLISHED"}, at : Times, audience : Audiences]

NoticeTypeOK ==
  /\ now \in Times
  /\ notice \in [Campaigns -> Notice]
  /\ account \in [Accounts -> {"NONE", "ACTIVE", "INACTIVE"}]
  /\ receipt \subseteq Accounts \X Items
  /\ tick \in [Ticks -> [pc : {"idle", "publish", "audit"}, todo : SUBSET Campaigns]]
  /\ stops \in 0 .. MaxStops

IdleTick == [pc |-> "idle", todo |-> {}]

NoticeInit ==
  /\ now = 0
  /\ notice = [c \in Campaigns |-> [st |-> "NONE", at |-> 0, audience |-> "BOTH"]]
  /\ account = [a \in Accounts |-> "NONE"]
  /\ receipt = {}
  /\ tick = [j \in Ticks |-> IdleTick]
  /\ stops = 0

-----------------------------------------------------------------------------
(* Requests. *)

\* What is due already is published at once and its time is now.
ScheduleNoticeCampaign(c, at, audience) ==
  /\ notice[c].st = "NONE"
  /\ notice' = [notice EXCEPT ![c] =
       [st       |-> IF at <= now THEN "PUBLISHED" ELSE "SCHEDULED",
        at       |-> IF at <= now THEN now ELSE at,
        audience |-> audience]]
  /\ UNCHANGED <<now, account, receipt, tick, stops>>

\* The staff side creates, enables and disables portal accounts.
SetAccount(a, st) ==
  /\ account[a] # st
  /\ account' = [account EXCEPT ![a] = st]
  /\ UNCHANGED <<now, notice, receipt, tick, stops>>

\* Acknowledgements go with the account, which goes with its student.
DeleteAccount(a) ==
  /\ account[a] # "NONE"
  /\ account' = [account EXCEPT ![a] = "NONE"]
  /\ receipt' = {r \in receipt : r[1] # a}
  /\ UNCHANGED <<now, notice, tick, stops>>

\* The key, the kind and the title are the client's: the upsert looks neither for
\* the item nor at its audience, and another kind takes the row out of the count.
AcknowledgeItem(a, item, kind) ==
  /\ account[a] = "ACTIVE"
  /\ receipt' = IF kind = "ANNOUNCEMENT" THEN receipt \cup {<<a, item>>}
                ELSE receipt \ {<<a, item>>}
  /\ UNCHANGED <<now, notice, account, tick, stops>>

-----------------------------------------------------------------------------
(* The job. *)
Due == {c \in Campaigns : notice[c].st = "SCHEDULED" /\ notice[c].at <= now}

\* The first BatchSize due campaigns by publishedAt, ties in either order.
Selected(S) ==
  /\ S \subseteq Due
  /\ \A c \in S, d \in Due \ S : notice[c].at <= notice[d].at
  /\ Cardinality(S) = BatchSize \/ (S = Due /\ Cardinality(S) < BatchSize)

PublishDueNoticeCampaigns(j) ==
  /\ tick[j].pc = "idle"
  /\ \E S \in SUBSET Due :
       /\ S # {}
       /\ Selected(S)
       /\ tick' = [tick EXCEPT ![j] = [pc |-> "publish", todo |-> S]]
  /\ UNCHANGED <<now, notice, account, receipt, stops>>

\* The audit row is written before the campaign.
PublishAfterAudit(j) ==
  /\ tick[j].pc = "publish"
  /\ tick' = [tick EXCEPT ![j] = IdleTick]
  /\ UNCHANGED <<now, notice, account, receipt, stops>>

\* The update is by id: a campaign another tick has published is written again.
Publish(j) ==
  /\ tick[j].pc = "publish"
  /\ \E c \in tick[j].todo :
       /\ \A d \in tick[j].todo : notice[c].at <= notice[d].at
       /\ notice' = [notice EXCEPT ![c].st = "PUBLISHED"]
       /\ tick' = [tick EXCEPT ![j] = [pc |-> "audit", todo |-> @.todo \ {c}]]
  /\ UNCHANGED <<now, account, receipt, stops>>

AuditRefused(j) ==
  /\ tick[j].pc = "audit"
  /\ tick' = [tick EXCEPT ![j] = IdleTick]
  /\ UNCHANGED <<now, notice, account, receipt, stops>>

StopTick(j) ==
  /\ tick[j].pc # "idle"
  /\ stops < MaxStops
  /\ stops' = stops + 1
  /\ tick' = [tick EXCEPT ![j] = IdleTick]
  /\ UNCHANGED <<now, notice, account, receipt>>

PassTime ==
  /\ now < MaxTime
  /\ now' = now + 1
  /\ UNCHANGED <<notice, account, receipt, tick, stops>>

-----------------------------------------------------------------------------
NoticeRequest ==
  \/ \E c \in Campaigns, at \in Times, audience \in Audiences :
       ScheduleNoticeCampaign(c, at, audience)
  \/ \E a \in Accounts : \/ \E st \in {"ACTIVE", "INACTIVE"} : SetAccount(a, st)
                         \/ DeleteAccount(a)
                         \/ \E item \in Items, kind \in {"ANNOUNCEMENT", "OTHER"} :
                              AcknowledgeItem(a, item, kind)

TickStep(j) == PublishDueNoticeCampaigns(j) \/ Publish(j) \/ AuditRefused(j)

NoticeNext ==
  \/ NoticeRequest
  \/ \E j \in Ticks : TickStep(j) \/ StopTick(j)
  \/ PassTime

\* The scheduler starts the job again and again, and a tick that runs goes on.
NoticeFairness == \A j \in Ticks : WF_noticeVars(TickStep(j))

NoticeSpec == NoticeInit /\ [][NoticeNext]_noticeVars /\ NoticeFairness

-----------------------------------------------------------------------------
(* getAnnouncementDeliveryAnalytics *)
Published == {c \in Campaigns : notice[c].st = "PUBLISHED"}

\* getNoticeCampaignAnalytics: what the total and the counts of published and of
\* scheduled campaigns count, and the campaign behind latestPublishedAt.
CampaignAnalytics ==
  [total     |-> {c \in Campaigns : notice[c].st # "NONE"},
   published |-> Published,
   scheduled |-> {c \in Campaigns : notice[c].st = "SCHEDULED" /\ notice[c].at > now},
   latest    |-> {c \in Published : \A d \in Published : notice[d].at <= notice[c].at}]

ActiveOf(types) == {a \in Accounts : account[a] = "ACTIVE" /\ AccountType[a] \in types}

\* Notices for both are counted for the parents alone.
TargetsParentsFirst ==
  { x \in Accounts \X Published :
      \/ notice[x[2]].audience = "STUDENT" /\ x[1] \in ActiveOf({"STUDENT"})
      \/ notice[x[2]].audience # "STUDENT" /\ x[1] \in ActiveOf({"PARENT"}) }

\* Accounts times notices per audience, whose sum is deliveryTargets.
Targets ==
  { x \in Accounts \X Published :
      x[1] \in ActiveOf(IF notice[x[2]].audience = "BOTH" THEN {"STUDENT", "PARENT"}
                        ELSE {notice[x[2]].audience}) }

-----------------------------------------------------------------------------
(* Properties. *)

Addressed(c, a) == notice[c].audience \in {AccountType[a], "BOTH"}

\* Receipts that no target stands for: of accounts that were disabled since, and
\* for what is no published notice of the account's audience.
Uncalled ==
  { r \in receipt : \/ account[r[1]] = "INACTIVE"
                    \/ r[2] \notin Published
                    \/ r[2] \in Published /\ ~Addressed(r[2], r[1]) }

\* The read rate of the delivery analytics is above a hundred per cent only
\* through such receipts, and nothing stays counted of an account that is gone
\* (ai.service.ts:690, :709): the targets count active accounts per audience, the
\* receipts whatever a client has sent (portal.service.ts:1085).
ReceiptsWithinTargets == Cardinality(receipt) <= Cardinality(Targets) + Cardinality(Uncalled)

\* No notice is out before its time, however ticks and requests overlap: the
\* latest publication reported is not ahead of the clock, and the campaigns
\* counted neither as published nor as scheduled are those that a tick has yet
\* to publish (ai.service.ts:539, :1296).
NothingIsEarly ==
  LET analytics == CampaignAnalytics
  IN /\ \A c \in analytics.latest : notice[c].at <= now
     /\ analytics.total \ (analytics.published \cup analytics.scheduled) = Due

\* The rows are of their tables' types, the read rate stays within bounds and
\* nothing is published early.
NoticesSound == NoticeTypeOK /\ ReceiptsWithinTargets /\ NothingIsEarly

\* Every campaign that is due is published in the end, though each tick fails
\* after its first one, ticks overlap and some die (ai.service.ts:1296).
DueIsPublished == \A c \in Campaigns : (c \in Due) ~> (notice[c].st = "PUBLISHED")
=============================================================================
