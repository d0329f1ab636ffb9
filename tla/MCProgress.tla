----------------------------- MODULE MCProgress -----------------------------
(* The two cron jobs that work off a queue, for TLC: fee reminders and      *)
(* notice campaigns.  They do not interact: a behaviour is one scene,       *)
(* chosen at the start, in which only one of them moves.                    *)
EXTENDS MCReminderAutomation, NoticeCampaigns

CONSTANT pupil

VARIABLE scene

ProgressInit == scene \in {"reminders", "notices"} /\ Init /\ NoticeInit

ProgressNext ==
  /\ UNCHANGED scene
  /\ \/ scene = "reminders" /\ Next /\ UNCHANGED noticeVars
     \/ scene = "notices" /\ NoticeNext /\ UNCHANGED vars

\* Fairness and NoticeFairness, each where it has the scene.
ProgressFairness ==
  /\ \A w \in Runners :
       /\ WF_vars(scene = "reminders" /\ FindDueSchedules(w))
       /\ SF_vars(scene = "reminders" /\ MarkScheduleProcessing(w))
       /\ WF_vars(scene = "reminders"
                   /\ (\/ ReadProviderSetting(w) \/ CompleteSkipped(w)
                       \/ Deliver(w) \/ CompleteFailed(w)))
  /\ \A j \in Ticks : WF_noticeVars(scene = "notices" /\ TickStep(j))

ProgressSpec ==
  ProgressInit /\ [][ProgressNext]_<<scene, vars, noticeVars>> /\ ProgressFairness

OnePupil == pupil :> "STUDENT"

=============================================================================
