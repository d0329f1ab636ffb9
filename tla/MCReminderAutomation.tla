------------------------ MODULE MCReminderAutomation ------------------------
(* Instances of ReminderAutomation for TLC. *)
EXTENDS ReminderAutomation, TLC

\* A notice the day before and one on the due date.
TwoRules == {"notice", "overdue"}
TwoTriggers == [r \in TwoRules |-> IF r = "notice" THEN "FEE_DUE" ELSE "FEE_OVERDUE"]
TwoOffsets == [r \in TwoRules |-> IF r = "notice" THEN -1 ELSE 0]
TwoChannels == [r \in TwoRules |-> IF r = "notice" THEN "EMAIL" ELSE "WHATSAPP"]

OneRule == {"notice"}
OneTrigger == [r \in OneRule |-> "FEE_DUE"]
OneOffset == [r \in OneRule |-> -1]
OneChannel == [r \in OneRule |-> "EMAIL"]

AllOff == [auto |-> FALSE, on |-> {}]
EmailOn == [auto |-> TRUE, on |-> {"EMAIL"}]
NoChannel == [auto |-> TRUE, on |-> {}]
ManualOnly == [auto |-> FALSE, on |-> {"EMAIL"}]

OnOrOff == {EmailOn, ManualOnly}
AllSettings == {EmailOn, NoChannel, ManualOnly}
AlwaysOn == {EmailOn}

OneDueDay == {1}
TwoDueDays == {1, 2}

Overlapping == Permutations(Runners) \cup Permutations(Handlers)

=============================================================================
