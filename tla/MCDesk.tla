------------------------------- MODULE MCDesk -------------------------------
(* Four desks of the office, for TLC: the daily follow-ups, the mail, the   *)
(* academic structure, and fee reminders that overlap with edits of the fee *)
(* and its settings.  They do not interact: a behaviour is one scene,       *)
(* chosen at the start, in which only one of them moves.                    *)
EXTENDS MCReminderAutomation, FollowUps, MailDesk, Registry

CONSTANTS p1, p2, capitals

VARIABLE scene

DeskInit ==
  /\ scene \in {"follow-ups", "mail", "registry", "reminders"}
  /\ FollowInit /\ MailInit /\ RegistryInit /\ Init
  /\ scene = "reminders" \/ setting = EmailOn

DeskNext ==
  /\ UNCHANGED scene
  /\ \/ scene = "follow-ups" /\ FollowNext /\ UNCHANGED <<mailVars, registryVars, vars>>
     \/ scene = "mail" /\ MailNext /\ UNCHANGED <<followVars, registryVars, vars>>
     \/ scene = "registry" /\ RegistryNext /\ UNCHANGED <<followVars, mailVars, vars>>
     \/ scene = "reminders" /\ Next /\ UNCHANGED <<followVars, mailVars, registryVars>>

DeskSpec == DeskInit /\ [][DeskNext]_<<scene, followVars, mailVars, registryVars, vars>>

\* Fees are due on the second of the two days.
DueTomorrow == [s \in Students |-> 1]

\* Two people, one of whom has an account under the address p1 in capitals.
Lowered == [e \in Addresses |-> IF e = capitals THEN p1 ELSE e]

\* Jobs are also the requests and the runners.
Unlabelled == Permutations(Students) \cup Permutations(Jobs) \cup Permutations(Handlers)

=============================================================================
