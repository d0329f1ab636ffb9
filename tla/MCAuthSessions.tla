--------------------------- MODULE MCAuthSessions ---------------------------
(* Instances of AuthSessions for TLC. *)
EXTENDS AuthSessions, TLC

\* One tenant user, for the life of the sessions.
OneUser == {"ann"}
OneSpelling == {"ann@x"}
OneCanonical == [e \in OneSpelling |-> "ann@x"]
OneStored == [u \in OneUser |-> "ann@x"]

\* The same user stored in mixed case, who may type either form, for the limiter.
TwoSpellings == {"Ann@x", "ann@x"}
TwoCanonical == [e \in TwoSpellings |-> "ann@x"]
MixedStored == [u \in OneUser |-> "Ann@x"]

OrgOpen == [isActive |-> TRUE, subscription |-> "ACTIVE", trialOver |-> TRUE]
OrgTrial == [isActive |-> TRUE, subscription |-> "TRIAL", trialOver |-> FALSE]
OrgTrialOver == [isActive |-> TRUE, subscription |-> "TRIAL", trialOver |-> TRUE]
OrgUnpaid == [isActive |-> TRUE, subscription |-> "PAST_DUE", trialOver |-> TRUE]
OrgInactive == [isActive |-> FALSE, subscription |-> "ACTIVE", trialOver |-> FALSE]

AlwaysOpen == {OrgOpen}
AllOrgs == {OrgOpen, OrgTrial, OrgTrialOver, OrgUnpaid, OrgInactive}

Interchangeable == Permutations(Requests) \cup Permutations(Sessions)

=============================================================================
