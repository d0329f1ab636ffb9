---------------------------- MODULE SessionLedger ----------------------------
(***************************************************************************)
(* What the refresh-token table promises, without handlers: a session is   *)
(* opened once for one user, may be renewed into another session of the    *)
(* same user only after it has ended, and never comes back.                *)
(***************************************************************************)
CONSTANTS Users, Sessions, NoUser, NoSession

VARIABLES grant, holder, source

ledgerVars == <<grant, holder, source>>

LedgerInit ==
  /\ grant = [s \in Sessions |-> "none"]
  /\ holder = [s \in Sessions |-> NoUser]
  /\ source = [s \in Sessions |-> NoSession]

\* A password opens a session.
Open(u, s) ==
  /\ grant[s] = "none"
  /\ grant' = [grant EXCEPT ![s] = "live"]
  /\ holder' = [holder EXCEPT ![s] = u]
  /\ UNCHANGED source

\* An ended session is renewed for the user that held it.
Renew(p, s) ==
  /\ grant[p] = "ended"
  /\ grant[s] = "none"
  /\ grant' = [grant EXCEPT ![s] = "live"]
  /\ holder' = [holder EXCEPT ![s] = holder[p]]
  /\ source' = [source EXCEPT ![s] = p]

\* Rotation, logout, revocation or deletion ends live sessions.
End(S) ==
  /\ \A s \in S : grant[s] = "live"
  /\ grant' = [s \in Sessions |-> IF s \in S THEN "ended" ELSE grant[s]]
  /\ UNCHANGED <<holder, source>>

LedgerNext ==
  \/ \E u \in Users, s \in Sessions : Open(u, s)
  \/ \E p, s \in Sessions : Renew(p, s)
  \/ \E S \in SUBSET Sessions : End(S)

LedgerSpec == LedgerInit /\ [][LedgerNext]_ledgerVars

=============================================================================
