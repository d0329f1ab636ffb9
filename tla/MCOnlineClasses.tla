-------------------------- MODULE MCOnlineClasses --------------------------
(* Instances of OnlineClasses for TLC: a pupil who joins with an account of  *)
(* her own, and another whom staff may enter by hand.                       *)
EXTENDS OnlineClasses

CONSTANTS s1, s2

MCMatch == [v \in Visits |-> {s1}]
MCHandRows == {[visit |-> NoVisit, student |-> s2, minutes |-> 10]}
MCNoRows == {}

\* A behaviour is one scene, chosen at the start: one cycle beside requests, or
\* cycles that overlap while nobody joins or asks.
VARIABLE scene

SceneInit == scene \in {"request", "overlap"} /\ Init

SceneNext ==
  /\ UNCHANGED scene
  /\ Next
  /\ IF scene = "request" THEN \A c \in Cycles \ {Cron} : job'[c] = job[c]
     ELSE meet' = meet /\ \A r \in Requests : job'[r] = job[r]

SceneSpec == SceneInit /\ [][SceneNext]_<<scene, vars>>

FairSceneSpec == SceneSpec /\ Fairness

=============================================================================
