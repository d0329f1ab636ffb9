----------------------------- MODULE MCPlatform -----------------------------
(* The platform around the organizations, for TLC: their subscriptions and  *)
(* seats, and the seed script.  They do not interact here: a behaviour is   *)
(* one scene, chosen at the start, in which only one of them moves.         *)
EXTENDS MCTenantSubscription, Seeding

VARIABLE scene

PlatformInit ==
  /\ scene \in {"tenant", "seed"} /\ Init /\ SeedInit
  /\ scene = "seed" \/ part = "demo"

PlatformNext ==
  /\ UNCHANGED scene
  /\ \/ scene = "tenant" /\ Next /\ UNCHANGED seedVars
     \/ scene = "seed" /\ SeedNext /\ UNCHANGED vars
     \* Nobody runs the script again.
     \/ scene = "seed" /\ at = 0 /\ UNCHANGED <<vars, seedVars>>

\* Fairness of TenantSubscription, where it has the scene.
PlatformFairness ==
  /\ WF_vars(scene = "tenant" /\ SelectExpiredTrials(Cron))
  /\ SF_vars(scene = "tenant" /\ LapseTrials(Cron))

PlatformSpec ==
  PlatformInit /\ [][PlatformNext]_<<scene, vars, seedVars>> /\ PlatformFairness

=============================================================================
