---------------------------- MODULE AttemptBook ----------------------------
(* What a student is promised about the attempts at one assessment: they are  *)
(* numbered in sequence, one is open at a time, and a submitted attempt is     *)
(* never open again.  Grading and review are invisible here.                   *)
EXTENDS Naturals

CONSTANT Attempts   \* attempt numbers

VARIABLE stage      \* none, open, submitted, or gone with its assessment

Book == [Attempts -> {"none", "open", "submitted", "gone"}]

BookInit == stage = [n \in Attempts |-> "none"]

OpenAttempt(n) ==
  /\ \A m \in Attempts : stage[m] = IF m < n THEN "submitted" ELSE "none"
  /\ stage' = [stage EXCEPT ![n] = "open"]

CloseAttempt(n) ==
  /\ stage[n] = "open"
  /\ stage' = [stage EXCEPT ![n] = "submitted"]

Discard ==
  stage' = [n \in Attempts |-> IF stage[n] = "none" THEN "none" ELSE "gone"]

BookNext == Discard \/ \E n \in Attempts : OpenAttempt(n) \/ CloseAttempt(n)

BookSpec == BookInit /\ [][BookNext]_stage

=============================================================================
