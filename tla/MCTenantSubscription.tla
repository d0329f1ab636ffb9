----------------------- MODULE MCTenantSubscription -----------------------
EXTENDS TenantSubscription

CONSTANTS r1, r2, cron

Plan(active, status, end, cap) ==
  [isActive |-> active, subscription |-> status, trialEndsAt |-> end,
   limit |-> [k \in SeatKinds |-> cap], modules |-> OrganizationModule]

\* A trial of one day and its extension, a paid plan with more seats, and a
\* suspension.
TenantPayloads ==
  {Plan(TRUE, "TRIAL", 0, 1), Plan(TRUE, "TRIAL", 1, 1),
   Plan(TRUE, "ACTIVE", 0, 2), Plan(TRUE, "SUSPENDED", 0, 1)}

TwoRequests == {r1, r2}

============================================================================
