CONSTANTS
  Users <- OneUser
  SuperAdmins = {}
  Members <- OneUser
  Spellings <- TwoSpellings
  Canonical <- TwoCanonical
  StoredEmail <- MixedStored
  Requests = {r1, r2}
  Sessions = {s1}
  OrgStates <- AllOrgs
  MaxFailedLogins = 2
  BlockedBound = 1
  NoUser = NoUser
  NoSession = NoSession
  NoEmail = NoEmail
SPECIFICATION FairSpec
INVARIANTS
  GuessBudget
PROPERTIES
  LockoutEnds
