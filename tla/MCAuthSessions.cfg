CONSTANTS
  Users <- OneUser
  SuperAdmins = {}
  Members <- OneUser
  Spellings <- OneSpelling
  Canonical <- OneCanonical
  StoredEmail <- OneStored
  Requests = {r1, r2}
  Sessions = {s1, s2, s3}
  OrgStates <- AlwaysOpen
  MaxFailedLogins = 1
  BlockedBound = 1
  NoUser = NoUser
  NoSession = NoSession
  NoEmail = NoEmail
SPECIFICATION Spec
SYMMETRY Interchangeable
INVARIANTS
  RotationFanOut
PROPERTIES
  BarLetsNoMoreIn
  ImplementsLedger
