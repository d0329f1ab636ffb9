SPECIFICATION PortalSceneSpec
CONSTANTS
  r1 = r1
  r2 = r2
  Requests = {r1, r2}
  AttemptBound = 2
  Questions <- OneQuestion
  Versions = 1
  Paper <- OnePaper
  Manual = {}
  Mark <- OneMark
  Penalty = 0
  Limits = {1, 2}
  NoMark = NoMark
  s1 = s1
  s2 = s2
  e1 = e1
  C1 = C1
  g1 = g1
  NoEmail = NoEmail
  LowerCase <- Spelling
  Students = {s1, s2}
  Emails = {e1, C1}
  Guardians = {C1, g1}
  Callers = {r1, r2}
  Types = {"PARENT"}
  MaxRequests = 3
  MaxTokens = 3
  u1 = u1
  u2 = u2
  Members = {u1, u2}
  Desks = {r1, r2}
  ActorRoles <- Actors
  Loads <- RoleLoads
  MaxEdits = 3
  Items = {s1, s2}
  Tabs = {r1, r2}
  MaxSaves = 4
  NoItem = NoItem
  Untouched = Untouched
  Askers = {r1, r2}
  TrialLimit = 1
  MaxAsks = 3
SYMMETRY Alike
CHECK_DEADLOCK FALSE
INVARIANTS AttemptLimit ResultMatchesStatus AccountFollowsStudent
PROPERTIES ImplementsBook SessionStoredForCause ChangedWithinRank
  SaveReplacesQueue
