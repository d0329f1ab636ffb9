CONSTANTS
  s1 = s1
  s2 = s2
  Students = {s1, s2}
  Visits = {own}
  Previous = {}
  Match <- MCMatch
  Stays = {10}
  Sessions = {o1, o2, o3}
  Cycles = {c1, c2}
  Cron = c1
  Requests = {r1}
  HandRows <- MCHandRows
  MaxEdits = 1
  NoStudent = NoStudent
  NoSession = NoSession
  NoVisit = NoVisit
SPECIFICATION FairSceneSpec
INVARIANTS TypeOK PresenceBacked SessionsPerOccurrence
PROPERTIES TeachersMarkStays ProcessedCoversEligible ClassIsProcessed
