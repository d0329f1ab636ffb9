CONSTANTS
  s1 = s1
  s2 = s2
  Students = {s1, s2}
  Visits = {own, before}
  Previous = {before}
  Match <- MCMatch
  Stays = {10}
  Sessions = {o1, o2}
  Cycles = {c1}
  Cron = c1
  Requests = {}
  HandRows <- MCNoRows
  MaxEdits = 0
  NoStudent = NoStudent
  NoSession = NoSession
  NoVisit = NoVisit
SPECIFICATION SceneSpec
INVARIANT PresentWasThere
