CONSTANTS
  Requests = {r1, r2}
  AttemptBound = 1
  Questions <- OneQuestion
  Versions = 1
  Paper <- OnePaper
  Manual = {}
  Mark <- OneMark
  Penalty = 0
  Limits = {1}
  NoMark = NoMark
SPECIFICATION Spec
CHECK_DEADLOCK FALSE
PROPERTIES
  OnlyInProgressUpdated
