CONSTANTS
  Items = {i1}
  Tabs = {t1}
  MaxSaves = 1
  NoItem = NoItem
  Untouched = Untouched
  Askers = {a1}
  TrialLimit = 1
  MaxAsks = 3
SPECIFICATION AiSpec
PROPERTIES
  TrialLimitHolds
