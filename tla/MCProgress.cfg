CONSTANTS
  Fees = {f1}
  Rules <- TwoRules
  Trigger <- TwoTriggers
  Offset <- TwoOffsets
  Channel <- TwoChannels
  Settings <- AlwaysOn
  Runners = {w1, w2}
  Handlers = {h1}
  DueDays <- OneDueDay
  Limit = 1
  Horizon = 1
  NoFee = NoFee
  NoSchedule = NoSchedule
  pupil = pupil
  Campaigns = {c1, c2}
  OtherKeys = {k1}
  Accounts = {pupil}
  AccountType <- OnePupil
  Ticks = {t1, t2}
  BatchSize = 2
  MaxTime = 1
  MaxStops = 1
SPECIFICATION ProgressSpec
INVARIANTS
  NoticesSound
PROPERTIES
  DueIsTaken
  DueIsPublished
