CONSTANTS
  Fees = {f1}
  Rules <- OneRule
  Trigger <- OneTrigger
  Offset <- OneOffset
  Channel <- OneChannel
  Settings <- AlwaysOn
  Runners = {w1}
  Handlers = {h1}
  DueDays <- OneDueDay
  Limit = 1
  Horizon = 1
  NoFee = NoFee
  NoSchedule = NoSchedule
SPECIFICATION Spec
INVARIANTS
  DeliveredIsNotFailed
