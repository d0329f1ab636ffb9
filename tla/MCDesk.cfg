CONSTANTS
  Students = {x1, x2}
  Jobs = {j1, j2}
  Marks = {"ABSENT"}
  FeeDueDay <- DueTomorrow
  Window = 1
  Suppression = 0
  AbsentThreshold = 1
  LateThreshold = 2
  TotalThreshold = 2
  MaxDay = 1
  MaxWrites = 2
  MaxLogs = 2
  NoStudent = None
  Messages = {x1, x2}
  Conversations = {c1}
  p1 = p1
  p2 = p2
  capitals = capitals
  Addresses = {p1, p2, capitals}
  People = {p2, capitals}
  LowerCase <- Lowered
  Texts = {x1}
  Requests = {j1, j2}
  MaxClock = 3
  MaxMarks = 1
  Nobody = None
  Sessions = {x1, x2}
  Batches = {b1}
  Subjects = {u1}
  Teachers = {h1}
  Links = {l1}
  Entries = {e1}
  Codes = {k1, k2}
  Txs = {j1, j2}
  MaxOps = 4
  Null = None
  Fees = {l1}
  Rules <- OneRule
  Trigger <- OneTrigger
  Offset <- OneOffset
  Channel <- OneChannel
  Settings <- OnOrOff
  Runners = {j1, j2}
  Handlers = {k1, k2}
  DueDays <- TwoDueDays
  Limit = 2
  Horizon = 1
  NoFee = None
  NoSchedule = None
SPECIFICATION DeskSpec
SYMMETRY Unlabelled
CHECK_DEADLOCK FALSE
INVARIANTS
  RegistryTypeOK
  FoldersAgree
  NoRepeatedFollowUp
  StampIsNewest
  OneCurrentSession
  SentPerArming
  SettledIsCancelled
PROPERTIES
  RunLeavesNoneOut
  SentMailStands
  SwitchLetsNoMoreOut
