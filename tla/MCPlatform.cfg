SPECIFICATION PlatformSpec
CONSTANTS
  r1 = r1
  r2 = r2
  cron = cron
  Requests <- TwoRequests
  Cron = cron
  Payloads <- TenantPayloads
  ImportSizes = {1, 2}
  MaxBatch = 2
  MaxTime = 1
  MaxChanges = 1
  MaxRuns = 3
  MaxStops = 1
  MaxWrites = 1
  Touched = {"user", "student", "reminderTemplate", "mail"}
INVARIANTS SeatsBounded RerunRestores
PROPERTIES StandingMovesForCause ExpiredTrialLapses
