SPECIFICATION Spec
CONSTANTS
  Jobs = {1}
  Workers = {w1}
  NoWorker = NoWorker
  Sessions = {}
  NoSession = NoSession
  MaxRetries = 0
  NoJob = NoJob
  Cancelers = {c1}
  Requests = {r1}
  NoRequestJob = NoRequestJob
  StoreErrors = FALSE
  MaxClock = 4
  MaxRestarts = 0
  MaxPulls = 0
INVARIANT CanceledInDatabase
CHECK_DEADLOCK FALSE
