SPECIFICATION FairSpec
CONSTANTS
  Jobs = {1}
  Workers = {w1, w2}
  NoWorker = NoWorker
  Sessions = {}
  NoSession = NoSession
  MaxRetries = 1
  NoJob = NoJob
  Cancelers = {}
  Requests = {}
  NoRequestJob = NoRequestJob
  StoreErrors = TRUE
  MaxClock = 6
  MaxRestarts = 1
  MaxPulls = 0
PROPERTY JobsSettle
CHECK_DEADLOCK FALSE
