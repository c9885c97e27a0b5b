SPECIFICATION DFairSpec
CONSTANTS
  Jobs = {1}
  Workers = {w1}
  NoWorker = NoWorker
  Sessions = {}
  NoSession = NoSession
  MaxRetries = 0
  NoJob = NoJob
  Cancelers = {}
  Requests = {}
  NoRequestJob = NoRequestJob
  StoreErrors = TRUE
  MaxClock = 2
  MaxRestarts = 1
  MaxPulls = 0
  Updaters = {u1}
  NoUpdater = NoUpdater
  MaxLeases = 1
CONSTRAINT Unpaused
PROPERTY GateReopens
CHECK_DEADLOCK FALSE
