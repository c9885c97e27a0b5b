SPECIFICATION Spec
CONSTANTS
  Jobs = {1, 2, 3}
  Width = 3
  NonVoting = {}
  Workers = {w1}
  NoWorker = NoWorker
  Sessions = {}
  NoSession = NoSession
  MaxRetries = 1
  Cancelers = {}
  Rerunners = {}
  Runs = {0}
  NoJob = NoJob
  NoRun = NoRun
  Expiry = TRUE
  MaxRestarts = 0
  StoreErrors = FALSE
PROPERTY ExpirySparesQueued
CHECK_DEADLOCK FALSE
