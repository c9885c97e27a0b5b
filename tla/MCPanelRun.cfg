SPECIFICATION FairSpec
CONSTANTS
  Jobs = {1, 2, 3}
  Width = 3
  NonVoting = {}
  Workers = {w1, w2}
  NoWorker = NoWorker
  Sessions = {}
  NoSession = NoSession
  MaxRetries = 1
  Cancelers = {}
  Rerunners = {}
  Runs = {0}
  NoJob = NoJob
  NoRun = NoRun
  Expiry = TRUE
  MaxRestarts = 1
  StoreErrors = TRUE
INVARIANTS TypeOK SynthesisAfterMembers
PROPERTIES PanelSettles
CHECK_DEADLOCK FALSE
