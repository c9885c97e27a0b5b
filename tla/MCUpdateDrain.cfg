SPECIFICATION DSpec
CONSTANTS
  Jobs = {1}
  Workers = {w1}
  NoWorker = NoWorker
  Sessions = {}
  NoSession = NoSession
  MaxRetries = 1
  NoJob = NoJob
  Cancelers = {c1}
  Requests = {r1}
  NoRequestJob = NoRequestJob
  StoreErrors = TRUE
  MaxClock = 3
  MaxRestarts = 0
  MaxPulls = 0
  Updaters = {u1}
  NoUpdater = NoUpdater
  MaxLeases = 1
SYMMETRY Symmetry
CONSTRAINT Unpaused
INVARIANTS MarksBehindGate DrainedStaysDrained
PROPERTIES InterruptIsFree
CHECK_DEADLOCK FALSE
