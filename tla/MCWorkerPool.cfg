SPECIFICATION Spec
CONSTANTS
  Jobs = {1}
  Workers = {w1, w2}
  NoWorker = NoWorker
  Sessions = {}
  NoSession = NoSession
  MaxRetries = 1
  NoJob = NoJob
  Cancelers = {c1}
  Requests = {r1}
  NoRequestJob = NoRequestJob
  StoreErrors = TRUE
  MaxClock = 4
  MaxRestarts = 0
  MaxPulls = 1
SYMMETRY Symmetry
INVARIANTS TypeOK OneAgentPerJob NoLostCancel ReviewOfThisAttempt
PROPERTIES EndedByItsWorker CanceledUntilRerun RerunAfterUnwind Lifecycle
CHECK_DEADLOCK FALSE
