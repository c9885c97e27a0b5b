SPECIFICATION Spec
CONSTANTS
  Jobs = {1, 2, 3, 4, 5, 6, 7, 8, 9}
  Width = 3
  NonVoting = {2}
  Workers = {w1}
  NoWorker = NoWorker
  Sessions = {}
  NoSession = NoSession
  MaxRetries = 0
  Cancelers = {c1, c2}
  Rerunners = {q1, q2}
  Runs = {0, 1, 2}
  NoJob = NoJob
  NoRun = NoRun
  Expiry = FALSE
  MaxRestarts = 0
  StoreErrors = FALSE
SYMMETRY Symmetry
CONSTRAINT ReplacementsWait
INVARIANTS CanceledPanelIsOver OneSuccessor
PROPERTIES CancelTakesEffect RerunAfterUnwind
CHECK_DEADLOCK FALSE
