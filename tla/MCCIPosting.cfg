SPECIFICATION Spec
CONSTANTS
  Heads = {h1, h2}
  NoHead = NoHead
  MaxPanels = 2
  GenuineMax = 2
  MaxUpsets = 1
INVARIANTS CTypeOK OneComment SkipDecisionStands GenuineBudget
PROPERTIES ReviewsSettle DecidedOnce AttemptOutlivesOldRun
