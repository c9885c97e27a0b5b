SPECIFICATION PSpec
CONSTANTS
  MaxCommits = 3
  Names = {1, 2}
  BatchSize = 3
  MaxMoves = 2
  MaxMishaps = 1
INVARIANTS PTypeOK NothingForgotten PushedReviewed
PROPERTY FlushedWhenQuiet
CHECK_DEADLOCK FALSE
