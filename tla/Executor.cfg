CONSTANTS
  MaxValue = 4
  IntegerKey = TRUE
  SortLimit = 3
  Scenes <- MCScenes
  Queries <- MCQueries
SPECIFICATION Spec
INVARIANTS RewriteKeepsTruth SelectExact WritesExact CursorMoves
CHECK_DEADLOCK FALSE
