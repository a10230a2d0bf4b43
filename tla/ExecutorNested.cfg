CONSTANTS
  MaxValue = 4
  IntegerKey = TRUE
  SortLimit = 3
  Scenes <- MCScenes
  Queries <- NestedQueries
SPECIFICATION Spec
INVARIANT RewriteKeepsTruth
CHECK_DEADLOCK FALSE
