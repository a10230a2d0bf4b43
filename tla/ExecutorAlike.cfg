CONSTANTS
  MaxValue = 4
  IntegerKey = TRUE
  SortLimit = 3
  Scenes <- MCScenes
  Queries <- AlikeQueries
SPECIFICATION Spec
INVARIANT RewriteKeepsTruth
CHECK_DEADLOCK FALSE
