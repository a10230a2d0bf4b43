CONSTANTS
  MaxValue = 4
  IntegerKey = TRUE
  SortLimit = 3
  Scenes <- MCScenes
  Queries <- DescendingQueries
SPECIFICATION Spec
INVARIANT ReverseStartsAtEnd
CHECK_DEADLOCK FALSE
