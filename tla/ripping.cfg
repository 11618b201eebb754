SPECIFICATION FairSpec
CONSTANTS
  Outputs = {1, 2}
  Total = 5
  Threads = 2
CHECK_DEADLOCK FALSE
INVARIANTS
  TasksExclude
PROPERTIES
  AnsweredAndNamed
