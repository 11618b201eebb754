SPECIFICATION FairSpec
CONSTANTS
  p = p
  q = q
  g = g
  h = h
  NoTask = NoTask
  Tasks <- TwoTasks
  Handles <- TwoHandles
  Waits <- SharedHandles
  Timers <- TwoTimers
  MaxTime = 2
  MaxCalls = 3
CHECK_DEADLOCK FALSE
PROPERTIES
  PollAssertionsHold
  RemovedStayRemoved
  WaitsAreConserved
  NobodyIsForgotten
