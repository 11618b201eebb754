SPECIFICATION FairSpec
CONSTANTS
  Null = Null
  Clients = {c1}
  Workers = {w1, w2, w3}
  Tasks = {t1, t2, t3}
  MaxThreads = 2
  Timeouts = TRUE
  WorkersPush = TRUE
INVARIANTS
  AccountsAreExact
PROPERTIES
  ShutdownIsFinal
  ImplementsExecutor
  NobodyIsStranded
