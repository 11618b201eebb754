SPECIFICATION Spec
CONSTANTS
  device = device
  control = control
  Nodes <- MC_Nodes
  TypeNames = {"AVTransport"}
  MaxVersion = 2
  Offers <- MC_Offers
  Wants <- MC_Wants
  MaxRuns <- MC_Runs
  MaxRenewals = 1
  MaxLosses = 2
INVARIANTS KnownIsTrue
PROPERTIES Found
CHECK_DEADLOCK FALSE
