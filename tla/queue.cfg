SPECIFICATION MCSpec
CONSTANTS
  x1 = x1
  x2 = x2
  x3 = x3
  None = None
  Tracks <- ThreeTracks
  MaxEntries = 3
  Ops <- AllOps
  Commands <- PlayAndStop
  MaxRaced = 1
SYMMETRY Symmetry
CHECK_DEADLOCK FALSE
INVARIANTS
  QueueIsPermutation
  PlayerInStep
PROPERTIES
  EditsRespectPlayback
