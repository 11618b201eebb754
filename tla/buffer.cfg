SPECIFICATION Spec
CONSTANTS
  NoCall = NoCall
  Bytes = {a, z}
  Zero = z
  Offsets = {0, 1, 2, 4}
  MaxWrite = 2
  BufSize = 2
  PoolThreads = 2
  MaxFailures = 1
CHECK_DEADLOCK FALSE
INVARIANTS
  BuffersAreSafe
PROPERTIES
  ImplementsFile
