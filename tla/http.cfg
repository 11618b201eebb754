SPECIFICATION FairSpec
CONSTANTS
  Size <- SizeDef
  Capacity = 4
  LineBuffer = 3
  BodyBuffer = 2
  Forever = 100
  Live = "live"
  Denied = "stranger"
  Failing = {"file", "live"}
  Offsets = {0, 1, 3}
  ReadSizes = {3}
  MaxReads = 4
  Scripts <- ScriptsDef
  Requests <- RequestsDef
  Streamed = {"file", "none"}
  FaultyIn = {"SEND_HEADERS", "SEND_BODY", "WAITING"}
CHECK_DEADLOCK FALSE
INVARIANTS
  AnswersInOrder
  OutcomeIsTrue
  BytesAreRight
PROPERTIES
  NobodyWaitsInVain
