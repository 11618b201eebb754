SPECIFICATION Spec
CONSTANTS
  Urls = {a, b}
  NoUrl = NoUrl
  States = {"STOP", "PLAY"}
  Stopped = "STOP"
  MaxCommands = 3
  MaxInits = 2
  MaxEvents = 4
INVARIANTS MetadataIsOfUrl SeesTheRenderer
PROPERTIES InitToldOnce
CHECK_DEADLOCK FALSE
