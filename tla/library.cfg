SPECIFICATION LibrarySpec
CONSTANTS
  Catalogue <- MC_Catalogue
  RootKids <- MC_RootKids
  Hidden <- MC_Hidden
  Assembled <- MC_Assembled
  Queries <- MC_Queries
  Unquotable <- MC_Unquotable
  Within <- MC_Within
  Wants <- MC_Wants
  Readers = {"ui", "audio"}
  Nobody = "nobody"
  LUMP = 2
  MaxTroubles = 2
  MaxReads = 2
  SpecialIds = {"7"}
  Controls = {"bell"}
  ParamTypes <- MC_ParamTypes
  Documents <- MC_Documents
  BUFSIZE = 6
  Shelf <- MC_Shelf
  Editions <- MC_Editions
  Collating <- MC_Collating
  Requests <- MC_Requests
  MaxMishaps = 3
INVARIANTS ReadsAreRight ReceiverReadsAreRight ReadsWhatWasWritten
PROPERTIES NamesAreForever EveryReadEnds ReadingEnds
CHECK_DEADLOCK FALSE
