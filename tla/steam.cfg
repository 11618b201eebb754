SPECIFICATION LocalSpec
CONSTANTS
  Fields = {"length", "title"}
  IntFields = {"length"}
  IndexedFields = {"length", "title"}
  Ints = {0, 1}
  Strings = {"0", "1", "x"}
  Num <- MC_Num
  Dec <- MC_Dec
  StringRank <- MC_Rank
  MaxRecords = 3
  MaxChanges = 2
  MaxFilled = 4
  Ids <- MC_Ids
  TagFields = {"title", "artist"}
  Texts = {"a", "b"}
  Blank = ""
  Writable = {1, 2}
  w1 = w1
  w2 = w2
  Workers = {w1, w2}
  NoId = 0
  TagsAtFirst <- MC_Files
  Names = {"b"}
  NoColumn = "none"
  TextRank <- MC_TextRank
  MaxEdits = 2
SYMMETRY Symmetry
INVARIANTS IndexMatchesData ValuesAgree WalkIsComplete FilesFollow TableIsSaved
CHECK_DEADLOCK FALSE
