SPECIFICATION FairSpec
CONSTANTS
  root = root  album = album  hifi = hifi
  song = song  lossless = lossless  list = list
  Dirs = {root, album, hifi}
  Files = {song, lossless, list}
  Root = root
  Home <- HomeDef
  Links = {}
  AtFirst <- NoSong
  MaxEvents = 3
  OnlyWatched = TRUE
  Flac <- FlacDef
  Songs <- SongsDef
  NoFile = NoFile
INVARIANTS RecordsAreConsistent
PROPERTIES FollowsDisk

