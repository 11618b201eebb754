SPECIFICATION EmpegSpec
CONSTANTS
  Sources <- MC_Sources
  EmpegSources <- MC_EmpegSources
  Root = 8
  MaxEdits = 2
  MaxStops = 1
  MaxSessions = 3
  MaxTroubles = 1
INVARIANTS Mirrors FilesAreWhole PlayerMirrors
CHECK_DEADLOCK FALSE
