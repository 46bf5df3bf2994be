SPECIFICATION DownloadSpec
CONSTANTS
  Size <- MCSize
INVARIANTS
  DownloadTypeOK
  OkMeansWhole
PROPERTIES
  DownloadEnds
CHECK_DEADLOCK FALSE
