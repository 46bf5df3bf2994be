SPECIFICATION UartSpec
CONSTANTS
  MaxDumps = 3
  MaxVersions = 1
INVARIANTS
  UartTypeOK
  QuietDumpIsRight
PROPERTIES
  DumpEnds
CHECK_DEADLOCK FALSE
