SPECIFICATION VmSpec
CONSTANTS
  v1 = v1
  v2 = v2
  a = a
  b = b
  Versions <- MCVersions
  Configs <- MCConfigs
  MaxRuns = 2
  MaxMoves = 1
INVARIANTS
  UninstallCanGoOn
SYMMETRY Alike
CHECK_DEADLOCK FALSE
