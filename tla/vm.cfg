SPECIFICATION VmSpec
CONSTANTS
  v1 = v1
  v2 = v2
  a = a
  b = b
  Versions <- MCVersions
  Configs <- MCConfigs
  MaxRuns = 3
  MaxMoves = 2
INVARIANTS
  VmTypeOK
  InstallCanGoOn
  NeverUnconfigured
  InstalledIsComplete
  UninstallIsOrderly
SYMMETRY Alike
CHECK_DEADLOCK FALSE
