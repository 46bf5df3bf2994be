SPECIFICATION P9Spec
CONSTANTS
  disk = disk
  share = share
  asic = asic
  NoDev = NoDev
  Devices = {disk, share, asic}
  Kind <- MCKind
  Servers <- MCServers
  MSIZE = 5
  HEADER = 3
  Sizes = {0, 3, 4, 5}
  MaxLoads = 2
INVARIANTS
  P9TypeOK
  RunsWholePrograms
  BarTellsWhatIsStored
  SoundLoadsSucceed
PROPERTIES
  LoadEnds
CHECK_DEADLOCK FALSE
