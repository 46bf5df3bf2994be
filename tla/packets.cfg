SPECIFICATION Spec
CONSTANTS
  NumPorts = 2
  Keys = {}
  Mtu <- TwoMtus
  FrameLens <- AllLens
  Verdicts <- AllVerdicts
  PipelineMayPanic = FALSE
  MaxOut = 2
  MaxFrames = 2
  CallMayPanic = FALSE
  ClientMayVanish = FALSE
  DumpLimit = 0
  ClientCap = 1
  MaxRequests = 0
INVARIANTS
  TypeOK
  RightLink
  PerPortOrder
  EachDiesOfItsOwn
CHECK_DEADLOCK FALSE
