SPECIFICATION Spec
CONSTANTS
  NumPorts = 1
  Keys = {}
  Mtu <- MCMtu
  FrameLens <- HostLens
  Verdicts <- FewVerdicts
  PipelineMayPanic = FALSE
  MaxOut = 1
  MaxFrames = 1
  CallMayPanic = FALSE
  ClientMayVanish = FALSE
  DumpLimit = 0
  ClientCap = 1
  MaxRequests = 0
INVARIANTS
  HostFramesGetIn
CHECK_DEADLOCK FALSE
