SPECIFICATION Spec
CONSTANTS
  k1 = k1
  NumPorts = 1
  Keys = {k1}
  Mtu <- MCMtu
  FrameLens <- FitLens
  Verdicts <- FewVerdicts
  PipelineMayPanic = TRUE
  MaxOut = 1
  MaxFrames = 1
  CallMayPanic = TRUE
  ClientMayVanish = TRUE
  DumpLimit = 1
  ClientCap = 2
  MaxRequests = 3
INVARIANTS
  NoGuardAcrossAwait
PROPERTIES
  PoisonFreezesTables
  ServesInOrder
  HandlersReturn
  OnlyTheClientHoldsUp
  RequestsDrain
CHECK_DEADLOCK FALSE
