SPECIFICATION Spec
CONSTANTS
  k1 = k1
  NumPorts = 2
  Keys = {k1}
  Mtu <- TwoMtus
  FrameLens <- AllLens
  Verdicts <- AllVerdicts
  PipelineMayPanic = FALSE
  MaxOut = 1
  MaxFrames = 1
  CallMayPanic = FALSE
  ClientMayVanish = FALSE
  DumpLimit = 1
  ClientCap = 2
  MaxRequests = 4
INVARIANTS
  ProcessLives
  OnlyThePipelinePoisons
  AnswersMatch
  RadixIsTheLastPort
CHECK_DEADLOCK FALSE
