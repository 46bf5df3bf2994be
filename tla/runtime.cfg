SPECIFICATION RuntimeSpec
CONSTANTS
  c1 = c1
  c2 = c2
  p1 = p1
  p2 = p2
  p3 = p3
  Creates = {c1, c2}
  Procs = {p1, p2, p3}
  NoProc = NoProc
  Options <- MCOptions
  Size <- MCSize
  Workloads <- MCWorkloads
INVARIANTS
  RuntimeTypeOK
  FetchedIsRight
  BindFailsOnlyInARace
  SomebodyAnswers
  RunsWhatWasWanted
PROPERTIES
  WhatIsWantedStays
SYMMETRY Alike
CHECK_DEADLOCK FALSE
