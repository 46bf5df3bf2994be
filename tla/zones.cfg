SPECIFICATION ZoneSpec
CONSTANTS
  c1 = c1
  c2 = c2
  c3 = c3
  Commands = {c1, c2, c3}
  Args <- ZoneArgs
  MaxMissed = 1
INVARIANTS
  ZoneTypeOK
  CleanFailure
  CreatedStaysWhole
  DestroyLeavesNothing
SYMMETRY AnyCommand
CHECK_DEADLOCK FALSE
