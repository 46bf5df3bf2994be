SPECIFICATION ZoneSpec
CONSTANTS
  c1 = c1
  Commands = {c1}
  Args <- HostArgs
  MaxMissed = 1
INVARIANTS
  HostZoneHasItsPorts
CHECK_DEADLOCK FALSE
