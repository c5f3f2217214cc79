SPECIFICATION Spec
CONSTANTS
  Threads = {t1, t2}
  Locations = {l1}
  Cabinets = {c1}
  None = None
  Empty = Empty
  Torn = Torn
  MaxJobs = 2
  MaxCrashes = 1
  MaxFaults = 0
CHECK_DEADLOCK FALSE
INVARIANT RecoveryStarts
