SPECIFICATION Spec
CONSTANTS
  Threads = {t1, t2}
  Locations = {l1, l2}
  Cabinets = {c1, c2}
  None = None
  Empty = Empty
  Torn = Torn
  MaxJobs = 2
  MaxCrashes = 1
  MaxFaults = 2
INVARIANTS TypeOK CrashAtomic Agreement FlagReleased
CHECK_DEADLOCK FALSE
SYMMETRY Symmetry
