SPECIFICATION Spec
CONSTANTS
  Main = Main
  Jobs = {j1, j2}
  Cabinets = {c1}
  None = None
  MaxJobs = 2
  MaxLosses = 1
INVARIANTS TypeOK Reachable HeartbeatFollows
PROPERTY EveryThreadFinishes
CHECK_DEADLOCK FALSE
