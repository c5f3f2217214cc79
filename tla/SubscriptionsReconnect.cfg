SPECIFICATION ServedSpec
CONSTANTS
  Main = Main
  Jobs = {j1}
  Cabinets = {c1}
  None = None
  MaxJobs = 1
  MaxLosses = 1
INVARIANT OpenAfterReconnect
CHECK_DEADLOCK FALSE
