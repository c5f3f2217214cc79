SPECIFICATION Spec
CONSTANTS
  Boxes = {b1, b2}
  None = None
  MaxSessions = 2
  MaxRequests = 5
INVARIANTS TypeOK HomeIsBlank OrderFits PollsOwned
PROPERTY SuccessEnds
CHECK_DEADLOCK FALSE
