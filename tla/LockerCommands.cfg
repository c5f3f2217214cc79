SPECIFICATION Spec
CONSTANTS
  Slots = {0, 1}
  Fitted = {0}
  None = None
  MaxCommands = 2
  MaxOpenings = 1
  MaxNoise = 1
INVARIANTS TypeOK StateFollowsDoor AllAnswered NoChatter
PROPERTY KeepsContract
CHECK_DEADLOCK FALSE
