SPECIFICATION Spec
CONSTANTS
  Cabinets = {c1, c2}
  Boxes = {b1, b2}
  None = None
  Seeded = {c1}
  ForceFail = FALSE
  MaxMessages = 3
  MaxLosses = 1
INVARIANTS TypeOK KnownAreOnline DoorsEndClosed
PROPERTIES KeepsContract EveryCommandAnswered
CHECK_DEADLOCK FALSE
