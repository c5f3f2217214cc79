SPECIFICATION Spec
CONSTANTS
  NumSlots = 2
  Me = 1
  Commands <- MCCommands
  RxWords = 6
  MaxLines = 2
ACTION_CONSTRAINT DoorsRest
INVARIANTS TypeOK DoesAsAsked DoesAllAsked
PROPERTIES ReportsAreSettled EventsCatchUp
CHECK_DEADLOCK FALSE
