SPECIFICATION Spec
CONSTANTS
  slot1 = slot1
  slot2 = slot2
  slot3 = slot3
  Slots = {slot1, slot2, slot3}
  Wired = {slot1, slot2}
  None = None
  Layouts <- MCLayouts
  MaxSlots = 1
  MaxCabinets = 2
  Here = 1
  MaxSetups = 2
  MaxWork = 3
INVARIANTS TypeOK CompletedMeansOpened DetailsMatchProgress EventsNameLastSetup ReportedExist
PROPERTY ThreadsEnd
CHECK_DEADLOCK FALSE
