SPECIFICATION FairSpec
CONSTANTS
  Callers = {c1, c2}
  Slaves = {s1, s2}
  Commands = {"O"}
  None = None
  MaxCalls = 2
  MaxMessages = 2
INVARIANTS TypeOK NoSleepOnReply Released
PROPERTIES InOrderAtMostOnce ImplementsCommandService EveryCallReturns
CHECK_DEADLOCK FALSE
