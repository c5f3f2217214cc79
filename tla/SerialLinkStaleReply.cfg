SPECIFICATION Spec
CONSTANTS
  Callers = {c1}
  Slaves = {s1}
  Commands = {"O"}
  None = None
  MaxCalls = 2
  MaxMessages = 2
CHECK_DEADLOCK FALSE
INVARIANT ReplyAnswersItsCommand
