SPECIFICATION Spec
CONSTANTS
  Callers = {c1}
  Slaves = {s1}
  Commands = {"PING", "O"}
  None = None
  MaxCalls = 1
  MaxMessages = 1
CHECK_DEADLOCK FALSE
INVARIANT AliveConfirmsPing
