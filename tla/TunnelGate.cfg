SPECIFICATION Spec
CONSTANTS
  Callers = {p1}
  MaxBinds = 1
  MaxRetryCount = 1
CHECK_DEADLOCK FALSE
INVARIANTS BlocksWhileConnecting
