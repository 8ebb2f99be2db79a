SPECIFICATION Spec
CONSTANTS
  Exts = {a, b}
  Callers = {c}
  Requests = {"mount", "unmount"}
  Failures = 2
  MaxRequests = 1
  MaxOutages = 0
  MaxFaults = 1
  NONE = NONE
CHECK_DEADLOCK FALSE
INVARIANT BoardStaysMerged
