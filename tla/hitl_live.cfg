SPECIFICATION FairSpec
CONSTANTS
  Exts = {a, b}
  Callers = {c}
  Requests = {"mount", "unmount", "refresh"}
  Failures = 2
  MaxRequests = 1
  MaxOutages = 1
  MaxFaults = 1
  NONE = NONE
CHECK_DEADLOCK FALSE
PROPERTIES DeadServerIsLeft
