SPECIFICATION Spec
CONSTANTS
  Exts = {a, b}
  Callers = {c}
  Requests = {"mount", "unmount", "refresh", "merge", "unmerge"}
  Failures = 2
  MaxRequests = 2
  MaxOutages = 1
  MaxFaults = 1
  NONE = NONE
CHECK_DEADLOCK FALSE
SYMMETRY MCSymmetry
INVARIANTS TypeOK NeverUnmerged RestoredAtRest MountIsWatched DropinsFollowMount SocketsKept
