SPECIFICATION Spec
CONSTANTS
  base = base
  app = app
  tool = tool
  Images = {base, app, tool}
  Runtimes = {1, 2, 3}
  ImagesOf <- MCImagesOf
  Factory = 1
  Retention = 1
  Threads = {t1, t2}
  Disciplines = {TRUE}
  Workloads <- MCUpdates
  LosesUnsynced = FALSE
  MaxRequests = 2
  MaxCrashes = 0
  MaxFaults = 1
  NONE = NONE
CHECK_DEADLOCK FALSE
SYMMETRY MCSymmetry
INVARIANTS ActiveResolves
