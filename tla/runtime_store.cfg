SPECIFICATION Spec
CONSTANTS
  base = base
  app = app
  tool = tool
  Images = {base, app, tool}
  Runtimes = {1, 2, 3}
  ImagesOf <- MCImagesOf
  Factory = 1
  Retention = 1
  Threads = {t1, t2}
  Disciplines = {TRUE, FALSE}
  Workloads <- MCWorkloads
  LosesUnsynced = FALSE
  MaxRequests = 3
  MaxCrashes = 1
  MaxFaults = 1
  NONE = NONE
CHECK_DEADLOCK FALSE
SYMMETRY MCSymmetry
INVARIANTS TypeOK StagedIsComplete ActiveIsReadable RetentionHolds
PROPERTIES KeepsProtected
