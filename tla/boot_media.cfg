SPECIFICATION Spec
CONSTANTS
  boot = boot
  rootA = rootA
  rootB = rootB
  hash = hash
  store = store
  dm = dm
  m1 = m1
  m2 = m2
  m3 = m3
  clone1 = clone1
  clone2 = clone2
  clone3 = clone3
  stick = stick
  own = own
  other = other
  third = third
  MaxDmDepth = 2
  NONE = NONE
  Old = Old
  Boards <- MCBoards
  Visitors <- MCVisitors
  EmmcDisks = {own}
  Filesystems = {boot, clone1, stick}
  Updates <- MCUpdates
  Updaters = {t1, t2}
  MaxUpdates = 2
  MaxFaults = 1
  MaxCrashes = 1
SYMMETRY MCSymmetry
CHECK_DEADLOCK FALSE
INVARIANTS OneMount FileWhole RightDisk RefusedFirst Relocked
