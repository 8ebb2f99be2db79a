SPECIFICATION FairSpec
CONSTANTS
  Slots = {a, b}
  Runtimes = {1, 2, 3}
  Bundles = {1, 2, 3}
  BundleOf <- MCBundleOf
  RootfsId <- MCRootfsId
  InitrdId <- MCInitrdId
  HasVerify = {1, 2, 3}
  HasRollback = {1, 2}
  Loaders = {"uboot", "tegra", "efi", "sorting"}
  Updaters = {u}
  Activators = {v}
  Refreshers = {m}
  FactorySlot = a
  FactoryBundle = 1
  FactoryRuntime = 1
  InInitrd = TRUE
  Serialised = TRUE
  QuietReboot = TRUE
  LateActionFails = TRUE
  RebootMayFail = FALSE
  MaxRequests = 3
  MaxRefreshes = 1
  MaxCrashes = 1
  MaxFaults = 1
  NONE = NONE
  Torn = Torn
  Blank = Blank
CHECK_DEADLOCK FALSE
INVARIANTS TypeOK UnprovenTargetIsMarked NextBootRecovers
PROPERTIES ActivationMatchesOs AppliedIsDecided  RollbackLands
