SPECIFICATION Spec
CONSTANTS
  Slots = {a, b}
  Runtimes = {1, 2}
  Bundles = {1, 2}
  BundleOf <- MCBundleOf
  RootfsId <- MCRootfsId
  InitrdId <- MCInitrdId
  HasVerify = {1, 2}
  HasRollback = {1, 2}
  Loaders = {"tegra", "efi", "sorting"}
  Updaters = {u}
  Activators = {v}
  Refreshers = {m}
  FactorySlot = a
  FactoryBundle = 1
  FactoryRuntime = 1
  InInitrd = FALSE
  Serialised = FALSE
  QuietReboot = FALSE
  LateActionFails = TRUE
  RebootMayFail = TRUE
  MaxRequests = 3
  MaxRefreshes = 1
  MaxCrashes = 1
  MaxFaults = 1
  NONE = NONE
  Torn = Torn
  Blank = Blank
CHECK_DEADLOCK FALSE
PROPERTIES RunningSlotUntouched
