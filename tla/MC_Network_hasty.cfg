SPECIFICATION Spec
CONSTANTS
  Hubs = {1}
  Timers = {5}
  Leaves = {3}
  Kind <- AllWindows
  MaxFd = 4
  MINUTES_IN_A_DAY = 1
  ToAdd = {5}
  Faults = {}
  ChildrenModulus = 16
  Offered <- Hasty
  Settled <- Waited
  ManualCommands = {}
  MaxAwaited = 2
  MaxHurried = 1
  MaxCrashes = 1
  CrashMeets = {"change_parent"}
INVARIANTS
  TypeOK
  NoRouteUnreachable
CHECK_DEADLOCK FALSE
