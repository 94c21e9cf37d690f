SPECIFICATION Spec
CONSTANTS
  Hubs = {1}
  Timers = {}
  Leaves = {2}
  Kind <- AllBulbs
  MaxFd = 3
  MINUTES_IN_A_DAY = 1
  ToAdd = {2}
  Faults = {"start"}
  ChildrenModulus = 16
  Offered <- Adds
  Settled = {}
  ManualCommands = {}
  MaxAwaited = 1
  MaxHurried = 0
  MaxCrashes = 0
  CrashMeets = {}
INVARIANTS
  DeathsDetected
CHECK_DEADLOCK FALSE
