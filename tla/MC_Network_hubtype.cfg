SPECIFICATION Spec
CONSTANTS
  Hubs = {1, 2}
  Timers = {}
  Leaves = {3}
  Kind <- AllBulbs
  MaxFd = 4
  MINUTES_IN_A_DAY = 1
  ToAdd = {}
  Faults = {}
  ChildrenModulus = 16
  Offered <- Moves
  Settled = {}
  ManualCommands = {}
  MaxAwaited = 1
  MaxHurried = 0
  MaxCrashes = 0
  CrashMeets = {}
INVARIANTS
  TypesAgree
CHECK_DEADLOCK FALSE
