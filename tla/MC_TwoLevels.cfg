SPECIFICATION Spec
CONSTANTS
  Hubs = {1, 2}
  Timers = {}
  Leaves = {3, 4}
  Kind <- AllBulbs
  MaxFd = 5
  MINUTES_IN_A_DAY = 1
  ToAdd = {4}
  Faults = {}
  ChildrenModulus = 16
  Offered <- MovesAndSwitches
  Settled <- Adds
  ManualCommands = {"info"}
  MaxAwaited = 2
  MaxHurried = 0
  MaxCrashes = 0
  CrashMeets = {}
INVARIANTS
  EverythingAnswered
  AnsweredOnce
  TwoLevels
CHECK_DEADLOCK FALSE
