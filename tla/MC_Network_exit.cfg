SPECIFICATION FairSpec
CONSTANTS
  Hubs = {1, 2}
  Timers = {}
  Leaves = {3}
  Kind <- AllBulbs
  MaxFd = 5
  MINUTES_IN_A_DAY = 1
  ToAdd = {3}
  Faults = {}
  ChildrenModulus = 16
  Offered <- Exiting
  Settled <- ExitingAtRest
  ManualCommands = {}
  MaxAwaited = 1
  MaxHurried = 0
  MaxCrashes = 1
  CrashMeets = {"info"}
INVARIANTS
  EverythingAnswered
  ClosedOnceLeft
  TypesAgree
PROPERTIES
  ComesToRest
  ExitEnds
  NothingLeftBehind
CHECK_DEADLOCK FALSE
