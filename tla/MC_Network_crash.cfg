SPECIFICATION Spec
CONSTANTS
  Hubs = {}
  Timers = {1}
  Leaves = {2}
  Kind <- AllBulbs
  MaxFd = 3
  MINUTES_IN_A_DAY = 3
  ToAdd = {1, 2}
  Faults = {"fork", "start"}
  ChildrenModulus = 16
  Offered <- Crashing
  Settled <- Crashing
  ManualCommands = {"power_on", "power_off"}
  MaxAwaited = 1
  MaxHurried = 0
  MaxCrashes = 1
  CrashMeets = {"info", "power_on", "power_off", "change_parent", "set_begin", "set_end"}
INVARIANTS
  NobodyForgotten
  NamesRemoved
  NoDeviceStranded
  ControllerKnowsTopology
  TimerKnowsBranch
  RoutesLeadThere
  ClosedOnceLeft
  TypesAgree
  OwnPipesOpen
CHECK_DEADLOCK FALSE
