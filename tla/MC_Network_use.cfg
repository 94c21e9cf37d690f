SPECIFICATION Spec
CONSTANTS
  Hubs = {1, 2}
  Timers = {5}
  Leaves = {3, 4, 6}
  Kind <- BulbsAndWindow
  MaxFd = 7
  MINUTES_IN_A_DAY = 2
  ToAdd = {}
  Faults = {}
  ChildrenModulus = 16
  Offered <- Chained
  Settled <- Chained
  ManualCommands = {}
  MaxAwaited = 1
  MaxHurried = 0
  MaxCrashes = 0
  CrashMeets = {}
INVARIANTS
  HubKnowsBranch
  TimerKnowsBranch
  ScheduleObeyed
  InfoIsTruthful
  SwitchReachesAll
  OneKindPerHub
PROPERTY
  RefinesTree
CHECK_DEADLOCK FALSE
