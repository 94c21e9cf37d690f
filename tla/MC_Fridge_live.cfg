SPECIFICATION FairSpec
CONSTANTS
    Threads = {t1, t2}
    NoThread = NoThread
    Parents = {controller, hub}
    Controller = controller
    NoPipe = NoPipe
    Values = {1}
    MinDelay = 1
    DefaultDelay = 1
    MaxDelay = 1
    MinThermostat = 1
    DefaultThermostat = 1
    MaxThermostat = 1
    MaxPercentage = 0
    MaxTime = 2
    Faults = {"create", "mutex", "block"}
PROPERTY AnsweredOrStuck
PROPERTY DoorCloses
CHECK_DEADLOCK FALSE
