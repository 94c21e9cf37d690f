SPECIFICATION FairSpec
CONSTANTS
    Threads = {t1, t2}
    NoThread = NoThread
    Parents = {controller}
    Controller = controller
    NoPipe = NoPipe
    Values = {1}
    MinDelay = 1
    DefaultDelay = 2
    MaxDelay = 2
    MinThermostat = 1
    DefaultThermostat = 1
    MaxThermostat = 1
    MaxPercentage = 1
    MaxTime = 2
    Faults = {}
PROPERTY AlwaysAnswered
CHECK_DEADLOCK FALSE
