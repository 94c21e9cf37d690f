SPECIFICATION Spec
CONSTANTS
    Threads = {t1, t2}
    NoThread = NoThread
    Parents = {controller, hub}
    Controller = controller
    NoPipe = NoPipe
    Values = {0, 1, 2, 3}
    MinDelay = 1
    DefaultDelay = 2
    MaxDelay = 2
    MinThermostat = 1
    DefaultThermostat = 1
    MaxThermostat = 1
    MaxPercentage = 0
    MaxTime = 3
    Faults = {"open", "block", "mutex", "signal"}
SYMMETRY ThreadSymmetry
CHECK_DEADLOCK FALSE
INVARIANT TypeOK
INVARIANT OneTimerPerOpening
INVARIANT MutexDiscipline
INVARIANT OpenTimeIsDuration
PROPERTY EarlyCloseIsLast
