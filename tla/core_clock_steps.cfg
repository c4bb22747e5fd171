SPECIFICATION Spec
CONSTANTS
    Voltages = {8, 10}
    BlackoutVoltageLimit = 9
    Limits = {1, 2}
    MaxLimit = 2
    HasCurrentSensor = FALSE
    DryRun = TRUE
    PoweroffOutcomes = {"ok", "nonzero", "oserror"}
    TickInterval = 2
    MaxLag = 1
    MaxErrors = 1
    WatchdogTimeout = 6
    ClockSteps <- MCClockSteps
    Horizon = 16
PROPERTIES
    ShownBeforeCommit
CHECK_DEADLOCK TRUE
