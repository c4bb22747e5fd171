SPECIFICATION Spec
CONSTANTS
    Voltages <- MCVoltages
    BlackoutVoltageLimit = 9
    Limits = {1, 2}
    MaxLimit = 2
    HasCurrentSensor = TRUE
    DryRun = FALSE
    PoweroffOutcomes = {"ok", "nonzero", "oserror"}
    TickInterval = 1
    MaxLag = 1
    MaxErrors = 1
    WatchdogTimeout = 6
    ClockSteps = {}
    Horizon = 12
INVARIANTS
    TimerAlive
CHECK_DEADLOCK TRUE
