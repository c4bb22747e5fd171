SPECIFICATION DaemonSpec
CONSTANTS
    Voltages <- MCVoltages
    BlackoutVoltageLimit = 9
    Limits = {1}
    MaxLimit = 1
    HasCurrentSensor = FALSE
    DryRun = FALSE
    PoweroffOutcomes = {"ok", "nonzero", "oserror"}
    TickInterval = 1
    MaxLag = 1
    MaxErrors = 1
    WatchdogTimeout = 6
    ClockSteps = {}
    Horizon = 11
    Faults = {"probe", "handler", "early"}
    MaxFaults = 2
    MaxSignals = 2
INVARIANTS
    DaemonTypeOK
    NoSpuriousReset
PROPERTIES
    ExitDisarms
CHECK_DEADLOCK TRUE
