SPECIFICATION FairDaemonSpec
CONSTANTS
    Voltages <- MCVoltages
    BlackoutVoltageLimit = 9
    Limits = {1}
    MaxLimit = 1
    HasCurrentSensor = FALSE
    DryRun = FALSE
    PoweroffOutcomes = {"ok", "nonzero", "oserror"}
    TickInterval = 1
    MaxLag = 1
    MaxErrors = 1
    WatchdogTimeout = 6
    ClockSteps = {}
    Horizon = 11
    Faults = {"crash", "probe", "first tick"}
    MaxFaults = 2
    MaxSignals = 1
INVARIANTS
    PoweroffOnce
    ResetOnlyUnguarded
PROPERTIES
    PromiseKept
    CommitJustified
    ExitDisarmsLater
    StopObeyed
    BlackoutSurvivesRestart
CHECK_DEADLOCK TRUE
