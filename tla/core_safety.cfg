SPECIFICATION FairSpec
CONSTANTS
    Voltages <- MCVoltages
    BlackoutVoltageLimit = 9
    Limits = {1, 3}
    MaxLimit = 3
    HasCurrentSensor = TRUE
    DryRun = FALSE
    PoweroffOutcomes = {"ok", "nonzero", "oserror"}
    TickInterval = 1
    MaxLag = 1
    MaxErrors = 3
    WatchdogTimeout = 10
    ClockSteps = {}
    Horizon = 21
INVARIANTS
    TypeOK
    PublishedCoherent
    TellInTime
    WatchdogFed
    PoweroffOnce
    NeverAbandoned
PROPERTIES
    CommitJustified
    CountdownHonest
    PolicyKept
    LowPowerHandsOff
    RecoveryHonoured
CHECK_DEADLOCK TRUE
