SPECIFICATION ServerSpec
CONSTANTS
    Hats <- MCHats
    Timeouts = {}
    Thresholds = {}
    Levels = {}
    Clients = {c1}
    Commands = {"sleep"}
    Texts <- MCZero
    RawBodies = {}
    MaxBodyWait = 1
    MaxHalt = 2
    MaxTasks = 2
    InOrder = TRUE
    RtcwakeMayFail = FALSE
PROPERTIES
    SleepWakes
CHECK_DEADLOCK TRUE
