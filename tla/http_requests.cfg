SPECIFICATION FairServerSpec
CONSTANTS
    Hats <- MCAllHats
    Timeouts = {10000}
    Thresholds = {}
    Levels = {128}
    Clients = {c1, c2}
    Commands = {"sleep", "shutdown", "put"}
    Texts <- MCTexts
    RawBodies <- MCBodies
    MaxBodyWait = 1
    MaxHalt = 1
    MaxTasks = 2
    InOrder = FALSE
    RtcwakeMayFail = TRUE
INVARIANTS
    ServerTypeOK
    HaltAnnounced
PROPERTIES
    HandedOverInFull
CHECK_DEADLOCK TRUE
