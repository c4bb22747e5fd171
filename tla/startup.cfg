SPECIFICATION StartupSpec
CONSTANTS
    Limits = {1, 2, 3}
    DefaultLimit = 3
    FileNames = {"etc", "user"}
    DefaultFile = "etc"
    Contents <- MCContents
    CommandLines <- MCCommandLines
INVARIANTS
    StartupTypeOK
    
PROPERTIES
    ComesUp
CHECK_DEADLOCK TRUE
