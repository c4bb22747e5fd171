SPECIFICATION StartupSpec
CONSTANTS
    Limits = {1, 2, 3}
    DefaultLimit = 3
    FileNames = {"etc", "user"}
    DefaultFile = "etc"
    Contents <- MCContents
    CommandLines <- MCCommandLines
PROPERTIES
    WriteReachesSetting
CHECK_DEADLOCK TRUE
